----------------------------- MODULE MarketData -----------------------------
(***************************************************************************)
(* Requests for market data in the threads of one process: the tool's      *)
(* fetch_market_data and the data stage of the backtest runner, the        *)
(* loaders they choose, the cache on disk they share, the failures the     *)
(* loaders remember and the throttle in front of the hosts.                *)
(*                                                                         *)
(* Time is a few ticks around one local midnight.  A range ends            *)
(* yesterday ("past") or today; past midnight both are final.              *)
(***************************************************************************)
EXTENDS MarketLoaders, FiniteSets, SequencesExt

CONSTANTS Callers,        \* the threads
          Requests,       \* the requests each may make
          Setups,         \* sets of gated loaders that may be usable
          Midnight,       \* the tick at which today becomes yesterday
          MaxNow,         \* bound: the clock stops here unless a slot is awaited
          MinInterval, Jitters

(* resolve_min_interval: an interval from the environment is used only when *)
(* it is positive.                                                         *)
ASSUME ClockAssumption == /\ Midnight \in Nat /\ MaxNow \in Nat /\ MinInterval \in Nat \ {0}
                          /\ Jitters \subseteq Nat

(* BacktestConfig: a backtest names at least one code.                     *)
ASSUME RequestAssumption ==
    \A c \in Callers : \A r \in Requests[c] :
        /\ r.entry \in {"tool", "backtest"}
        /\ r.entry = "backtest" => r.codes \in Seq(Kinds) \ {<<>>}

VARIABLES now,       \* the clock
          up,        \* the loaders whose is_available holds
          cache,     \* the cache: key -> [frame, meta]
          memo,      \* <<loader, symbol>> failures remembered (_FAILED_CODES, _US_SECID_CACHE)
          slots,     \* host -> the fire times reserved so far; the largest is _last
          call       \* caller -> its request and how far it is

vars == <<now, up, cache, memo, slots, call>>

NoFrame == [loader |-> "none"]
NoCall == [st |-> "idle", req |-> "none", plan |-> <<>>, loader |-> "none", chain |-> <<>>, todo |-> <<>>, got |-> {}, out |-> {},
           fire |-> 0, tries |-> 0, frame |-> NoFrame]

(***************************************************************************)
(* The cache.                                                              *)
(***************************************************************************)
(* Mutant: the interval is not part of the key. *)
CacheKeyUntimed(l, s, i, end) == <<l, s, "1D", end>>

(* make_loader_cache_key: everything that tells two frames apart, except   *)
(* the day of the fetch.                                                   *)
CacheKey(l, s, i, end) == <<l, s, i, end>>

(* loader_cache_range_is_final: the range ends strictly before today.      *)
RangeIsFinal(end) == end = "past" \/ now >= Midnight

(* The metadata of a frame is in the cache.                                *)
CacheMeta(k) == k \in DOMAIN cache /\ cache[k].meta

(* loader_cache_get: a frame whose metadata is missing is a miss.          *)
CacheHit(k, end) == RangeIsFinal(end) /\ CacheMeta(k)

(* Minute bars of tushare are fetched without the cache.                   *)
UsesCache(l, i) == ~(l = "tushare" /\ i = "1H")

(***************************************************************************)
(* Grouping and resolution.                                                *)
(***************************************************************************)
(* setdefault(key, []).append(code)                                        *)
Placed(groups, code, key) ==
    IF \E n \in DOMAIN groups : groups[n].src = key[code]
    THEN [n \in DOMAIN groups |-> [src |-> groups[n].src,
                                  codes |-> IF groups[n].src = key[code] THEN Append(groups[n].codes, code) ELSE groups[n].codes]]
    ELSE Append(groups, [src |-> key[code], codes |-> <<code>>])

(* Groups in the order of their first code.                                *)
GroupBy(codes, key) ==
    LET groups[n \in 0..Len(codes)] == IF n = 0 THEN <<>> ELSE Placed(groups[n-1], codes[n], key)
    IN  groups[Len(codes)]

(* fetch_market_data: codes are normalised (.SS is .SH) and named again    *)
(* by what the caller wrote; two names of one code leave only the last.    *)
NormalizeCode(c) == IF c = "ss" THEN "sh" ELSE c
OriginalOf(req, s) == LET named == SelectSeq(req.codes, LAMBDA c : NormalizeCode(c) = s)
                      IN  IF named = <<>> THEN s ELSE named[Len(named)]
Distinct(codes) == LET first == SelectSeq([i \in DOMAIN codes |-> i], LAMBDA i : \A j \in 1..(i - 1) : codes[j] # codes[i])
                   IN  [n \in DOMAIN first |-> codes[first[n]]]

(* _normalize_codes of the backtest.                                       *)
NormalizedFor(l, codes) == IF l \in {"okx", "ccxt"} THEN [i \in DOMAIN codes |-> FiledAs("okx", codes[i])] ELSE codes

PlanOf(req) ==
    LET codes == IF req.entry = "tool" THEN Distinct([i \in DOMAIN req.codes |-> NormalizeCode(req.codes[i])]) ELSE req.codes
    IN  IF req.source = "auto" THEN GroupBy(codes, IF req.entry = "tool" THEN DetectSource ELSE DetectMarket)
        ELSE << [src |-> req.source, codes |-> IF req.entry = "tool" THEN codes ELSE NormalizedFor(req.source, codes)] >>

(* _get_loader: when nothing is left, tushare's class whatever was asked.  *)
GetLoader(source) == IF WithFallback(source, up) # {} THEN WithFallback(source, up) ELSE {"tushare"}

(* The loaders the group at the head of the plan may get.                  *)
SourcesFor(req, src) ==
    CASE req.entry = "tool" -> WithFallback(src, up)
      [] req.entry = "backtest" /\ req.source # "auto" -> GetLoader(src)
      [] OTHER -> IF ResolveLoader(src, up) # {} THEN ResolveLoader(src, up) ELSE GetLoader(LegacySource[src])

(* tushare's constructor calls into its SDK and raises without it.         *)
Constructs(l) == l # "tushare" \/ l \in up

(* _audit_explicit_local: such a backtest has no runtime fallback.         *)
ExplicitLocal(req) == req.source = "local" \/ (req.source # "auto" /\ \E i \in DOMAIN req.codes : req.codes[i] = "file")

(***************************************************************************)
(* A request.                                                              *)
(***************************************************************************)
Set(c, rec) == call' = [call EXCEPT ![c] = rec]
Here(c) == call[c]
Asked(c) == call[c].req.interval

Init == /\ now = 0
        /\ \E s \in Setups : up = (Loaders \ Gated) \cup s
        /\ cache = << >> /\ memo = {}
        /\ slots = [l \in Loaders |-> {}]
        /\ call = [c \in Callers |-> NoCall]

Ask(c) == /\ Here(c).st = "idle"
          /\ \E r \in Requests[c] : Set(c, [NoCall EXCEPT !.st = "resolve", !.req = r, !.plan = PlanOf(r)])
          /\ UNCHANGED <<now, up, cache, memo, slots>>

(* The loader of the next group is resolved and constructed.  The tool     *)
(* does this outside its try: no source at all aborts the request.         *)
Resolve(c) ==
    /\ Here(c).st = "resolve"
    /\ LET g == Head(Here(c).plan)
           free == {l \in SourcesFor(Here(c).req, g.src) : Constructs(l)}
       IN  IF free = {} THEN Set(c, [Here(c) EXCEPT !.st = "aborted", !.out = {}])
           ELSE \E l \in free :
                  Set(c, [Here(c) EXCEPT !.st = "enter", !.loader = l, !.got = {},
                                         !.chain = IF Here(c).req.entry = "tool" \/ ExplicitLocal(Here(c).req) THEN <<>>
                                                   ELSE SelectSeq(FallbackChains[DetectMarket[Head(g.codes)]], LAMBDA f : f # IF Here(c).req.source = "auto" THEN l ELSE Here(c).req.source)])
    /\ UNCHANGED <<now, up, cache, memo, slots>>

(* A loader that raises: the tool logs it and its codes stay unresolved;   *)
(* the backtest does not catch it.                                         *)
Raised(c) == IF Here(c).req.entry = "tool" THEN [Here(c) EXCEPT !.st = "group", !.got = {}, !.todo = <<>>, !.frame = NoFrame]
             ELSE [Here(c) EXCEPT !.st = "aborted", !.out = {}, !.got = {}, !.todo = <<>>, !.frame = NoFrame]

(* fetch begins: the interval is checked; baostock logs in.                *)
Enter(c) ==
    /\ Here(c).st = "enter"
    /\ LET l == Here(c).loader
           codes == Head(Here(c).plan).codes
           begun == [Here(c) EXCEPT !.st = "code",
                                    !.todo = IF Here(c).req.entry = "tool" THEN codes ELSE NormalizedFor(l, codes)]
       IN  CASE Bars(l, Asked(c)) = "raises" -> Set(c, Raised(c))
             [] Bars(l, Asked(c)) = "nothing" -> Set(c, [Here(c) EXCEPT !.st = "group"])
             [] OTHER -> \/ Set(c, begun)
                         \/ l = "baostock" /\ Set(c, [Here(c) EXCEPT !.st = "group"])
    /\ UNCHANGED <<now, up, cache, memo, slots>>

Filed(c, f) == Here(c).got \cup {[name |-> FiledAs(Here(c).loader, Head(Here(c).todo)), code |-> Head(Here(c).todo), by |-> Here(c).loader, frame |-> f]}
NextCode(c, got) == [Here(c) EXCEPT !.st = "code", !.todo = Tail(Here(c).todo), !.got = got, !.frame = NoFrame, !.tries = 0]
KeyAt(c) == CacheKey(Here(c).loader, FiledAs(Here(c).loader, Head(Here(c).todo)), Asked(c), Here(c).req.end)

(* One symbol through cached_loader_fetch: remembered failure, cache,      *)
(* symbols the loader does not serve, then upstream.                       *)
LookUp(c) ==
    /\ Here(c).st = "code" /\ Here(c).todo # <<>>
    /\ LET l == Here(c).loader
           s == Head(Here(c).todo)
       IN  CASE l = "tushare" /\ Asked(c) = "1D" /\ <<l, s>> \in memo -> Set(c, NextCode(c, Here(c).got))
             [] OTHER ->
                IF UsesCache(l, Asked(c)) /\ CacheHit(KeyAt(c), Here(c).req.end)
                THEN Set(c, NextCode(c, Filed(c, cache[KeyAt(c)].frame)))
                ELSE IF ~Asks(l, Asked(c), s) \/ (l = "eastmoney" /\ <<l, s>> \in memo)
                THEN Set(c, NextCode(c, Here(c).got))
                ELSE Set(c, [Here(c) EXCEPT !.st = IF LoaderRegistry[l].spaced THEN "wait" ELSE "ask", !.fire = now])
    /\ UNCHANGED <<now, up, cache, memo, slots>>

(* Mutant: a slot is counted from now, not from the last one. *)
ReservedFromNow(host) == IF slots[host] = {} THEN {now} ELSE {now + MinInterval + j : j \in Jitters}

(* HostThrottle.wait: under its lock the caller reserves the next slot;    *)
(* it sleeps outside.                                                      *)
Reserved(host) ==
    LET last == CHOOSE t \in slots[host] : \A u \in slots[host] : u <= t
    IN  IF slots[host] = {} \/ now >= last + MinInterval THEN {now} ELSE {last + MinInterval + j : j \in Jitters}

Wait(c) ==
    /\ Here(c).st = "wait"
    /\ \E t \in Reserved(Here(c).loader) :
         /\ Set(c, [Here(c) EXCEPT !.st = "ask", !.fire = t])
         /\ slots' = [slots EXCEPT ![Here(c).loader] = @ \cup {t}]
    /\ UNCHANGED <<now, up, cache, memo>>

(* What the upstream has for symbol s now: the last bar of a range that is *)
(* not over is provisional.                                                *)
FrameOf(l, s, i, end) == [loader |-> l, symbol |-> FiledAs(l, s), bars |-> Bars(l, i), end |-> end,
                          settled |-> RangeIsFinal(end)]

Answered(c) ==
    /\ Here(c).st = "ask" /\ now >= Here(c).fire
    /\ LET f == FrameOf(Here(c).loader, Head(Here(c).todo), Asked(c), Here(c).req.end)
       IN  \/ Set(c, IF UsesCache(Here(c).loader, Asked(c)) THEN [Here(c) EXCEPT !.st = "put", !.frame = f]
                     ELSE NextCode(c, Filed(c, f)))
           \/ Set(c, NextCode(c, Here(c).got))          \* no data for the symbol
    /\ UNCHANGED <<now, up, cache, memo, slots>>

(* Mutant: a retry is never the last. *)
RetriesLeftAlways(l, tries) == LoaderRegistry[l].retries > 0

(* A failed attempt is retried by the loaders with a retry budget.         *)
RetriesLeft(l, tries) == tries < LoaderRegistry[l].retries

(* Attempts, counted modulo a bound above every loader's retries.          *)
NextTry(tries) == (tries + 1) % 5

(* The failure is the symbol's own, except for futu, whose batch it ends;  *)
(* tushare, and eastmoney's search for a US ticker, remember it.           *)
Fails(c) ==
    /\ Here(c).st = "ask" /\ now >= Here(c).fire
    /\ LET l == Here(c).loader
           s == Head(Here(c).todo)
       IN  IF RetriesLeft(l, Here(c).tries)
           THEN Set(c, [Here(c) EXCEPT !.tries = NextTry(Here(c).tries)]) /\ UNCHANGED memo
           ELSE /\ IF LoaderRegistry[l].alone THEN Set(c, NextCode(c, Here(c).got)) ELSE Set(c, Raised(c))
                /\ memo' = IF (l = "tushare" /\ Asked(c) = "1D") \/ (l = "eastmoney" /\ s = "us") THEN memo \cup {<<l, s>>} ELSE memo
    /\ UNCHANGED <<now, up, cache, slots>>

(* The budget of a paginated fetch runs out.                               *)
BudgetSpent(c) ==
    /\ Here(c).st = "ask" /\ LoaderRegistry[Here(c).loader].retries > 0
    /\ Set(c, NextCode(c, Here(c).got))
    /\ UNCHANGED <<now, up, cache, memo, slots>>

(* loader_cache_put: the range is judged again, at the time of the write.  *)
(* The frame replaces the old one, the metadata follows; a failure of      *)
(* either write is swallowed.                                              *)
Put(c) ==
    /\ Here(c).st = "put"
    /\ \/ /\ RangeIsFinal(Here(c).req.end)
          /\ cache' = [k \in DOMAIN cache \cup {KeyAt(c)} |->
                         IF k = KeyAt(c) THEN [frame |-> Here(c).frame, meta |-> CacheMeta(k)] ELSE cache[k]]
          /\ Set(c, [Here(c) EXCEPT !.st = "meta"])
       \/ Set(c, NextCode(c, Filed(c, Here(c).frame))) /\ UNCHANGED cache
    /\ UNCHANGED <<now, up, memo, slots>>
PutMeta(c) ==
    /\ Here(c).st = "meta"
    /\ \/ cache' = [cache EXCEPT ![KeyAt(c)].meta = TRUE]
       \/ UNCHANGED cache
    /\ Set(c, NextCode(c, Filed(c, Here(c).frame)))
    /\ UNCHANGED <<now, up, memo, slots>>

(* Mutant: a code that is missing is fetched from the next source. *)
FallsBackPartly(req, got) == req.entry = "backtest" /\ Cardinality(got) < Len(req.codes)

(* The batch is through.  Only a backtest whose loader returned nothing at *)
(* all tries the rest of the chain; a constructor that raises there ends   *)
(* the run.                                                                *)
FallsBack(req, got) == req.entry = "backtest" /\ got = {}

GroupEnds(c) ==
    /\ Here(c).st = "group" \/ (Here(c).st = "code" /\ Here(c).todo = <<>>)
    /\ LET next == Head(Here(c).chain)
           named == IF Here(c).req.entry = "tool" THEN {[r EXCEPT !.name = OriginalOf(Here(c).req, r.name)] : r \in Here(c).got}
                    ELSE Here(c).got
           out == {o \in Here(c).out : \A r \in named : r.name # o.name} \cup named
       IN  IF FallsBack(Here(c).req, Here(c).got) /\ Here(c).chain # <<>>
           THEN IF ~Constructs(next) THEN Set(c, [Here(c) EXCEPT !.st = "aborted", !.out = {}])
                ELSE Set(c, [Here(c) EXCEPT !.st = IF next \in up THEN "enter" ELSE "group", !.chain = Tail(Here(c).chain), !.out = out,
                                            !.loader = IF next \in up THEN next ELSE Here(c).loader])
           ELSE Set(c, [Here(c) EXCEPT !.st = IF Len(Here(c).plan) > 1 THEN "resolve" ELSE "done", !.plan = Tail(Here(c).plan),
                                       !.out = out, !.got = {}, !.loader = "none", !.chain = <<>>])
    /\ UNCHANGED <<now, up, cache, memo, slots>>

Tick == /\ now < MaxNow \/ \E c \in Callers : call[c].st = "ask" /\ call[c].fire > now
        /\ now' = now + 1
        /\ UNCHANGED <<up, cache, memo, slots, call>>

Quiet == /\ \A c \in Callers : call[c].st \in {"done", "aborted"}
         /\ UNCHANGED vars

CallerStep(c) == \/ Resolve(c) \/ Enter(c) \/ LookUp(c) \/ Wait(c) \/ Answered(c) \/ Fails(c) \/ BudgetSpent(c)
                 \/ Put(c) \/ PutMeta(c) \/ GroupEnds(c)
Next == (\E c \in Callers : Ask(c) \/ CallerStep(c)) \/ Tick \/ Quiet

Spec == Init /\ [][Next]_vars /\ WF_vars(Tick) /\ \A c \in Callers : WF_vars(CallerStep(c))

(***************************************************************************)
(* Properties.                                                             *)
(***************************************************************************)
Frames(c) == call[c].got \cup call[c].out

(* Whatever other requests have stored, a code is answered with a frame of *)
(* its own loader, symbol, interval and range, and with settled bars when  *)
(* the range was over before the process began.  A range that ends today   *)
(* may be answered from the cache with the provisional bar another request *)
(* fetched before midnight (loaders/base.py, cached_loader_fetch).         *)
CacheIsTransparent ==
    \A c \in Callers : \A r \in Frames(c) :
        /\ r.frame.loader = r.by /\ r.frame.symbol = FiledAs(r.by, r.code)
        /\ r.frame.bars = Bars(r.by, Asked(c)) /\ r.frame.end = call[c].req.end
        /\ call[c].req.end = "past" => r.frame.settled

(* base.py:292-296 refuses "a range whose last bar is still forming", for  *)
(* it "would pin a provisional bar and serve it on every later run".  The  *)
(* code judges the range at the put: a bar fetched before midnight and put *)
(* after it is stored, so the code does not have this property.            *)
CacheHoldsSettledBars == \A k \in DOMAIN cache : cache[k].frame.settled

(* A backtest never mixes two sources within one market: prices adjusted   *)
(* in different ways would meet in one portfolio (runner.py, _fetch_auto   *)
(* and the runtime fallback of main).                                      *)
OneSourcePerMarket ==
    \A c \in Callers : call[c].st # "idle" /\ call[c].req.entry = "backtest" =>
        \A r, q \in Frames(c) : DetectMarket[r.code] = DetectMarket[q.code] => r.by = q.by

(* The tool never answers an explicit request for local files from the     *)
(* network (registry.py, get_loader_cls_with_fallback).                    *)
LocalToolStaysLocal ==
    \A c \in Callers : call[c].st # "idle" /\ call[c].req.entry = "tool" /\ call[c].req.source = "local" =>
        \A r \in Frames(c) : r.by = "local"

(* registry.py:105 says the same of every entry: local is a source that    *)
(* "must NEVER silently fall through to a network loader".  The backtest   *)
(* does: its _get_loader catches the refusal and answers with tushare      *)
(* (runner.py, _get_loader), so the code does not have this property.      *)
LocalStaysLocal ==
    \A c \in Callers : call[c].st # "idle" /\ call[c].req.source = "local" =>
        \A r \in Frames(c) : r.by = "local"

(* The source that was asked for, or one for a whole market, and no mix.   *)
SourcesAreHonoured == OneSourcePerMarket /\ LocalToolStaysLocal

(* The fire times reserved for one host are at least the minimum interval  *)
(* apart, however many callers burst (_http.py, HostThrottle.wait).        *)
SlotsAreSpaced ==
    \A l \in Loaders : /\ \A t, u \in slots[l] : t < u => u >= t + MinInterval
                       /\ \A c, d \in Callers : c # d /\ call[c].loader = l /\ call[d].loader = l
                              /\ call[c].st = "ask" /\ call[d].st = "ask" /\ LoaderRegistry[l].spaced => call[c].fire # call[d].fire

(* Every request ends: retries and pages have a budget, slots come round   *)
(* (base.py, retry_with_budget and check_budget).                          *)
RequestsEnd == \A c \in Callers : (call[c].st = "resolve") ~> (call[c].st \in {"done", "aborted"})
=============================================================================

--------------------------- MODULE ResearchProofs ---------------------------
(***************************************************************************)
(* Proofs about research: the market data that requests get, and what a    *)
(* swarm worker makes of its tools.                                        *)
(***************************************************************************)
EXTENDS MarketData, SwarmWorker, WellFoundedInduction, FiniteSetTheorems, SequenceTheorems, TLAPS

-----------------------------------------------------------------------------
(***************************************************************************)
(* Market data.                                                            *)
(***************************************************************************)
(* The states in which a loader is at work for the group at the head of    *)
(* the plan, and those in which it has a code in hand.                     *)
InHand == {"wait", "ask", "put", "meta"}
Working == {"enter", "code", "group"} \cup InHand

(* x has the fields of a caller's record. *)
Fields == {"st", "req", "plan", "loader", "chain", "todo", "got", "out", "fire", "tries", "frame"}
IsCall(x) == x = [f \in Fields |-> x[f]]
CallsAreCalls == call = [c \in Callers |-> call[c]] /\ \A c \in Callers : IsCall(call[c])

(* f is a frame of a loader for a symbol, an interval and a range; it is    *)
(* settled when the range was over from the start.                          *)
IsFrame(f, l, name, i, end) ==
    /\ f.loader = l /\ f.symbol = name /\ f.bars = Bars(l, i) /\ f.end = end
    /\ end = "past" => f.settled
IsFrameOf(f, l, s, i, end) == IsFrame(f, l, FiledAs(l, s), i, end)

(* A row of an answer whose frame is one its loader had for its code. *)
Authentic(r, req) ==
    /\ r = [f \in {"name", "code", "by", "frame"} |-> r[f]]
    /\ IsFrameOf(r.frame, r.by, r.code, req.interval, req.end)

(* What a caller holds is authentic, also the frame it is about to store. *)
HoldsTruth(x) ==
    /\ \A r \in x.got \cup x.out : Authentic(r, x.req)
    /\ x.st \in InHand => x.todo # <<>>
    /\ x.st \in {"put", "meta"} => IsFrameOf(x.frame, x.loader, Head(x.todo), x.req.interval, x.req.end)

(* An entry belongs under a key, and a cache of such entries. *)
IsFrameAt(f, k) == IsFrame(f, k[1], k[2], k[3], k[4])
Belongs(e, k) == e = [f \in {"frame", "meta"} |-> e[f]] /\ IsFrameAt(e.frame, k)
CacheIsTrue == \A k \in DOMAIN cache : Belongs(cache[k], k)

(* A backtest's plan: no market is in two of its groups, nor in a group     *)
(* that is still to come and in the answer; the batch under way is one      *)
(* loader's, for markets of the group at the head.                          *)
Markets(codes) == {DetectMarket[codes[j]] : j \in DOMAIN codes}

PlanIsApart(plan, out) ==
    /\ plan \in Seq(Range(plan))
    /\ \A i \in DOMAIN plan : plan[i].codes \in Seq(Kinds)
    /\ \A i, j \in DOMAIN plan : i # j => Markets(plan[i].codes) \cap Markets(plan[j].codes) = {}
    /\ \A r \in out, i \in DOMAIN plan : DetectMarket[r.code] \notin Markets(plan[i].codes)

Unmixed(out) == \A r, q \in out : DetectMarket[r.code] = DetectMarket[q.code] => r.by = q.by

BatchIsOne(x) ==
    /\ x.st \in Working \cup {"resolve"} => x.plan # <<>>
    /\ x.st \in InHand \cup {"code"} => x.todo \in Seq(Kinds) /\ Markets(x.todo) \subseteq Markets(Head(x.plan).codes)
    /\ \A r \in x.got : r.by = x.loader /\ DetectMarket[r.code] \in Markets(Head(x.plan).codes)

(* The tool asked for local files. *)
StaysLocal(x) ==
    /\ x.st \in Working \cup {"resolve"} => Len(x.plan) = 1 /\ Head(x.plan).src = "local"
    /\ x.st \in Working => x.loader = "local"
    /\ \A r \in x.got \cup x.out : r.by = "local"

KeepsSource(x) ==
    /\ x.st \notin Working => x.got = {}
    /\ x.st = "idle" => x.out = {}
    /\ x.st # "idle" =>
         /\ x.req.entry \in {"tool", "backtest"}
         /\ x.req.entry = "backtest" => PlanIsApart(x.plan, x.out) /\ Unmixed(x.out) /\ BatchIsOne(x)
         /\ x.req.entry = "tool" /\ x.req.source = "local" => StaysLocal(x)

(* The slots of a host are apart and have a last one, and a caller fires in *)
(* a slot of its own.                                                       *)
Spaced(S) ==
    /\ S \in SUBSET Nat
    /\ S # {} => \E t \in S : \A u \in S : u <= t
    /\ \A t, u \in S : t < u => u >= t + MinInterval

Fires(x, l) == x.st = "ask" /\ x.loader = l /\ LoaderRegistry[l].spaced

SlotsAreKept ==
    /\ now \in Nat /\ slots \in [Loaders -> SUBSET Nat]
    /\ \A l \in Loaders :
         /\ Spaced(slots[l])
         /\ \A c \in Callers : Fires(call[c], l) => call[c].fire \in slots[l]
         /\ \A c, d \in Callers : c # d /\ Fires(call[c], l) /\ Fires(call[d], l) => call[c].fire # call[d].fire

DataInv ==
    /\ CallsAreCalls /\ CacheIsTrue /\ SlotsAreKept
    /\ \A c \in Callers : HoldsTruth(call[c]) /\ KeepsSource(call[c])

(* A step of one caller changes its record and no other. *)
LEMMA OneCallChanges ==
    ASSUME CallsAreCalls, NEW c \in Callers, NEW x, Set(c, x), IsCall(x)
    PROVE  /\ CallsAreCalls'
           /\ call'[c] = x /\ \A d \in Callers \ {c} : call'[d] = call[d]
<1>1. call'[c] = x /\ \A d \in Callers \ {c} : call'[d] = call[d]
  BY DEF CallsAreCalls, Set
<1>2. \A d \in Callers : IsCall(call'[d])
  BY <1>1 DEF CallsAreCalls
<1>3. call' = [d \in Callers |-> call'[d]]
  BY DEF CallsAreCalls, Set
<1> QED BY <1>1, <1>2, <1>3 DEF CallsAreCalls

(* The records that several actions write. *)
LEMMA NextCodeIs ==
    ASSUME CallsAreCalls, NEW c \in Callers, NEW got
    PROVE  LET x == NextCode(c, got)
               y == call[c]
           IN  /\ IsCall(x) /\ x.st = "code" /\ x.todo = Tail(y.todo) /\ x.got = got
               /\ x.req = y.req /\ x.plan = y.plan /\ x.loader = y.loader /\ x.out = y.out /\ x.fire = y.fire
<1>1. IsCall(call[c])
  BY DEF CallsAreCalls
<1> QED BY <1>1 DEF NextCode, Here, IsCall, Fields

LEMMA RaisedIs ==
    ASSUME CallsAreCalls, NEW c \in Callers
    PROVE  LET x == Raised(c)
               y == call[c]
           IN  /\ IsCall(x) /\ x.got = {} /\ x.todo = <<>>
               /\ IF y.req.entry = "tool" THEN x.st = "group" /\ x.out = y.out ELSE x.st = "aborted" /\ x.out = {}
               /\ x.req = y.req /\ x.plan = y.plan /\ x.loader = y.loader /\ x.fire = y.fire
<1>1. IsCall(call[c])
  BY DEF CallsAreCalls
<1> QED BY <1>1 DEF Raised, Here, IsCall, Fields


(* A caller that moves on without taking a slot keeps the invariant if its  *)
(* own record is as it should be.                                           *)
LEMMA OneCallerMoves ==
    ASSUME DataInv, NEW c \in Callers, NEW x, Set(c, x), IsCall(x), HoldsTruth(x), KeepsSource(x),
           CacheIsTrue', UNCHANGED <<now, slots>>,
           \A l \in Loaders : Fires(x, l) => Fires(call[c], l) /\ x.fire = call[c].fire
    PROVE  DataInv'
<1>1. /\ CallsAreCalls'
      /\ call'[c] = x /\ \A d \in Callers \ {c} : call'[d] = call[d]
  BY OneCallChanges DEF DataInv
<1>2. \A d \in Callers : HoldsTruth(call'[d]) /\ KeepsSource(call'[d])
  BY <1>1 DEF DataInv
<1>3. \A l \in Loaders, d \in Callers : Fires(call'[d], l) => Fires(call[d], l) /\ call'[d].fire = call[d].fire
  BY <1>1
<1>4. SlotsAreKept'
  BY <1>3 DEF DataInv, SlotsAreKept
<1> QED BY <1>1, <1>2, <1>4 DEF DataInv

(* The next code of the batch, with what is held so far. *)
LEMMA NextCodeMoves ==
    ASSUME DataInv, NEW c \in Callers, NEW got, Set(c, NextCode(c, got)), CacheIsTrue', UNCHANGED <<now, slots>>,
           call[c].st \in InHand \cup {"code"}, call[c].todo # <<>>,
           NEW f, IsFrameOf(f, call[c].loader, Head(call[c].todo), Asked(c), call[c].req.end),
           got = call[c].got \/ got = Filed(c, f)
    PROVE  DataInv'
<1> DEFINE x == NextCode(c, got)
           y == call[c]
           r == [name |-> FiledAs(y.loader, Head(y.todo)), code |-> Head(y.todo), by |-> y.loader, frame |-> f]
<1>1. /\ IsCall(x) /\ x.st = "code" /\ x.todo = Tail(y.todo) /\ x.got = got
      /\ x.req = y.req /\ x.plan = y.plan /\ x.loader = y.loader /\ x.out = y.out
  BY NextCodeIs DEF DataInv
<1>2. got \subseteq y.got \cup {r} /\ Authentic(r, y.req)
  BY DEF Filed, Here, Asked, Authentic
<1>3. HoldsTruth(y) /\ KeepsSource(y)
  BY DEF DataInv
<1> HIDE DEF x, y
<1>4. HoldsTruth(x)
  <2>1. \A q \in x.got \cup x.out : Authentic(q, x.req)
    BY <1>1, <1>2, <1>3 DEF HoldsTruth
  <2> QED BY <1>1, <2>1 DEF HoldsTruth, InHand
<1>5. KeepsSource(x)
  <2>1. x.st \in Working /\ y.st \in Working /\ x.st # "idle" /\ y.st # "idle" /\ x.st \notin InHand
    BY <1>1 DEF Working, InHand, y
  <2>2. ASSUME y.req.entry = "backtest" PROVE PlanIsApart(x.plan, x.out) /\ Unmixed(x.out) /\ BatchIsOne(x)
    <3>1. PlanIsApart(x.plan, x.out) /\ Unmixed(x.out) /\ BatchIsOne(y)
      BY <2>1, <2>2, <1>1, <1>3 DEF KeepsSource
    <3>2. /\ x.plan # <<>> /\ y.todo \in Seq(Kinds) /\ y.todo # <<>>
          /\ Markets(y.todo) \subseteq Markets(Head(x.plan).codes)
      BY <3>1, <2>1, <1>1 DEF BatchIsOne, y
    <3>3. /\ Tail(y.todo) \in Seq(Kinds) /\ Markets(Tail(y.todo)) \subseteq Markets(y.todo)
          /\ DetectMarket[Head(y.todo)] \in Markets(y.todo)
      <4>1. Tail(y.todo) \in Seq(Kinds) /\ \A j \in DOMAIN Tail(y.todo) : j + 1 \in DOMAIN y.todo /\ Tail(y.todo)[j] = y.todo[j + 1]
        BY <3>2
      <4>2. Head(y.todo) = y.todo[1] /\ 1 \in DOMAIN y.todo
        BY <3>2
      <4> QED BY <4>1, <4>2 DEF Markets
    <3>4. \A q \in x.got : q.by = x.loader /\ DetectMarket[q.code] \in Markets(Head(x.plan).codes)
      BY <3>1, <3>2, <3>3, <1>1, <1>2 DEF BatchIsOne
    <3> QED BY <3>1, <3>2, <3>3, <3>4, <2>1, <1>1 DEF BatchIsOne
  <2>3. ASSUME y.req.entry = "tool", y.req.source = "local" PROVE StaysLocal(x)
    <3>1. StaysLocal(y)
      BY <2>1, <2>3, <1>3 DEF KeepsSource
    <3>2. r.by = "local"
      BY <3>1, <2>1 DEF StaysLocal
    <3> QED BY <3>1, <3>2, <2>1, <1>1, <1>2 DEF StaysLocal
  <2> QED BY <2>1, <2>2, <2>3, <1>1, <1>3 DEF KeepsSource
<1>6. \A l \in Loaders : ~ Fires(x, l)
  BY <1>1 DEF Fires
<1> QED BY <1>1, <1>4, <1>5, <1>6, OneCallerMoves DEF x

(* The next code, when the one in hand got nothing. *)
LEMMA CodeSkipped ==
    ASSUME DataInv, NEW c \in Callers, Set(c, NextCode(c, call[c].got)), CacheIsTrue', UNCHANGED <<now, slots>>,
           call[c].st \in InHand \cup {"code"}, call[c].todo # <<>>
    PROVE  DataInv'
<1> DEFINE f == FrameOf(call[c].loader, Head(call[c].todo), Asked(c), call[c].req.end)
<1>1. IsFrameOf(f, call[c].loader, Head(call[c].todo), Asked(c), call[c].req.end)
  BY DEF IsFrameOf, IsFrame, FrameOf, RangeIsFinal
<1> HIDE DEF f
<1> QED BY <1>1, NextCodeMoves

(* A loader that raises. *)
LEMMA RaisedMoves ==
    ASSUME DataInv, NEW c \in Callers, Set(c, Raised(c)), CacheIsTrue', UNCHANGED <<now, slots>>,
           call[c].st \in Working
    PROVE  DataInv'
<1> DEFINE x == Raised(c)
           y == call[c]
<1>1. /\ IsCall(x) /\ x.got = {} /\ x.todo = <<>>
      /\ IF y.req.entry = "tool" THEN x.st = "group" /\ x.out = y.out ELSE x.st = "aborted" /\ x.out = {}
      /\ x.req = y.req /\ x.plan = y.plan /\ x.loader = y.loader
  BY RaisedIs DEF DataInv
<1>2. HoldsTruth(y) /\ KeepsSource(y) /\ y.st # "idle" /\ y.st \in Working
  BY DEF DataInv, Working, InHand
<1> HIDE DEF x, y
<1>3. HoldsTruth(x)
  BY <1>1, <1>2 DEF HoldsTruth, InHand
<1>4. KeepsSource(x)
  <2>1. x.st # "idle" /\ y.req.entry \in {"tool", "backtest"}
    BY <1>1, <1>2 DEF KeepsSource
  <2>2. ASSUME y.req.entry = "backtest" PROVE PlanIsApart(x.plan, x.out) /\ Unmixed(x.out) /\ BatchIsOne(x)
    <3>1. PlanIsApart(y.plan, y.out)
      BY <1>2, <2>2 DEF KeepsSource
    <3>2. x.st = "aborted" /\ x.out = {}
      BY <1>1, <2>2
    <3>3. PlanIsApart(x.plan, x.out) /\ Unmixed(x.out)
      BY <3>1, <3>2, <1>1 DEF PlanIsApart, Unmixed
    <3> QED BY <3>2, <3>3, <1>1 DEF BatchIsOne, Working, InHand
  <2>3. ASSUME y.req.entry = "tool", y.req.source = "local" PROVE StaysLocal(x)
    <3>1. StaysLocal(y)
      BY <1>2, <2>3 DEF KeepsSource
    <3>2. x.st = "group" /\ x.out = y.out
      BY <1>1, <2>3
    <3> QED BY <3>1, <3>2, <1>1, <1>2 DEF StaysLocal, Working, InHand
  <2> QED BY <2>1, <2>2, <2>3, <1>1 DEF KeepsSource
<1>5. \A l \in Loaders : ~ Fires(x, l)
  BY <1>1 DEF Fires
<1> QED BY <1>1, <1>3, <1>4, <1>5, OneCallerMoves DEF x

(* The caller's batch goes on as it is: another state of its work on the    *)
(* code in hand, or the end of the batch.                                   *)
LEMMA SameBatchMoves ==
    ASSUME DataInv, NEW c \in Callers, NEW x, Set(c, x), IsCall(x), CacheIsTrue', UNCHANGED <<now, slots>>,
           call[c].st \in Working, x.st \in Working,
           x.st \in InHand => call[c].st \in InHand \cup {"code"} /\ call[c].todo # <<>>,
           x.st # "code",
           x.req = call[c].req, x.plan = call[c].plan, x.loader = call[c].loader, x.todo = call[c].todo,
           x.got = call[c].got, x.out = call[c].out,
           x.st \in {"put", "meta"} => IsFrameOf(x.frame, x.loader, Head(x.todo), x.req.interval, x.req.end),
           \A l \in Loaders : Fires(x, l) => Fires(call[c], l) /\ x.fire = call[c].fire
    PROVE  DataInv'
<1> DEFINE y == call[c]
<1>1. HoldsTruth(y) /\ KeepsSource(y)
  BY DEF DataInv
<1>2. HoldsTruth(x)
  BY <1>1 DEF HoldsTruth
<1>3. KeepsSource(x)
  <2>1. x.st # "idle" /\ y.st # "idle" /\ y.req.entry \in {"tool", "backtest"}
    BY <1>1 DEF KeepsSource, Working, InHand
  <2>2. ASSUME y.req.entry = "backtest" PROVE PlanIsApart(x.plan, x.out) /\ Unmixed(x.out) /\ BatchIsOne(x)
    <3>1. PlanIsApart(y.plan, y.out) /\ Unmixed(y.out) /\ BatchIsOne(y)
      BY <1>1, <2>1, <2>2 DEF KeepsSource
    <3> QED BY <3>1 DEF BatchIsOne
  <2>3. ASSUME y.req.entry = "tool", y.req.source = "local" PROVE StaysLocal(x)
    BY <1>1, <2>1, <2>3 DEF KeepsSource, StaysLocal
  <2> QED BY <2>1, <2>2, <2>3, <1>1 DEF KeepsSource
<1> QED BY <1>2, <1>3, OneCallerMoves

(* The key a caller uses names the frame it is after. *)
LEMMA KeyNamesFrame ==
    ASSUME NEW c \in Callers, NEW f
    PROVE  IsFrameAt(f, KeyAt(c)) <=> IsFrameOf(f, Here(c).loader, Head(Here(c).todo), Asked(c), Here(c).req.end)
<1>1. /\ KeyAt(c)[1] = Here(c).loader /\ KeyAt(c)[2] = FiledAs(Here(c).loader, Head(Here(c).todo))
      /\ KeyAt(c)[3] = Asked(c) /\ KeyAt(c)[4] = Here(c).req.end
  BY DEF KeyAt, CacheKey
<1> QED BY <1>1 DEF IsFrameAt, IsFrameOf

LEMMA LookUpKeeps ==
    ASSUME DataInv, NEW c \in Callers, LookUp(c)
    PROVE  DataInv'
<1> DEFINE y == call[c]
           x == [y EXCEPT !.st = IF LoaderRegistry[y.loader].spaced THEN "wait" ELSE "ask", !.fire = now]
<1>1. /\ y.st = "code" /\ y.todo # <<>> /\ CacheIsTrue'
      /\ UNCHANGED <<now, slots, cache>>
  BY DEF LookUp, Here, DataInv, CacheIsTrue
<1>2. \/ Set(c, NextCode(c, y.got))
      \/ CacheHit(KeyAt(c), y.req.end) /\ Set(c, NextCode(c, Filed(c, cache[KeyAt(c)].frame)))
      \/ Set(c, x)
  BY DEF LookUp, Here
<1>3. CASE Set(c, NextCode(c, y.got))
  BY <1>1, <1>3, CodeSkipped
<1>4. CASE CacheHit(KeyAt(c), y.req.end) /\ Set(c, NextCode(c, Filed(c, cache[KeyAt(c)].frame)))
  <2>1. IsFrameAt(cache[KeyAt(c)].frame, KeyAt(c))
    BY <1>4 DEF CacheHit, CacheMeta, DataInv, CacheIsTrue, Belongs
  <2>2. IsFrameOf(cache[KeyAt(c)].frame, y.loader, Head(y.todo), Asked(c), y.req.end)
    BY <2>1, KeyNamesFrame DEF Here
  <2> QED BY <1>1, <1>4, <2>2, NextCodeMoves
<1>5. CASE Set(c, x)
  <2>1. /\ IsCall(x) /\ x.st = (IF LoaderRegistry[y.loader].spaced THEN "wait" ELSE "ask")
        /\ x.req = y.req /\ x.plan = y.plan /\ x.loader = y.loader /\ x.todo = y.todo
        /\ x.got = y.got /\ x.out = y.out
    BY DEF DataInv, CallsAreCalls, IsCall, Fields
  <2>2. \A l \in Loaders : ~ Fires(x, l)
    BY <2>1 DEF Fires
  <2>3. x.st \in {"wait", "ask"}
    BY <2>1
  <2> HIDE DEF x
  <2> QED BY <1>1, <1>5, <2>1, <2>2, <2>3, SameBatchMoves DEF Working, InHand
<1> QED BY <1>2, <1>3, <1>4, <1>5

LEMMA AnsweredKeeps ==
    ASSUME DataInv, NEW c \in Callers, Answered(c)
    PROVE  DataInv'
<1> DEFINE y == call[c]
           f == FrameOf(y.loader, Head(y.todo), Asked(c), y.req.end)
           x == [y EXCEPT !.st = "put", !.frame = f]
<1>0. IsFrameOf(f, y.loader, Head(y.todo), Asked(c), y.req.end)
  BY DEF IsFrameOf, IsFrame, FrameOf, RangeIsFinal
<1>1. /\ y.st = "ask" /\ CacheIsTrue' /\ UNCHANGED <<now, slots, cache>>
  BY DEF Answered, Here, DataInv, CacheIsTrue
<1>2. \/ Set(c, x)
      \/ Set(c, NextCode(c, Filed(c, f)))
      \/ Set(c, NextCode(c, y.got))
  BY DEF Answered, Here
<1>4. y.todo # <<>>
  BY <1>1 DEF DataInv, HoldsTruth, InHand
<1>3. CASE Set(c, x)
  <2>1. /\ IsCall(x) /\ x.st = "put" /\ x.frame = f
        /\ x.req = y.req /\ x.plan = y.plan /\ x.loader = y.loader /\ x.todo = y.todo
        /\ x.got = y.got /\ x.out = y.out
    BY DEF DataInv, CallsAreCalls, IsCall, Fields
  <2> HIDE DEF x, f
  <2> QED BY <1>0, <1>1, <1>3, <2>1, <1>4, SameBatchMoves DEF Working, InHand, Fires, Asked
<1>5. CASE Set(c, NextCode(c, Filed(c, f)))
  <2> HIDE DEF f
  <2> QED BY <1>0, <1>1, <1>4, <1>5, NextCodeMoves DEF InHand
<1>6. CASE Set(c, NextCode(c, y.got))
  BY <1>1, <1>4, <1>6, CodeSkipped DEF InHand
<1> QED BY <1>2, <1>3, <1>5, <1>6

LEMMA FailsKeeps ==
    ASSUME DataInv, NEW c \in Callers, Fails(c)
    PROVE  DataInv'
<1> DEFINE y == call[c]
           x == [y EXCEPT !.tries = NextTry(y.tries)]
<1>1. /\ y.st = "ask" /\ CacheIsTrue' /\ UNCHANGED <<now, slots, cache>>
  BY DEF Fails, Here, DataInv, CacheIsTrue
<1>2. y.todo # <<>>
  BY <1>1 DEF DataInv, HoldsTruth, InHand
<1>3. Set(c, x) \/ Set(c, NextCode(c, y.got)) \/ Set(c, Raised(c))
  BY DEF Fails, Here
<1>4. CASE Set(c, x)
  <2>1. /\ IsCall(x) /\ x.st = "ask" /\ x.fire = y.fire
        /\ x.req = y.req /\ x.plan = y.plan /\ x.loader = y.loader /\ x.todo = y.todo
        /\ x.got = y.got /\ x.out = y.out
    BY <1>1 DEF DataInv, CallsAreCalls, IsCall, Fields
  <2> HIDE DEF x
  <2> QED BY <1>1, <1>2, <1>4, <2>1, SameBatchMoves DEF Working, InHand, Fires
<1>5. CASE Set(c, NextCode(c, y.got))
  BY <1>1, <1>2, <1>5, CodeSkipped DEF InHand
<1>6. CASE Set(c, Raised(c))
  BY <1>1, <1>6, RaisedMoves DEF Working, InHand
<1> QED BY <1>3, <1>4, <1>5, <1>6

LEMMA BudgetSpentKeeps ==
    ASSUME DataInv, NEW c \in Callers, BudgetSpent(c)
    PROVE  DataInv'
<1>1. /\ call[c].st = "ask" /\ CacheIsTrue' /\ UNCHANGED <<now, slots>>
      /\ Set(c, NextCode(c, call[c].got))
  BY DEF BudgetSpent, Here, DataInv, CacheIsTrue
<1>2. call[c].todo # <<>>
  BY <1>1 DEF DataInv, HoldsTruth, InHand
<1> QED BY <1>1, <1>2, CodeSkipped DEF InHand


(* A frame stored under the key it belongs to leaves the cache true. *)
LEMMA PutKeeps ==
    ASSUME DataInv, NEW c \in Callers, Put(c)
    PROVE  DataInv'
<1> DEFINE y == call[c]
           k == KeyAt(c)
           x == [y EXCEPT !.st = "meta"]
           entry == [frame |-> y.frame, meta |-> CacheMeta(k)]
           stored == [q \in DOMAIN cache \cup {k} |-> IF q = k THEN [frame |-> y.frame, meta |-> CacheMeta(q)] ELSE cache[q]]
<1>1. y.st = "put" /\ UNCHANGED <<now, slots>>
  BY DEF Put, Here
<1>2. /\ y.todo # <<>>
      /\ IsFrameOf(y.frame, y.loader, Head(y.todo), Asked(c), y.req.end)
  BY <1>1 DEF DataInv, HoldsTruth, InHand, Asked
<1>3. IsFrameAt(y.frame, k)
  BY <1>2, KeyNamesFrame DEF Here
<1>4. \/ cache' = stored /\ Set(c, x)
      \/ Set(c, NextCode(c, Filed(c, y.frame))) /\ UNCHANGED cache
  BY DEF Put, Here
<1>5. CASE cache' = stored /\ Set(c, x)
  <2>1. CacheIsTrue'
    <3>1. DOMAIN cache' = {k} \cup DOMAIN cache
      BY <1>5
    <3>2. cache'[k] = entry /\ \A q \in DOMAIN cache \ {k} : cache'[q] = cache[q]
      BY <1>5
    <3>3. \A q \in DOMAIN cache : Belongs(cache[q], q)
      BY DEF DataInv, CacheIsTrue
    <3>4. Belongs(entry, k)
      BY <1>2, <1>3 DEF Belongs
    <3> HIDE DEF entry, k
    <3> QED BY <3>1, <3>2, <3>3, <3>4 DEF CacheIsTrue
  <2>2. /\ IsCall(x) /\ x.st = "meta" /\ x.frame = y.frame
        /\ x.req = y.req /\ x.plan = y.plan /\ x.loader = y.loader /\ x.todo = y.todo
        /\ x.got = y.got /\ x.out = y.out
    BY DEF DataInv, CallsAreCalls, IsCall, Fields
  <2> HIDE DEF x
  <2> QED BY <1>1, <1>2, <1>5, <2>1, <2>2, SameBatchMoves DEF Working, InHand, Fires, Asked
<1>6. CASE Set(c, NextCode(c, Filed(c, y.frame))) /\ UNCHANGED cache
  <2>1. CacheIsTrue'
    BY <1>6 DEF DataInv, CacheIsTrue
  <2> QED BY <1>1, <1>2, <1>6, <2>1, NextCodeMoves DEF InHand
<1> QED BY <1>4, <1>5, <1>6

LEMMA PutMetaKeeps ==
    ASSUME DataInv, NEW c \in Callers, PutMeta(c)
    PROVE  DataInv'
<1> DEFINE y == call[c]
           k == KeyAt(c)
<1>1. y.st = "meta" /\ UNCHANGED <<now, slots>> /\ Set(c, NextCode(c, Filed(c, y.frame)))
  BY DEF PutMeta, Here
<1>2. /\ y.todo # <<>>
      /\ IsFrameOf(y.frame, y.loader, Head(y.todo), Asked(c), y.req.end)
  BY <1>1 DEF DataInv, HoldsTruth, InHand, Asked
<1>3. CacheIsTrue'
  <2>1. cache' = [cache EXCEPT ![k].meta = TRUE] \/ UNCHANGED cache
    BY DEF PutMeta
  <2>2. \A q \in DOMAIN cache : Belongs(cache[q], q)
    BY DEF DataInv, CacheIsTrue
  <2> HIDE DEF k
  <2>3. CASE cache' = [cache EXCEPT ![k].meta = TRUE]
    <3>1. DOMAIN cache' = DOMAIN cache /\ \A q \in DOMAIN cache \ {k} : cache'[q] = cache[q]
      BY <2>3
    <3>2. ASSUME k \in DOMAIN cache PROVE Belongs(cache'[k], k)
      <4>1. cache'[k] = [cache[k] EXCEPT !.meta = TRUE]
        BY <2>3, <3>2
      <4>2. ASSUME NEW e, Belongs(e, k) PROVE Belongs([e EXCEPT !.meta = TRUE], k)
        BY ONLY <4>2 DEF Belongs
      <4> QED BY <4>1, <4>2, <2>2, <3>2
    <3> QED BY <3>1, <3>2, <2>2 DEF CacheIsTrue
  <2>4. CASE UNCHANGED cache
    BY <2>4, <2>2 DEF CacheIsTrue
  <2> QED BY <2>1, <2>3, <2>4
<1> QED BY <1>1, <1>2, <1>3, NextCodeMoves DEF InHand

(* Normalisation keeps the market of a code. *)
LEMMA NormalizedCodes ==
    ASSUME NEW l, NEW codes \in Seq(Kinds)
    PROVE  /\ NormalizedFor(l, codes) \in Seq(Kinds)
           /\ Markets(NormalizedFor(l, codes)) \subseteq Markets(codes)
<1>1. \A s \in Kinds : FiledAs("okx", s) \in Kinds /\ DetectMarket[FiledAs("okx", s)] = DetectMarket[s]
  <2>1. "dash" \in Kinds /\ DetectMarket["dash"] = DetectMarket["slash"]
    BY DEF Kinds, DetectMarket
  <2> QED BY <2>1 DEF FiledAs
<1>2. CASE l \in {"okx", "ccxt"}
  <2>1. NormalizedFor(l, codes) = [i \in DOMAIN codes |-> FiledAs("okx", codes[i])]
    BY <1>2 DEF NormalizedFor
  <2>2. \A i \in DOMAIN codes : codes[i] \in Kinds
    OBVIOUS
  <2>3. NormalizedFor(l, codes) \in Seq(Kinds)
    BY <2>1, <2>2, <1>1
  <2> QED BY <2>1, <2>2, <2>3, <1>1 DEF Markets
<1>3. CASE l \notin {"okx", "ccxt"}
  BY <1>3 DEF NormalizedFor
<1> QED BY <1>2, <1>3

LEMMA EnterKeeps ==
    ASSUME DataInv, NEW c \in Callers, Enter(c)
    PROVE  DataInv'
<1> DEFINE y == call[c]
           codes == Head(y.plan).codes
           todo == IF y.req.entry = "tool" THEN codes ELSE NormalizedFor(y.loader, codes)
           ends == [y EXCEPT !.st = "group"]
           x == [y EXCEPT !.st = "code", !.todo = todo]
<1>1. y.st = "enter" /\ CacheIsTrue' /\ UNCHANGED <<now, slots>>
  BY DEF Enter, Here, DataInv, CacheIsTrue
<1>2. Set(c, Raised(c)) \/ Set(c, ends) \/ Set(c, x)
  BY DEF Enter, Here
<1>3. CASE Set(c, Raised(c))
  BY <1>1, <1>3, RaisedMoves DEF Working
<1>4. CASE Set(c, ends)
  <2>1. /\ IsCall(ends) /\ ends.st = "group"
        /\ ends.req = y.req /\ ends.plan = y.plan /\ ends.loader = y.loader /\ ends.todo = y.todo
        /\ ends.got = y.got /\ ends.out = y.out
    BY DEF DataInv, CallsAreCalls, IsCall, Fields
  <2> HIDE DEF ends
  <2> QED BY <1>1, <1>4, <2>1, SameBatchMoves DEF Working, InHand, Fires
<1>5. CASE Set(c, x)
  <2>1. /\ IsCall(x) /\ x.st = "code" /\ x.todo = todo
        /\ x.req = y.req /\ x.plan = y.plan /\ x.loader = y.loader /\ x.got = y.got /\ x.out = y.out
    BY DEF DataInv, CallsAreCalls, IsCall, Fields
  <2>2. HoldsTruth(y) /\ KeepsSource(y)
    BY DEF DataInv
  <2> HIDE DEF x
  <2>3. HoldsTruth(x)
    BY <2>1, <2>2 DEF HoldsTruth, InHand
  <2>4. KeepsSource(x)
    <3>1. y.st # "idle" /\ y.st \in Working /\ x.st # "idle" /\ x.st \in Working /\ y.req.entry \in {"tool", "backtest"}
      BY <1>1, <2>1, <2>2 DEF KeepsSource, Working
    <3>2. ASSUME y.req.entry = "backtest" PROVE PlanIsApart(x.plan, x.out) /\ Unmixed(x.out) /\ BatchIsOne(x)
      <4>1. PlanIsApart(y.plan, y.out) /\ Unmixed(y.out) /\ BatchIsOne(y)
        BY <2>2, <3>1, <3>2 DEF KeepsSource
      <4>2. y.plan # <<>>
        BY <4>1, <3>1 DEF BatchIsOne
      <4>3. codes \in Seq(Kinds)
        BY <4>1, <4>2 DEF PlanIsApart
      <4>4. x.todo \in Seq(Kinds) /\ Markets(x.todo) \subseteq Markets(codes)
        <5>1. x.todo = NormalizedFor(y.loader, codes)
          BY <2>1, <3>2
        <5> QED BY <5>1, <4>3, NormalizedCodes
      <4> QED BY <4>1, <4>2, <4>4, <2>1 DEF BatchIsOne, InHand
    <3>3. ASSUME y.req.entry = "tool", y.req.source = "local" PROVE StaysLocal(x)
      BY <2>1, <2>2, <3>1, <3>3 DEF KeepsSource, StaysLocal
    <3> QED BY <2>1, <2>2, <3>1, <3>2, <3>3 DEF KeepsSource
  <2> QED BY <1>1, <1>5, <2>1, <2>3, <2>4, OneCallerMoves DEF Fires
<1> QED BY <1>2, <1>3, <1>4, <1>5

(* Groups of codes with one key each, all different. *)
Grouped(groups, key) ==
    /\ groups \in Seq(Range(groups))
    /\ \A n \in DOMAIN groups :
         /\ groups[n].codes \in Seq(Kinds)
         /\ \A j \in DOMAIN groups[n].codes : key[groups[n].codes[j]] = groups[n].src
    /\ \A m, n \in DOMAIN groups : m # n => groups[m].src # groups[n].src

LEMMA PlacedKeeps ==
    ASSUME NEW groups, NEW key, Grouped(groups, key), NEW code \in Kinds
    PROVE  Grouped(Placed(groups, code, key), key) /\ Placed(groups, code, key) # <<>>
<1> DEFINE p == Placed(groups, code, key)
<1>1. groups \in Seq(Range(groups)) /\ Len(groups) \in Nat /\ DOMAIN groups = 1..Len(groups)
  BY DEF Grouped
<1>2. CASE \E n \in DOMAIN groups : groups[n].src = key[code]
  <2>1. p = [n \in DOMAIN groups |-> [src |-> groups[n].src,
               codes |-> IF groups[n].src = key[code] THEN Append(groups[n].codes, code) ELSE groups[n].codes]]
    BY <1>2 DEF Placed
  <2>2. DOMAIN p = 1..Len(groups) /\ p \in Seq(Range(p)) /\ Len(p) = Len(groups)
    <3>1. DOMAIN p = 1..Len(groups) /\ \A n \in 1..Len(groups) : p[n] \in Range(p)
      BY <2>1, <1>1 DEF Range
    <3>2. p = [n \in 1..Len(groups) |-> p[n]]
      BY <2>1, <1>1
    <3> QED BY <3>1, <3>2, <1>1
  <2>3. ASSUME NEW n \in DOMAIN p
        PROVE /\ p[n].src = groups[n].src /\ p[n].codes \in Seq(Kinds)
              /\ \A j \in DOMAIN p[n].codes : key[p[n].codes[j]] = p[n].src
    <3>1. n \in DOMAIN groups /\ p[n].src = groups[n].src
          /\ p[n].codes = IF groups[n].src = key[code] THEN Append(groups[n].codes, code) ELSE groups[n].codes
      BY <2>1, <2>2, <1>1
    <3>2. groups[n].codes \in Seq(Kinds) /\ \A j \in DOMAIN groups[n].codes : key[groups[n].codes[j]] = groups[n].src
      BY <3>1 DEF Grouped
    <3> HIDE DEF p
    <3>3. CASE groups[n].src = key[code]
      <4> DEFINE cs == groups[n].codes
      <4>1. p[n].codes = Append(cs, code) /\ cs \in Seq(Kinds)
        BY <3>1, <3>2, <3>3
      <4>2. \A j \in DOMAIN Append(cs, code) : Append(cs, code)[j] = IF j = Len(cs) + 1 THEN code ELSE cs[j]
        BY <4>1
      <4>3. \A j \in DOMAIN Append(cs, code) : j = Len(cs) + 1 \/ j \in DOMAIN cs
        BY <4>1
      <4> HIDE DEF cs
      <4> QED BY <4>1, <4>2, <4>3, <3>1, <3>2, <3>3 DEF cs
    <3>4. CASE groups[n].src # key[code]
      BY <3>1, <3>2, <3>4
    <3> QED BY <3>1, <3>3, <3>4
  <2>4. \A m, n \in DOMAIN p : m # n => p[m].src # p[n].src
    BY <2>2, <2>3, <1>1 DEF Grouped
  <2>5. p # <<>>
    BY <1>2, <1>1, <2>2
  <2> HIDE DEF p
  <2> QED BY <2>2, <2>3, <2>4, <2>5 DEF Grouped, p
<1>3. CASE ~ \E n \in DOMAIN groups : groups[n].src = key[code]
  <2> DEFINE g == [src |-> key[code], codes |-> <<code>>]
             N == Len(groups)
  <2>1. p = Append(groups, g)
    BY <1>3 DEF Placed
  <2>2. /\ DOMAIN p = 1..(N + 1) /\ Len(p) = N + 1 /\ p[N + 1] = g /\ \A n \in 1..N : p[n] = groups[n]
    BY <2>1, <1>1
  <2>3. p \in Seq(Range(p))
    <3>1. p = [n \in 1..(N + 1) |-> p[n]] /\ \A n \in 1..(N + 1) : p[n] \in Range(p)
      BY <2>1, <2>2, <1>1 DEF Range
    <3> QED BY <3>1, <1>1
  <2>4. g.src = key[code] /\ g.codes \in Seq(Kinds) /\ \A j \in DOMAIN g.codes : key[g.codes[j]] = g.src
    OBVIOUS
  <2> HIDE DEF p, g
  <2>5. ASSUME NEW n \in DOMAIN p
        PROVE p[n].codes \in Seq(Kinds) /\ \A j \in DOMAIN p[n].codes : key[p[n].codes[j]] = p[n].src
    <3>1. CASE n = N + 1
      BY <3>1, <2>2, <2>4
    <3>2. CASE n \in 1..N
      BY <3>2, <2>2, <1>1 DEF Grouped
    <3> QED BY <3>1, <3>2, <2>2, <1>1
  <2>6. ASSUME NEW m \in DOMAIN p, NEW n \in DOMAIN p, m # n PROVE p[m].src # p[n].src
    <3>1. \A i \in 1..N : p[i].src = groups[i].src /\ p[i].src # g.src
      BY <1>3, <1>1, <2>2, <2>4
    <3>2. CASE m \in 1..N /\ n \in 1..N
      BY <3>1, <3>2, <2>6, <1>1 DEF Grouped
    <3>3. CASE m = N + 1 \/ n = N + 1
      BY <3>1, <3>3, <2>2, <2>6, <1>1
    <3> QED BY <3>2, <3>3, <2>2, <1>1
  <2>7. p # <<>>
    BY <2>2, <1>1
  <2> QED BY <2>3, <2>5, <2>6, <2>7 DEF Grouped, p
<1> QED BY <1>2, <1>3

(* Every nonempty set of naturals has a least element. *)
LEMMA LeastNat ==
    ASSUME NEW S \in SUBSET Nat, S # {}
    PROVE  \E m \in S : \A k \in S : m <= k
<1> DEFINE R == OpToRel(<, Nat)
<1>1. IsWellFoundedOn(R, Nat)
  BY NatLessThanWellFounded
<1>2. PICK x \in S : \A y \in S : ~ (<<y, x>> \in R)
  BY <1>1, WFMin, Zenon
<1>3. ASSUME NEW y \in S PROVE x <= y
  <2>1. x \in Nat /\ y \in Nat
    OBVIOUS
  <2>2. ~ (y < x)
    BY <1>2, <2>1 DEF OpToRel
  <2> QED BY <2>1, <2>2
<1> QED BY <1>3

(* g holds what the loop of GroupBy has after each code. *)
Stages(g, codes, key, n) ==
    g = [i \in 0..n |-> IF i = 0 THEN <<>> ELSE Placed(g[i-1], codes[i], key)]

LEMMA StagesExist ==
    ASSUME NEW codes, NEW key, NEW N \in Nat
    PROVE  \E g : Stages(g, codes, key, N)
<1> DEFINE Bad == {n \in 0..N : ~ \E g : Stages(g, codes, key, n)}
<1>1. SUFFICES ASSUME Bad # {} PROVE FALSE
  <2>1. N \in 0..N
    OBVIOUS
  <2>2. Bad = {} => \E g : Stages(g, codes, key, N)
    BY <2>1, Zenon
  <2> QED BY <2>2
<1>2. PICK m \in Bad : \A k \in Bad : m <= k
  BY <1>1, LeastNat, Bad \in SUBSET Nat
<1>3. m \in 0..N
  OBVIOUS
<1>4. CASE m = 0
  <2>1. Stages([i \in 0..0 |-> <<>>], codes, key, 0)
    BY DEF Stages
  <2> QED BY <2>1, <1>4
<1>5. CASE m # 0
  <2>1. m-1 \in 0..N /\ m-1 \notin Bad
    BY <1>2, <1>3, <1>5
  <2>2. PICK s : Stages(s, codes, key, m-1)
    BY <2>1
  <2> DEFINE t == [i \in 0..m |-> IF i = m THEN Placed(s[m-1], codes[m], key) ELSE s[i]]
  <2>3. ASSUME NEW i \in 0..m
        PROVE  t[i] = IF i = 0 THEN <<>> ELSE Placed(t[i-1], codes[i], key)
    <3>1. CASE i = 0
      BY <3>1, <2>2, <1>3, <1>5 DEF Stages
    <3>2. CASE i = m
      BY <3>2, <1>3, <1>5
    <3>3. CASE i # 0 /\ i # m
      <4>1. s[i] = Placed(s[i-1], codes[i], key)
        BY <3>3, <2>2, <1>3 DEF Stages
      <4> QED BY <4>1, <3>3, <1>3
    <3> QED BY <3>1, <3>2, <3>3
  <2>4. Stages(t, codes, key, m)
    BY <2>3 DEF Stages
  <2> QED BY <2>4, <1>2
<1> QED BY <1>4, <1>5

(* The groups of a nonempty list of codes. *)
LEMMA GroupByGroups ==
    ASSUME NEW codes \in Seq(Kinds), codes # <<>>, NEW key
    PROVE  Grouped(GroupBy(codes, key), key) /\ GroupBy(codes, key) # <<>>
<1> DEFINE N == Len(codes)
           g == CHOOSE h : Stages(h, codes, key, N)
<1>1. N \in Nat /\ N # 0 /\ \A i \in 1..N : codes[i] \in Kinds
  OBVIOUS
<1>2. Stages(g, codes, key, N)
  BY <1>1, StagesExist
<1>3. GroupBy(codes, key) = g[N]
  BY DEF GroupBy, Stages
<1> HIDE DEF g
<1>4. \A n \in 0..N : Grouped(g[n], key)
  <2> DEFINE Bad == {n \in 0..N : ~ Grouped(g[n], key)}
  <2>1. SUFFICES ASSUME Bad # {} PROVE FALSE
    OBVIOUS
  <2>2. PICK m \in Bad : \A k \in Bad : m <= k
    BY <2>1, <1>1, LeastNat, Bad \in SUBSET Nat
  <2>3. CASE m = 0
    <3>1. g[0] = <<>>
      BY <1>1, <1>2 DEF Stages
    <3>2. Grouped(<<>>, key)
      BY DEF Grouped, Range
    <3> QED BY <2>2, <2>3, <3>1, <3>2
  <2>4. CASE m # 0
    <3>1. m \in 1..N /\ m - 1 \in 0..N /\ m - 1 \notin Bad
      BY <2>2, <2>4, <1>1
    <3>2. g[m] = Placed(g[m-1], codes[m], key)
      BY <1>2, <3>1 DEF Stages
    <3>3. Grouped(g[m-1], key)
      BY <3>1
    <3>4. Grouped(g[m], key)
      BY <3>1, <3>2, <3>3, <1>1, PlacedKeeps
    <3> QED BY <3>4, <2>2
  <2> QED BY <2>3, <2>4
<1>5. g[N] # <<>>
  <2>1. g[N] = Placed(g[N-1], codes[N], key) /\ Grouped(g[N-1], key)
    BY <1>1, <1>2, <1>4 DEF Stages
  <2> QED BY <2>1, <1>1, PlacedKeeps
<1> QED BY <1>1, <1>3, <1>4, <1>5

(* The plan of a backtest keeps its markets apart. *)
LEMMA PlanIsApartAtFirst ==
    ASSUME NEW req, req.entry = "backtest", req.codes \in Seq(Kinds), req.codes # <<>>
    PROVE  PlanIsApart(PlanOf(req), {}) /\ PlanOf(req) # <<>>
<1> DEFINE p == PlanOf(req)
<1>1. CASE req.source = "auto"
  <2>1. p = GroupBy(req.codes, DetectMarket)
    BY <1>1 DEF PlanOf
  <2>2. Grouped(p, DetectMarket) /\ p # <<>>
    BY <2>1, GroupByGroups
  <2> HIDE DEF p
  <2>3. \A i \in DOMAIN p : Markets(p[i].codes) \subseteq {p[i].src}
    BY <2>2 DEF Grouped, Markets
  <2>4. \A i, j \in DOMAIN p : i # j => Markets(p[i].codes) \cap Markets(p[j].codes) = {}
    <3>1. ASSUME NEW i \in DOMAIN p, NEW j \in DOMAIN p, i # j PROVE Markets(p[i].codes) \cap Markets(p[j].codes) = {}
      <4>1. p[i].src # p[j].src
        BY <2>2, <3>1 DEF Grouped
      <4>2. Markets(p[i].codes) \subseteq {p[i].src} /\ Markets(p[j].codes) \subseteq {p[j].src}
        BY <2>3
      <4> QED BY ONLY <4>1, <4>2
    <3> QED BY <3>1
  <2> QED BY <2>2, <2>4 DEF Grouped, PlanIsApart, p
<1>2. CASE req.source # "auto"
  <2> DEFINE g == [src |-> req.source, codes |-> NormalizedFor(req.source, req.codes)]
  <2>1. p = <<g>>
    BY <1>2 DEF PlanOf
  <2>2. g.codes \in Seq(Kinds)
    BY NormalizedCodes
  <2> HIDE DEF p, g
  <2>3. DOMAIN p = {1} /\ p[1] = g /\ p \in Seq(Range(p))
    BY <2>1 DEF Range
  <2> QED BY <2>1, <2>2, <2>3 DEF PlanIsApart, p
<1> QED BY <1>1, <1>2

LEMMA AskKeeps ==
    ASSUME DataInv, NEW c \in Callers, Ask(c)
    PROVE  DataInv'
<1> DEFINE x(r) == [NoCall EXCEPT !.st = "resolve", !.req = r, !.plan = PlanOf(r)]
<1>1. CacheIsTrue' /\ UNCHANGED <<now, slots>>
  BY DEF Ask, DataInv, CacheIsTrue
<1>2. PICK r \in Requests[c] : Set(c, x(r))
  BY DEF Ask
<1>3. /\ IsCall(x(r)) /\ x(r).st = "resolve" /\ x(r).req = r /\ x(r).plan = PlanOf(r)
      /\ x(r).got = {} /\ x(r).out = {}
  BY DEF NoCall, IsCall, Fields
<1> HIDE DEF x
<1>4. HoldsTruth(x(r))
  BY <1>3 DEF HoldsTruth, InHand
<1>5. KeepsSource(x(r))
  <2>1. r.entry \in {"tool", "backtest"}
    BY RequestAssumption
  <2>2. ASSUME r.entry = "backtest" PROVE PlanIsApart(x(r).plan, {}) /\ Unmixed({}) /\ BatchIsOne(x(r))
    <3>1. r.codes \in Seq(Kinds) /\ r.codes # <<>>
      BY <2>2, RequestAssumption
    <3>2. PlanIsApart(x(r).plan, {}) /\ x(r).plan # <<>>
      BY <1>3, <2>2, <3>1, PlanIsApartAtFirst
    <3> QED BY <1>3, <3>2 DEF Unmixed, BatchIsOne, InHand
  <2>3. ASSUME r.entry = "tool", r.source = "local" PROVE StaysLocal(x(r))
    <3>1. \E codes : PlanOf(r) = << [src |-> "local", codes |-> codes] >>
      BY <2>3 DEF PlanOf
    <3> QED BY <3>1, <1>3 DEF StaysLocal, Working, InHand
  <2> QED BY <1>3, <2>1, <2>2, <2>3 DEF KeepsSource
<1> QED BY <1>1, <1>2, <1>3, <1>4, <1>5, OneCallerMoves DEF Fires

LEMMA ResolveKeeps ==
    ASSUME DataInv, NEW c \in Callers, Resolve(c)
    PROVE  DataInv'
<1> DEFINE y == call[c]
           quits == [y EXCEPT !.st = "aborted", !.out = {}]
           x(l, chain) == [y EXCEPT !.st = "enter", !.loader = l, !.got = {}, !.chain = chain]
<1>1. y.st = "resolve" /\ CacheIsTrue' /\ UNCHANGED <<now, slots>>
  BY DEF Resolve, Here, DataInv, CacheIsTrue
<1>2. HoldsTruth(y) /\ KeepsSource(y) /\ y.got = {} /\ y.req.entry \in {"tool", "backtest"}
  BY <1>1 DEF DataInv, KeepsSource, Working, InHand
<1>3. Set(c, quits) \/ \E l \in SourcesFor(y.req, Head(y.plan).src) : \E chain : Set(c, x(l, chain))
  BY DEF Resolve, Here
<1>4. CASE Set(c, quits)
  <2>1. /\ IsCall(quits) /\ quits.st = "aborted" /\ quits.req = y.req /\ quits.plan = y.plan
        /\ quits.got = {} /\ quits.out = {}
    BY <1>2 DEF DataInv, CallsAreCalls, IsCall, Fields
  <2> HIDE DEF quits
  <2>2. HoldsTruth(quits)
    BY <2>1 DEF HoldsTruth, InHand
  <2>3. KeepsSource(quits)
    <3>1. ASSUME y.req.entry = "backtest" PROVE PlanIsApart(quits.plan, {}) /\ Unmixed({}) /\ BatchIsOne(quits)
      <4>1. PlanIsApart(y.plan, y.out)
        BY <1>1, <1>2, <3>1 DEF KeepsSource
      <4> QED BY <4>1, <2>1 DEF PlanIsApart, Unmixed, BatchIsOne, Working, InHand
    <3>2. StaysLocal(quits)
      BY <2>1 DEF StaysLocal, Working, InHand
    <3> QED BY <1>2, <2>1, <3>1, <3>2 DEF KeepsSource
  <2> QED BY <1>1, <1>4, <2>1, <2>2, <2>3, OneCallerMoves DEF Fires
<1>5. ASSUME NEW l \in SourcesFor(y.req, Head(y.plan).src), NEW chain, Set(c, x(l, chain)) PROVE DataInv'
  <2> DEFINE z == x(l, chain)
  <2>1. /\ IsCall(z) /\ z.st = "enter" /\ z.req = y.req /\ z.plan = y.plan /\ z.loader = l
        /\ z.got = {} /\ z.out = y.out
    BY DEF DataInv, CallsAreCalls, IsCall, Fields
  <2> HIDE DEF z
  <2>2. HoldsTruth(z)
    BY <1>2, <2>1 DEF HoldsTruth, InHand
  <2>3. KeepsSource(z)
    <3>1. ASSUME y.req.entry = "backtest" PROVE PlanIsApart(z.plan, z.out) /\ Unmixed(z.out) /\ BatchIsOne(z)
      <4>1. PlanIsApart(y.plan, y.out) /\ Unmixed(y.out) /\ BatchIsOne(y)
        BY <1>1, <1>2, <3>1 DEF KeepsSource
      <4> QED BY <4>1, <1>1, <2>1 DEF BatchIsOne, InHand
    <3>2. ASSUME y.req.entry = "tool", y.req.source = "local" PROVE StaysLocal(z)
      <4>1. StaysLocal(y)
        BY <1>1, <1>2, <3>2 DEF KeepsSource
      <4>2. Len(y.plan) = 1 /\ Head(y.plan).src = "local"
        BY <4>1, <1>1 DEF StaysLocal
      <4>3. l = "local"
        BY <3>2, <4>2 DEF SourcesFor, WithFallback
      <4> QED BY <4>1, <4>2, <4>3, <2>1 DEF StaysLocal
    <3> QED BY <1>1, <1>2, <2>1, <3>1, <3>2 DEF KeepsSource, Working
  <2> QED BY <1>1, <1>5, <2>1, <2>2, <2>3, OneCallerMoves DEF Fires, z
<1> QED BY <1>3, <1>4, <1>5

(* A batch ends: the next loader of the chain for a backtest that got       *)
(* nothing, else the next group, and the rows join the answer.              *)
LEMMA GroupEndsKeeps ==
    ASSUME DataInv, NEW c \in Callers, GroupEnds(c)
    PROVE  DataInv'
<1> DEFINE y == call[c]
           next == Head(y.chain)
           named == IF y.req.entry = "tool" THEN {[r EXCEPT !.name = OriginalOf(y.req, r.name)] : r \in y.got} ELSE y.got
           out == {o \in y.out : \A r \in named : r.name # o.name} \cup named
           quits == [y EXCEPT !.st = "aborted", !.out = {}]
           falls == [y EXCEPT !.st = IF next \in up THEN "enter" ELSE "group", !.chain = Tail(y.chain), !.out = out,
                              !.loader = IF next \in up THEN next ELSE y.loader]
           ends == [y EXCEPT !.st = IF Len(y.plan) > 1 THEN "resolve" ELSE "done", !.plan = Tail(y.plan),
                             !.out = out, !.got = {}, !.loader = "none", !.chain = <<>>]
<1>1. y.st \in {"code", "group"} /\ CacheIsTrue' /\ UNCHANGED <<now, slots>>
  BY DEF GroupEnds, Here, DataInv, CacheIsTrue
<1>2. /\ HoldsTruth(y) /\ KeepsSource(y) /\ y.req.entry \in {"tool", "backtest"}
      /\ y.st # "idle" /\ y.st \in Working
  BY <1>1 DEF DataInv, KeepsSource, Working
<1>3. \/ FallsBack(y.req, y.got) /\ Set(c, quits)
      \/ FallsBack(y.req, y.got) /\ Set(c, falls)
      \/ Set(c, ends)
  BY DEF GroupEnds, Here
<1>4. IsCall(y)
  BY DEF DataInv, CallsAreCalls
<1>5. \A o \in out : Authentic(o, y.req) /\ \E r \in y.got \cup y.out : o.by = r.by /\ o.code = r.code
  <2>1. ASSUME NEW r \in y.got, NEW name
        PROVE  LET o == [r EXCEPT !.name = name] IN Authentic(o, y.req) /\ o.by = r.by /\ o.code = r.code
    <3>1. Authentic(r, y.req)
      BY <1>2 DEF HoldsTruth
    <3> QED BY <3>1 DEF Authentic
  <2>2. \A r \in y.got \cup y.out : Authentic(r, y.req)
    BY <1>2 DEF HoldsTruth
  <2>3. \A o \in named : Authentic(o, y.req) /\ \E r \in y.got : o.by = r.by /\ o.code = r.code
    <3>1. CASE y.req.entry = "tool"
      <4>1. ASSUME NEW o \in named PROVE Authentic(o, y.req) /\ \E r \in y.got : o.by = r.by /\ o.code = r.code
        <5>1. PICK r \in y.got : o = [r EXCEPT !.name = OriginalOf(y.req, r.name)]
          BY <3>1, <4>1
        <5> HIDE DEF named
        <5> QED BY <5>1, <2>1
      <4> HIDE DEF named
      <4> QED BY <4>1
    <3>2. CASE y.req.entry # "tool"
      BY <3>2, <2>2
    <3> QED BY <3>1, <3>2
  <2> QED BY <2>2, <2>3
<1>6. ASSUME y.req.entry = "backtest" PROVE out \subseteq y.out \cup y.got /\ (y.got = {} => out = y.out)
  BY <1>6
<1>7. ASSUME y.req.entry = "backtest" PROVE PlanIsApart(y.plan, y.out) /\ Unmixed(y.out) /\ BatchIsOne(y)
  BY <1>2, <1>7 DEF KeepsSource
<1>8. ASSUME y.req.entry = "tool", y.req.source = "local" PROVE StaysLocal(y)
  BY <1>2, <1>8 DEF KeepsSource
<1> HIDE DEF out
<1>9. CASE FallsBack(y.req, y.got) /\ Set(c, quits)
  <2>1. y.req.entry = "backtest" /\ y.got = {}
    BY <1>9 DEF FallsBack
  <2>2. /\ IsCall(quits) /\ quits.st = "aborted" /\ quits.req = y.req /\ quits.plan = y.plan
        /\ quits.got = {} /\ quits.out = {}
    BY <1>4, <2>1 DEF IsCall, Fields
  <2> HIDE DEF quits
  <2>3. HoldsTruth(quits)
    BY <2>2 DEF HoldsTruth, InHand
  <2>4. KeepsSource(quits)
    <3>1. PlanIsApart(quits.plan, {}) /\ Unmixed({}) /\ BatchIsOne(quits)
      BY <1>7, <2>1, <2>2 DEF PlanIsApart, Unmixed, BatchIsOne, Working, InHand
    <3> QED BY <2>1, <2>2, <3>1 DEF KeepsSource
  <2> QED BY <1>1, <1>9, <2>2, <2>3, <2>4, OneCallerMoves DEF Fires
<1>10. CASE FallsBack(y.req, y.got) /\ Set(c, falls)
  <2>1. y.req.entry = "backtest" /\ y.got = {}
    BY <1>10 DEF FallsBack
  <2>2. /\ IsCall(falls) /\ falls.st \in {"enter", "group"} /\ falls.req = y.req /\ falls.plan = y.plan
        /\ falls.got = {} /\ falls.out = y.out
    BY <1>4, <1>6, <2>1 DEF IsCall, Fields
  <2> HIDE DEF falls
  <2>3. HoldsTruth(falls)
    BY <1>2, <2>2 DEF HoldsTruth, InHand
  <2>4. KeepsSource(falls)
    <3>1. PlanIsApart(falls.plan, falls.out) /\ Unmixed(falls.out) /\ BatchIsOne(falls)
      BY <1>2, <1>7, <2>1, <2>2 DEF BatchIsOne, InHand
    <3> QED BY <2>1, <2>2, <3>1 DEF KeepsSource, Working
  <2> QED BY <1>1, <1>10, <2>2, <2>3, <2>4, OneCallerMoves DEF Fires
<1>11. CASE Set(c, ends)
  <2>1. /\ IsCall(ends) /\ ends.st = (IF Len(y.plan) > 1 THEN "resolve" ELSE "done") /\ ends.req = y.req
        /\ ends.plan = Tail(y.plan) /\ ends.got = {} /\ ends.out = out
    BY <1>4 DEF IsCall, Fields
  <2>2. ends.st \in {"resolve", "done"}
    BY <2>1
  <2> HIDE DEF ends
  <2>3. HoldsTruth(ends)
    BY <1>5, <2>1, <2>2 DEF HoldsTruth, InHand
  <2>4. KeepsSource(ends)
    <3>1. ASSUME y.req.entry = "backtest" PROVE PlanIsApart(ends.plan, out) /\ Unmixed(out) /\ BatchIsOne(ends)
      <4> DEFINE p == y.plan
                 q == Tail(y.plan)
      <4>1. p # <<>> /\ p \in Seq(Range(p)) /\ Len(p) \in Nat /\ DOMAIN p = 1..Len(p) /\ Len(p) >= 1
        BY <1>2, <1>7, <3>1 DEF BatchIsOne, PlanIsApart
      <4>2. /\ Len(q) = Len(p) - 1 /\ DOMAIN q = 1..(Len(p) - 1) /\ \A i \in DOMAIN q : i + 1 \in DOMAIN p /\ q[i] = p[i + 1]
            /\ Head(p) = p[1] /\ 1 \in DOMAIN p
        BY <4>1
      <4>3. q \in Seq(Range(q))
        <5>1. q \in Seq(Range(p))
          BY <4>1, HeadTailProperties, Zenon
        <5>2. Len(p) - 1 \in Nat /\ q = [i \in 1..(Len(p) - 1) |-> q[i]]
          BY <5>1, <4>1, <4>2
        <5>3. \A i \in 1..(Len(p) - 1) : q[i] \in Range(q)
          BY <4>2 DEF Range
        <5> HIDE DEF q
        <5> QED BY <5>2, <5>3
      <4> HIDE DEF p, q
      <4>4. /\ \A i \in DOMAIN p : p[i].codes \in Seq(Kinds)
            /\ \A i, j \in DOMAIN p : i # j => Markets(p[i].codes) \cap Markets(p[j].codes) = {}
            /\ \A r \in y.out, i \in DOMAIN p : DetectMarket[r.code] \notin Markets(p[i].codes)
        BY <1>7, <3>1 DEF PlanIsApart, p
      <4>5. \A r \in y.got : r.by = y.loader /\ DetectMarket[r.code] \in Markets(p[1].codes)
        BY <1>7, <3>1, <4>2 DEF BatchIsOne, p
      <4>6. ASSUME NEW r \in out, NEW i \in DOMAIN q PROVE DetectMarket[r.code] \notin Markets(q[i].codes)
        <5>1. i + 1 \in DOMAIN p /\ i + 1 # 1 /\ q[i] = p[i + 1]
          BY <4>1, <4>2
        <5>2. CASE r \in y.out
          BY <5>1, <5>2, <4>4
        <5>3. CASE r \in y.got
          <6>1. Markets(p[1].codes) \cap Markets(p[i + 1].codes) = {}
            BY <4>2, <4>4, <5>1
          <6> QED BY <5>1, <5>3, <4>5, <6>1
        <5> QED BY <5>2, <5>3, <1>6, <3>1
      <4>7. \A i, j \in DOMAIN q : i # j => Markets(q[i].codes) \cap Markets(q[j].codes) = {}
        <5>1. ASSUME NEW i \in DOMAIN q, NEW j \in DOMAIN q, i # j PROVE Markets(q[i].codes) \cap Markets(q[j].codes) = {}
          <6>1. i + 1 \in DOMAIN p /\ j + 1 \in DOMAIN p /\ i + 1 # j + 1 /\ q[i] = p[i + 1] /\ q[j] = p[j + 1]
            BY <4>1, <4>2, <5>1
          <6> QED BY <6>1, <4>4
        <5> QED BY <5>1
      <4>8. \A i \in DOMAIN q : q[i].codes \in Seq(Kinds)
        BY <4>2, <4>4
      <4>9. PlanIsApart(q, out)
        BY <4>3, <4>6, <4>7, <4>8 DEF PlanIsApart
      <4>10. Unmixed(out)
        <5>1. ASSUME NEW r \in out, NEW s \in out, DetectMarket[r.code] = DetectMarket[s.code] PROVE r.by = s.by
          <6>1. r \in y.out \cup y.got /\ s \in y.out \cup y.got
            BY <1>6, <3>1
          <6>2. CASE r \in y.out /\ s \in y.out
            BY <6>2, <5>1, <1>7, <3>1 DEF Unmixed
          <6>3. CASE r \in y.got /\ s \in y.got
            BY <6>3, <4>5
          <6>4. CASE (r \in y.got /\ s \in y.out) \/ (r \in y.out /\ s \in y.got)
            BY <6>4, <5>1, <4>2, <4>4, <4>5
          <6> QED BY <6>1, <6>2, <6>3, <6>4
        <5> QED BY <5>1 DEF Unmixed
      <4>11. ends.st = "resolve" => q # <<>>
        BY <2>1, <4>1, <4>2 DEF p
      <4> QED BY <4>9, <4>10, <4>11, <2>1, <2>2 DEF BatchIsOne, Working, InHand, q
    <3>2. ASSUME y.req.entry = "tool", y.req.source = "local" PROVE StaysLocal(ends)
      <4>1. StaysLocal(y)
        BY <1>8, <3>2
      <4>2. Len(y.plan) = 1 /\ \A r \in y.got \cup y.out : r.by = "local"
        BY <4>1, <1>2 DEF StaysLocal
      <4>3. ends.st = "done" /\ \A o \in out : o.by = "local"
        BY <4>2, <1>5, <2>1
      <4> QED BY <4>3, <2>1 DEF StaysLocal, Working, InHand
    <3> QED BY <1>2, <2>1, <2>2, <3>1, <3>2 DEF KeepsSource
  <2> QED BY <1>1, <1>11, <2>1, <2>2, <2>3, <2>4, OneCallerMoves DEF Fires
<1> QED BY <1>3, <1>9, <1>10, <1>11

(* The next slot is apart from every slot there is. *)
LEMMA ReservedIsApart ==
    ASSUME now \in Nat, NEW host \in Loaders, Spaced(slots[host]), NEW t \in Reserved(host)
    PROVE  /\ t \in Nat /\ \A u \in slots[host] : t >= u + MinInterval
           /\ Spaced(slots[host] \cup {t})
<1> DEFINE S == slots[host]
           last == CHOOSE m \in S : \A u \in S : u <= m
<1>1. MinInterval \in Nat /\ MinInterval > 0 /\ \A j \in Jitters : j \in Nat
  BY ClockAssumption
<1>2. /\ S # {} => last \in S /\ \A u \in S : u <= last
      /\ \A u \in S : u \in Nat
  BY DEF Spaced
<1>3. \/ S = {} /\ t = now
      \/ S # {} /\ now >= last + MinInterval /\ t = now
      \/ S # {} /\ \E j \in Jitters : t = last + MinInterval + j
  BY DEF Reserved
<1> HIDE DEF last
<1>4. t \in Nat /\ \A u \in S : t >= u + MinInterval
  <2>1. CASE S = {} /\ t = now
    BY <2>1
  <2>2. CASE S # {} /\ now >= last + MinInterval /\ t = now
    BY <2>2, <1>1, <1>2
  <2>3. CASE S # {} /\ \E j \in Jitters : t = last + MinInterval + j
    <3>1. PICK j \in Jitters : t = last + MinInterval + j
      BY <2>3
    <3> QED BY <2>3, <3>1, <1>1, <1>2
  <2> QED BY <1>3, <2>1, <2>2, <2>3
<1>5. Spaced(S \cup {t})
  <2>1. S \cup {t} \in SUBSET Nat
    BY <1>2, <1>4
  <2>2. \A u \in S \cup {t} : u <= t
    BY <1>1, <1>2, <1>4
  <2>3. ASSUME NEW u \in S \cup {t}, NEW v \in S \cup {t}, u < v PROVE v >= u + MinInterval
    <3>1. CASE v = t
      BY <3>1, <1>4, <2>1, <2>3
    <3>2. CASE u = t /\ v \in S
      BY <3>2, <2>1, <2>2, <2>3
    <3>3. CASE u \in S /\ v \in S
      BY <3>3, <2>3 DEF Spaced
    <3> QED BY <3>1, <3>2, <3>3
  <2> QED BY <2>1, <2>2, <2>3 DEF Spaced
<1> QED BY <1>4, <1>5

LEMMA WaitKeeps ==
    ASSUME DataInv, NEW c \in Callers, Wait(c)
    PROVE  DataInv'
<1> DEFINE y == call[c]
           x(t) == [y EXCEPT !.st = "ask", !.fire = t]
<1>1. y.st = "wait" /\ CacheIsTrue' /\ UNCHANGED now
  BY DEF Wait, Here, DataInv, CacheIsTrue
<1>2. PICK t \in Reserved(y.loader) :
        Set(c, x(t)) /\ slots' = [slots EXCEPT ![y.loader] = slots[y.loader] \cup {t}]
  BY DEF Wait, Here
<1>3. /\ IsCall(x(t)) /\ x(t).st = "ask" /\ x(t).fire = t
      /\ x(t).req = y.req /\ x(t).plan = y.plan /\ x(t).loader = y.loader /\ x(t).todo = y.todo
      /\ x(t).got = y.got /\ x(t).out = y.out
  BY DEF DataInv, CallsAreCalls, IsCall, Fields
<1> HIDE DEF x
<1>4. /\ CallsAreCalls'
      /\ call'[c] = x(t) /\ \A d \in Callers \ {c} : call'[d] = call[d]
  BY <1>2, <1>3, OneCallChanges DEF DataInv
<1>5. HoldsTruth(x(t)) /\ KeepsSource(x(t))
  <2>1. HoldsTruth(y) /\ KeepsSource(y)
    BY DEF DataInv
  <2>2. HoldsTruth(x(t))
    BY <1>1, <1>3, <2>1 DEF HoldsTruth, InHand
  <2>3. y.st \in Working /\ x(t).st \in Working /\ y.st \in InHand /\ x(t).st \in InHand
    BY <1>1, <1>3 DEF Working, InHand
  <2>4. PlanIsApart(y.plan, y.out) /\ Unmixed(y.out) /\ BatchIsOne(y) =>
          PlanIsApart(x(t).plan, x(t).out) /\ Unmixed(x(t).out) /\ BatchIsOne(x(t))
    BY <1>3, <2>3 DEF BatchIsOne
  <2>5. StaysLocal(y) => StaysLocal(x(t))
    BY <1>3, <2>3 DEF StaysLocal
  <2> QED BY <1>1, <1>3, <2>1, <2>2, <2>3, <2>4, <2>5 DEF KeepsSource
<1>6. SlotsAreKept'
  <2>1. now \in Nat /\ slots \in [Loaders -> SUBSET Nat] /\ MinInterval > 0 /\ MinInterval \in Nat
    BY ClockAssumption DEF DataInv, SlotsAreKept
  <2>2. y.loader \in Loaders => /\ t \in Nat /\ \A u \in slots[y.loader] : t >= u + MinInterval
                                /\ Spaced(slots[y.loader] \cup {t})
    BY <2>1, ReservedIsApart DEF DataInv, SlotsAreKept
  <2>3. slots' \in [Loaders -> SUBSET Nat]
    BY <1>2, <2>1, <2>2
  <2>4. ASSUME NEW l \in Loaders
        PROVE  /\ Spaced(slots'[l])
               /\ \A d \in Callers : Fires(call'[d], l) => call'[d].fire \in slots'[l]
               /\ \A d, e \in Callers : d # e /\ Fires(call'[d], l) /\ Fires(call'[e], l) => call'[d].fire # call'[e].fire
    <3>1. /\ Spaced(slots[l])
          /\ \A d \in Callers : Fires(call[d], l) => call[d].fire \in slots[l]
          /\ \A d, e \in Callers : d # e /\ Fires(call[d], l) /\ Fires(call[e], l) => call[d].fire # call[e].fire
      BY DEF DataInv, SlotsAreKept
    <3>2. CASE l # y.loader
      <4>1. slots'[l] = slots[l]
        BY <1>2, <2>1, <3>2
      <4>2. ~ Fires(call'[c], l)
        BY <1>3, <1>4, <3>2 DEF Fires
      <4> QED BY <3>1, <4>1, <4>2, <1>4
    <3>3. CASE l = y.loader
      <4>1. slots'[l] = slots[l] \cup {t}
        BY <1>2, <2>1, <3>3
      <4>2. \A d \in Callers \ {c} : Fires(call'[d], l) => call'[d].fire \in slots[l]
        BY <3>1, <1>4
      <4>3. t \notin slots[l]
        <5>1. t \in Nat /\ \A u \in slots[l] : u \in Nat /\ t >= u + MinInterval
          BY <2>1, <2>2, <3>3
        <5> QED BY <5>1, <2>1
      <4>4. call'[c].fire = t
        BY <1>3, <1>4
      <4>5. ASSUME NEW d \in Callers, NEW e \in Callers, d # e, Fires(call'[d], l), Fires(call'[e], l)
            PROVE  call'[d].fire # call'[e].fire
        <5>1. CASE d # c /\ e # c
          BY <4>5, <5>1, <3>1, <1>4
        <5>2. CASE d = c \/ e = c
          BY <4>5, <5>2, <4>2, <4>3, <4>4
        <5> QED BY <5>1, <5>2
      <4>6. \A d \in Callers : Fires(call'[d], l) => call'[d].fire \in slots'[l]
        BY <4>1, <4>2, <4>4
      <4>7. Spaced(slots'[l])
        BY <4>1, <2>2, <3>3
      <4> QED BY <4>5, <4>6, <4>7
    <3> QED BY <3>2, <3>3
  <2> QED BY <1>1, <2>1, <2>3, <2>4 DEF SlotsAreKept
<1>7. \A d \in Callers : HoldsTruth(call'[d]) /\ KeepsSource(call'[d])
  BY <1>4, <1>5 DEF DataInv
<1> QED BY <1>1, <1>4, <1>6, <1>7 DEF DataInv

LEMMA TickKeeps ==
    ASSUME DataInv, Tick
    PROVE  DataInv'
<1>1. now' = now + 1 /\ UNCHANGED <<cache, slots, call>>
  BY DEF Tick
<1>2. SlotsAreKept'
  BY <1>1 DEF DataInv, SlotsAreKept
<1> QED BY <1>1, <1>2 DEF DataInv, CallsAreCalls, CacheIsTrue

LEMMA DataInitHolds == Init => DataInv
<1> SUFFICES ASSUME Init PROVE DataInv
  OBVIOUS
<1>1. /\ now = 0 /\ cache = << >> /\ slots = [l \in Loaders |-> {}]
      /\ call = [c \in Callers |-> NoCall]
  BY DEF Init
<1>2. CallsAreCalls
  <2>1. IsCall(NoCall)
    BY DEF IsCall, Fields, NoCall
  <2> QED BY <1>1, <2>1 DEF CallsAreCalls
<1>3. CacheIsTrue
  BY <1>1 DEF CacheIsTrue
<1>4. \A c \in Callers : call[c].st = "idle" /\ call[c].got = {} /\ call[c].out = {}
  BY <1>1 DEF NoCall
<1>5. SlotsAreKept
  BY <1>1, <1>4 DEF SlotsAreKept, Spaced, Fires
<1>6. \A c \in Callers : HoldsTruth(call[c]) /\ KeepsSource(call[c])
  BY <1>4 DEF HoldsTruth, KeepsSource, InHand, Working
<1> QED BY <1>2, <1>3, <1>5, <1>6 DEF DataInv

LEMMA DataStepKeeps == DataInv /\ [Next]_vars => DataInv'
<1> SUFFICES ASSUME DataInv, [Next]_vars PROVE DataInv'
  OBVIOUS
<1>1. CASE \E c \in Callers : Ask(c) \/ CallerStep(c)
  <2>1. PICK c \in Callers : Ask(c) \/ CallerStep(c)
    BY <1>1
  <2> QED BY <2>1, AskKeeps, ResolveKeeps, EnterKeeps, LookUpKeeps, WaitKeeps, AnsweredKeeps, FailsKeeps,
             BudgetSpentKeeps, PutKeeps, PutMetaKeeps, GroupEndsKeeps DEF CallerStep
<1>2. CASE Tick
  BY <1>2, TickKeeps
<1>3. CASE UNCHANGED vars
  <2>1. UNCHANGED <<now, cache, slots, call>>
    BY <1>3 DEF vars
  <2> QED BY <2>1 DEF DataInv, CallsAreCalls, CacheIsTrue, SlotsAreKept
<1> QED BY <1>1, <1>2, <1>3 DEF Next, Quiet

(* In every reachable state the callers' records, the cache and the slots   *)
(* are as DataInv says.                                                     *)
LEMMA DataInvHolds == Spec => []DataInv
<1> QED BY DataInitHolds, DataStepKeeps, PTL DEF Spec

(* Whatever other requests stored, failed to store or were answered, a code *)
(* gets a frame of its own loader for that symbol, interval and range, with *)
(* settled bars when the range was over from the start (loaders/base.py,    *)
(* cached_loader_fetch).  Of a range that ends today it may get a bar that  *)
(* was provisional when another request fetched it.                         *)
THEOREM CacheIsAlwaysTransparent == Spec => []CacheIsTransparent
<1>1. DataInv => CacheIsTransparent
  <2>1. ASSUME DataInv, NEW c \in Callers, NEW r \in Frames(c)
        PROVE  /\ r.frame.loader = r.by /\ r.frame.symbol = FiledAs(r.by, r.code)
               /\ r.frame.bars = Bars(r.by, Asked(c)) /\ r.frame.end = call[c].req.end
               /\ call[c].req.end = "past" => r.frame.settled
    <3>1. IsFrameOf(r.frame, r.by, r.code, Asked(c), call[c].req.end)
      BY <2>1 DEF DataInv, HoldsTruth, Authentic, Frames, Asked
    <3> QED BY <3>1 DEF IsFrameOf, IsFrame
  <2> QED BY <2>1 DEF CacheIsTransparent
<1> QED BY <1>1, DataInvHolds, PTL

(* The frames of one market in a backtest are one source's, also after a    *)
(* fallback in the middle of the run, and the tool answers a request for    *)
(* local files from local files (runner.py, _fetch_auto; registry.py).      *)
THEOREM SourcesAreAlwaysHonoured == Spec => []SourcesAreHonoured
<1>1. DataInv => SourcesAreHonoured
  <2> SUFFICES ASSUME DataInv PROVE SourcesAreHonoured
    OBVIOUS
  <2>1. ASSUME NEW c \in Callers, call[c].st # "idle", call[c].req.entry = "backtest", NEW r \in Frames(c), NEW q \in Frames(c),
               DetectMarket[r.code] = DetectMarket[q.code]
        PROVE  r.by = q.by
    <3> DEFINE y == call[c]
    <3>1. KeepsSource(y)
      BY DEF DataInv
    <3> HIDE DEF y
    <3>2. PlanIsApart(y.plan, y.out) /\ Unmixed(y.out) /\ BatchIsOne(y) /\ (y.got # {} => y.st \in Working)
      BY <2>1, <3>1 DEF KeepsSource, y
    <3>3. r \in y.got \cup y.out /\ q \in y.got \cup y.out
      BY DEF Frames, y
    <3>4. CASE r \in y.out /\ q \in y.out
      BY <2>1, <3>2, <3>4 DEF Unmixed
    <3>5. CASE r \in y.got /\ q \in y.got
      BY <3>2, <3>5 DEF BatchIsOne
    <3>6. CASE (r \in y.got /\ q \in y.out) \/ (r \in y.out /\ q \in y.got)
      <4>1. y.plan # <<>> /\ \A g \in y.got : DetectMarket[g.code] \in Markets(Head(y.plan).codes)
        BY <3>2, <3>6 DEF BatchIsOne
      <4>2. 1 \in DOMAIN y.plan /\ Head(y.plan) = y.plan[1]
        BY <3>2, <4>1 DEF PlanIsApart
      <4>3. \A o \in y.out : DetectMarket[o.code] \notin Markets(y.plan[1].codes)
        BY <3>2, <4>2 DEF PlanIsApart
      <4> QED BY <2>1, <3>6, <4>1, <4>2, <4>3
    <3> QED BY <3>3, <3>4, <3>5, <3>6
  <2>2. OneSourcePerMarket
    BY <2>1 DEF OneSourcePerMarket
  <2>3. LocalToolStaysLocal
    BY DEF LocalToolStaysLocal, DataInv, KeepsSource, StaysLocal, Frames
  <2> QED BY <2>2, <2>3 DEF SourcesAreHonoured
<1> QED BY <1>1, DataInvHolds, PTL

(* However many callers burst, the fire times of one host are at least the  *)
(* minimum interval apart and no two callers share one (_http.py,           *)
(* HostThrottle.wait).                                                      *)
THEOREM SlotsAreAlwaysSpaced == Spec => []SlotsAreSpaced
<1>1. DataInv => SlotsAreSpaced
  BY DEF DataInv, SlotsAreKept, Spaced, Fires, SlotsAreSpaced
<1> QED BY <1>1, DataInvHolds, PTL

-----------------------------------------------------------------------------
(***************************************************************************)
(* What a tool answers.                                                    *)
(***************************************************************************)
(* The answer r to a call whose requests, among those of uses, gave net. *)
Honest(r, uses, net) ==
    LET raised == {e \in r.asked \cap uses : net[e] = "raises"} IN
    /\ r.said # "ok" => r.found = {}
    /\ r.said = "ok" =>
         /\ raised \ BestEffort \subseteq r.noted
         /\ r.asked # {} /\ raised = r.asked => raised \subseteq r.noted
         /\ r.found \cap raised = {}

(* A refusal without rows is honest, and so is an answer none of whose      *)
(* requests failed.                                                         *)
LEMMA RefusalIsHonest ==
    ASSUME NEW r, NEW uses, NEW net, r.said # "ok", r.found = {}
    PROVE  Honest(r, uses, net)
BY DEF Honest

LEMMA NothingFailedIsHonest ==
    ASSUME NEW r, NEW uses, NEW net, r.said = "ok", \A e \in r.asked : net[e] # "raises"
    PROVE  Honest(r, uses, net)
BY DEF Honest

(* An answer is honest that has rows only of requests that did not fail, and *)
(* that names every failed one, or every one but the best-effort ones, if    *)
(* some request did not fail.                                                *)
LEMMA PartialIsHonest ==
    ASSUME NEW r, NEW uses, NEW net, r.said = "ok", \A e \in r.found : net[e] # "raises",
           \A e \in r.asked : net[e] = "raises" => e \in r.noted \cup BestEffort,
           \/ \A e \in r.asked : net[e] = "raises" => e \in r.noted
           \/ \E e \in r.asked : net[e] # "raises"
    PROVE  Honest(r, uses, net)
<1> DEFINE raised == {e \in r.asked \cap uses : net[e] = "raises"}
<1>1. \A e \in raised : e \in r.asked /\ net[e] = "raises"
  OBVIOUS
<1> HIDE DEF raised
<1>2. raised \ BestEffort \subseteq r.noted
  BY <1>1
<1>3. ASSUME r.asked # {}, raised = r.asked PROVE raised \subseteq r.noted
  BY <1>1, <1>3
<1>4. r.found \cap raised = {}
  BY <1>1
<1> QED BY <1>2, <1>3, <1>4 DEF Honest, raised

LEMMA RefusalsAreHonest ==
    ASSUME NEW asked, NEW uses, NEW net
    PROVE  Honest(Refused, uses, net) /\ Honest(Failed(asked), uses, net) /\ Honest(NotFound(asked), uses, net)
<1>1. /\ Refused.said # "ok" /\ Failed(asked).said # "ok" /\ NotFound(asked).said # "ok"
      /\ Refused.found = {} /\ Failed(asked).found = {} /\ NotFound(asked).found = {}
  BY DEF Refused, Failed, NotFound
<1> QED BY <1>1, RefusalIsHonest

(* One request, or two in turn. *)
LEMMA FetchedIsHonest ==
    ASSUME NEW e, NEW net, NEW kept, NEW uses
    PROVE  Honest(Fetched(e, net, kept), uses, net) /\ Honest(FetchedSome(e, net, kept), uses, net)
<1>1. CASE net[e] = "raises"
  BY <1>1, RefusalsAreHonest DEF Fetched, FetchedSome
<1>2. CASE net[e] # "raises"
  <2>1. ASSUME NEW found PROVE Honest(Told({e}, found), uses, net)
    BY <1>2, NothingFailedIsHonest DEF Told
  <2> QED BY <1>2, <2>1, RefusalsAreHonest DEF Fetched, FetchedSome
<1> QED BY <1>1, <1>2

LEMMA InTurnIsHonest ==
    ASSUME NEW first, NEW second, NEW net, NEW found, NEW uses
    PROVE  Honest(InTurn(first, second, net, found), uses, net)
<1> DEFINE r == InTurn(first, second, net, found)
<1>1. CASE net[first] = "raises" \/ net[second] = "raises"
  <2>1. r.said # "ok" /\ r.found = {}
    BY <1>1 DEF InTurn, Failed, Refused
  <2> QED BY <2>1, RefusalIsHonest
<1>2. CASE net[first] # "raises" /\ net[second] # "raises"
  <2>1. r.said = "ok" /\ r.asked = {first, second}
    BY <1>2 DEF InTurn, Told
  <2> QED BY <1>2, <2>1, NothingFailedIsHonest
<1> QED BY <1>1, <1>2

(* The tools with requests of their own kind. *)
LEMMA FundFlowIsHonest ==
    ASSUME NEW a, NEW net, NEW m, NEW uses
    PROVE  Honest(FundFlow(a, net, m), uses, net)
<1>2. ASSUME NEW code, NEW e
      PROVE  LET r == FetchSymbolFlow(code, e, net, m)
             IN  /\ \A x \in r.asked : net[x] = "raises" => x \in r.noted
                 /\ \A x \in r.found : net[x] # "raises"
  BY DEF FetchSymbolFlow, Told, Identified
<1> DEFINE one == FetchSymbolFlow(a.code, "eastmoney", net, m)
           two == FetchSymbolFlow("cn", "flow2", net, m)
<1>3. CASE a.code = "" \/ a.mode = "unknown" \/ ~a.valid
  BY <1>3, RefusalsAreHonest DEF FundFlow
<1>4. CASE ~ (a.code = "" \/ a.mode = "unknown" \/ ~a.valid)
  <2> DEFINE r == FundFlow(a, net, m)
  <2>1. /\ r.said = "ok" /\ r.asked = one.asked \cup two.asked /\ r.found = one.found \cup two.found
        /\ r.noted = one.noted \cup two.noted
    BY <1>4 DEF FundFlow
  <2>2. \A x \in r.asked : net[x] = "raises" => x \in r.noted
    BY <1>2, <2>1
  <2>3. \A x \in r.found : net[x] # "raises"
    BY <1>2, <2>1
  <2> HIDE DEF r
  <2>4. Honest(r, uses, net)
    BY <2>1, <2>2, <2>3, PartialIsHonest
  <2> QED BY <2>4 DEF r
<1> QED BY <1>3, <1>4

LEMMA SymbolSearchIsHonest ==
    ASSUME NEW a, NEW net, NEW m, NEW uses
    PROVE  Honest(SymbolSearch(a, net, m), uses, net)
<1> DEFINE asked == {"eastmoney", "yahoo"} \cup EnrichUsCik(a, net, m)
           r == SymbolSearch(a, net, m)
<1>1. CASE ~a.valid
  BY <1>1, RefusalsAreHonest DEF SymbolSearch
<1>2. CASE a.valid
  <2>1. /\ r.said = "ok" /\ r.asked = asked /\ r.found = Candidates(net)
        /\ r.noted = {e \in asked : net[e] = "raises"}
    BY <1>2 DEF SymbolSearch, Told
  <2>2. \A e \in Candidates(net) : net[e] # "raises"
    BY DEF Candidates, EastmoneyCandidates, YahooCandidates, Identified
  <2> HIDE DEF r, asked
  <2>3. Honest(r, uses, net)
    BY <2>1, <2>2, PartialIsHonest
  <2> QED BY <2>3 DEF r
<1> QED BY <1>1, <1>2

LEMMA ResearchReportsIsHonest ==
    ASSUME NEW a, NEW net, NEW uses
    PROVE  Honest(ResearchReports(a, net), uses, net)
<1> DEFINE asked == {"eastmoney", "ths"}
           found == {e \in {"eastmoney"} : Reports(net[e])} \cup {e \in {"ths"} : ConsensusEps(net[e])}
<1>1. CASE a.code # "cn" \/ net["eastmoney"] = "raises" \/ found = {}
  BY <1>1, RefusalsAreHonest DEF ResearchReports
<1>2. CASE ~ (a.code # "cn" \/ net["eastmoney"] = "raises" \/ found = {})
  <2> DEFINE r == ResearchReports(a, net)
  <2>1. r.said = "ok" /\ r.asked = asked /\ r.found = found
    BY <1>2 DEF ResearchReports, Told
  <2>2. /\ \A e \in found : net[e] # "raises"
        /\ net["eastmoney"] # "raises" /\ "eastmoney" \in asked
        /\ \A e \in asked : e = "eastmoney" \/ e \in BestEffort
    BY <1>2 DEF Reports, ConsensusEps, Identified, BestEffort
  <2> HIDE DEF r, asked, found
  <2>3. Honest(r, uses, net)
    BY <2>1, <2>2, PartialIsHonest
  <2> QED BY <2>3 DEF r
<1> QED BY <1>1, <1>2

LEMMA WithCrumbIsHonest ==
    ASSUME NEW net, NEW kept, NEW uses
    PROVE  Honest(WithCrumb(net, kept), uses, net)
<1>1. CASE Crumbed(net) \in {"raises", "bare"}
  BY <1>1, RefusalsAreHonest DEF WithCrumb
<1>2. CASE Crumbed(net) \notin {"raises", "bare"}
  <2>1. net["yahoo"] # "raises"
    BY <1>2 DEF Crumbed
  <2> QED BY <1>2, <2>1, NothingFailedIsHonest DEF WithCrumb, Told
<1> QED BY <1>1, <1>2

LEMMA WebSearchIsHonest ==
    ASSUME NEW a, NEW net, NEW uses
    PROVE  Honest(WebSearch(a, net), uses, net)
<1> DEFINE r == WebSearch(a, net)
           keyed == {e \in {"aliyun"} : a.valid}
           told == SearchFallbacks(a, net, keyed \cup {"engines"})
<1>1. CASE a.valid /\ AliyunItems(net["aliyun"])
  <2>1. r.said = "ok" /\ r.asked = keyed /\ net["aliyun"] # "raises"
    BY <1>1 DEF WebSearch, Told, AliyunItems, AnyRow
  <2> QED BY <2>1, NothingFailedIsHonest
<1>2. CASE ~ (a.valid /\ AliyunItems(net["aliyun"])) /\ EngineAnswers(net["engines"])
  <2>1. r.said = "ok" /\ r.asked = keyed \cup {"engines"} /\ r.found \subseteq {"engines"} /\ net["engines"] # "raises"
    BY <1>2 DEF WebSearch, Told, EngineAnswers
  <2>2. "engines" \in r.asked /\ \A e \in r.asked : e \in BestEffort
    BY <2>1 DEF BestEffort
  <2> HIDE DEF r, keyed
  <2>3. Honest(r, uses, net)
    BY <2>1, <2>2, PartialIsHonest
  <2> QED BY <2>3 DEF r
<1>3. CASE ~ (a.valid /\ AliyunItems(net["aliyun"])) /\ ~ EngineAnswers(net["engines"])
  <2>1. r = Errs(told)
    BY <1>3 DEF WebSearch
  <2>2. \/ told.said = "ok_false" /\ told.found = {} /\ told = Failed(told.asked)
        \/ /\ told.said = "ok" /\ told.found = {"sogou"} /\ net["sogou"] # "raises"
           /\ "sogou" \in told.asked /\ \A e \in told.asked : e \in BestEffort
        \/ /\ told.said = "ok" /\ told.found = {"bing"} /\ net["bing"] # "raises"
           /\ "bing" \in told.asked /\ \A e \in told.asked : e \in BestEffort
    BY DEF SearchFallbacks, Failed, Refused, Told, SogouItems, BingItems, Identified, BestEffort
  <2> HIDE DEF told, r, keyed
  <2>3. CASE told.said = "ok_false" /\ told.found = {} /\ told = Failed(told.asked)
    <3>1. r.said = "error" /\ r.found = {}
      BY <2>1, <2>3 DEF Errs, Failed, Refused
    <3> QED BY <3>1, RefusalIsHonest DEF r
  <2>4. CASE told.said = "ok"
    <3>1. r = told
      BY <2>1, <2>4 DEF Errs
    <3>2. Honest(told, uses, net)
      BY <2>2, <2>4, PartialIsHonest
    <3> QED BY <3>1, <3>2 DEF r
  <2> QED BY <2>2, <2>3, <2>4
<1> QED BY <1>1, <1>2, <1>3

(* Every tool is honest, whatever it is asked, whatever the services send   *)
(* and whatever the process remembers.                                      *)
LEMMA ExecuteIsHonest ==
    ASSUME NEW tool \in Tools, NEW a, NEW net, NEW m, NEW uses
    PROVE  Honest(Execute(tool, a, net, m), uses, net)
<1> DEFINE H(r) == Honest(r, uses, net)
<1>1. ASSUME NEW asked PROVE H(Errs(Refused)) /\ H(Errs(Failed(asked)))
  <2>1. /\ Errs(Refused).said = "error" /\ Errs(Failed(asked)).said = "error"
        /\ Errs(Refused).found = {} /\ Errs(Failed(asked)).found = {}
    BY DEF Errs, Failed, Refused
  <2> QED BY <2>1, RefusalIsHonest
<1>2. ASSUME NEW e, net[e] # "raises", NEW found PROVE H(Told({e}, found))
  BY <1>2, NothingFailedIsHonest DEF Told
<1> HIDE DEF H
<1>3. CASE tool = "get_stock_news"
  BY <1>3, RefusalsAreHonest, FetchedIsHonest DEF Execute, H, StockNews, RunStock
<1>4. CASE tool = "get_sector_info"
  BY <1>4, RefusalsAreHonest, FetchedIsHonest DEF Execute, H, SectorInfo, FetchMembership, FetchRanking
<1>5. CASE tool = "get_macro_series"
  BY <1>5, RefusalsAreHonest, FetchedIsHonest DEF Execute, H, FredMacro
<1>6. CASE tool = "get_block_trades"
  BY <1>6, RefusalsAreHonest, FetchedIsHonest DEF Execute, H, BlockTrades
<1>7. CASE tool = "get_dragon_tiger"
  BY <1>7, RefusalsAreHonest, FetchedIsHonest, InTurnIsHonest DEF Execute, H, DragonTiger, Collect
<1>8. CASE tool = "get_lockup_expiry"
  BY <1>8, RefusalsAreHonest, FetchedIsHonest DEF Execute, H, GetLockupExpiry, FetchLockups
<1>9. CASE tool = "get_northbound_flow"
  BY <1>9, InTurnIsHonest DEF Execute, H, NorthboundFlow
<1>10. CASE tool = "get_fund_flow"
  BY <1>10, FundFlowIsHonest DEF Execute, H
<1>11. CASE tool = "get_financial_statements"
  BY <1>11, RefusalsAreHonest, FetchedIsHonest DEF Execute, H, FinancialStatements, FetchSecStatement, FetchEastmoneyStatement
<1>12. CASE tool = "search_symbol"
  BY <1>12, SymbolSearchIsHonest DEF Execute, H
<1>13. CASE tool = "get_research_reports"
  BY <1>13, ResearchReportsIsHonest DEF Execute, H
<1>14. CASE tool = "get_stock_profile"
  BY <1>14, RefusalsAreHonest, WithCrumbIsHonest DEF Execute, H, StockProfile
<1>15. CASE tool = "get_options_chain"
  BY <1>15, RefusalsAreHonest, WithCrumbIsHonest DEF Execute, H, OptionsChain
<1>16. CASE tool = "get_sec_filings"
  BY <1>16, RefusalsAreHonest, FetchedIsHonest, InTurnIsHonest DEF Execute, H, SecFilings
<1>17. CASE tool = "iwencai_search"
  BY <1>17, RefusalsAreHonest, FetchedIsHonest DEF Execute, H, IWenCaiSearch
<1>18. CASE tool = "screen_market"
  BY <1>18, RefusalsAreHonest, FetchedIsHonest DEF Execute, H, MarketScreener
<1>19. CASE tool = "get_shareholder_count"
  BY <1>19, RefusalsAreHonest, FetchedIsHonest DEF Execute, H, ShareholderCount
<1>20. CASE tool = "get_margin_trading"
  BY <1>20, RefusalsAreHonest, FetchedIsHonest DEF Execute, H, MarginTrading
<1>21. CASE tool = "web_search"
  BY <1>21, WebSearchIsHonest DEF Execute, H
<1>22. CASE tool = "read_url"
  BY <1>22, <1>1, <1>2 DEF Execute, H, ReadUrl
<1>23. CASE tool = "read_document"
  BY <1>23, <1>1, <1>2 DEF Execute, H, ReadDocument, ReadByFormat
<1>24. tool \in {"get_stock_news", "get_sector_info", "get_macro_series", "get_block_trades", "get_dragon_tiger", "get_lockup_expiry", "get_northbound_flow", "get_fund_flow", "get_financial_statements", "search_symbol", "get_research_reports",
            "get_stock_profile", "get_options_chain", "get_sec_filings", "iwencai_search", "screen_market", "get_shareholder_count", "get_margin_trading", "web_search", "read_url", "read_document"}
  BY DEF Tools, Uses
<1> QED BY <1>3, <1>4, <1>5, <1>6, <1>7, <1>8, <1>9, <1>10, <1>11, <1>12, <1>13, <1>14,
           <1>15, <1>16, <1>17, <1>18, <1>19, <1>20, <1>21, <1>22, <1>23, <1>24 DEF H

LEMMA OutcomesAreHonest ==
    ASSUME NEW tool \in Tools, NEW known \in Outcomes, known.tool = tool, NEW o \in known.after, answer' = o.answer
    PROVE  AnswersAreHonest'
<1>1. PICK name \in Tools, m \in Memos :
        known = [tool |-> name, before |-> m,
                 after |-> {Outcome(name, a, net, m) : a \in Params, net \in [Uses[name] -> Payloads]}]
  BY DEF Outcomes
<1>2. PICK a \in Params, net \in [Uses[name] -> Payloads] : o = Outcome(name, a, net, m)
  BY <1>1
<1> DEFINE reply == Execute(name, a, net, m)
           raised == {e \in reply.asked \cap Uses[name] : net[e] = "raises"}
<1>3. answer'.reply = reply /\ answer'.raised = raised
  BY <1>2 DEF Outcome
<1>4. Honest(reply, Uses[name], net)
  BY ExecuteIsHonest
<1> HIDE DEF reply
<1>5. /\ reply.said # "ok" => reply.found = {}
      /\ reply.said = "ok" =>
           /\ raised \ BestEffort \subseteq reply.noted
           /\ reply.asked # {} /\ raised = reply.asked => raised \subseteq reply.noted
           /\ reply.found \cap raised = {}
  BY <1>4 DEF Honest
<1> HIDE DEF raised
<1> QED BY <1>3, <1>5 DEF AnswersAreHonest

(* No tool passes a failed request off as an empty result: an answer that   *)
(* says ok names every mandatory request that failed, never consists of     *)
(* failures alone and holds rows only of requests that were answered (the   *)
(* except clauses of the tools' execute methods).                           *)
THEOREM AnswersAreAlwaysHonest == WorkerSpec => []AnswersAreHonest
<1>1. answer = NoAnswer => AnswersAreHonest
  BY DEF NoAnswer, Refused, AnswersAreHonest
<1>2. (answer = NoAnswer)' => AnswersAreHonest'
  BY DEF NoAnswer, Refused, AnswersAreHonest
<1>3. WorkerInit => AnswersAreHonest
  BY <1>1 DEF WorkerInit
<1>4. AnswersAreHonest /\ [WorkerNext]_workerVars => AnswersAreHonest'
  <2> SUFFICES ASSUME AnswersAreHonest, [WorkerNext]_workerVars PROVE AnswersAreHonest'
    OBVIOUS
  <2>1. ASSUME UNCHANGED answer PROVE AnswersAreHonest'
    BY <2>1 DEF AnswersAreHonest
  <2>2. CASE \E tool \in Tools : CallTool(tool)
    <3>1. PICK tool \in Tools, known \in Outcomes : known.tool = tool /\ \E o \in known.after : answer' = o.answer
      BY <2>2 DEF CallTool
    <3> QED BY <3>1, OutcomesAreHonest
  <2>3. CASE Iterates \/ TimesOut \/ TooLarge \/ LimitReached \/ CallOther \/ \E text \in Texts : WriteReport(text)
    BY <2>3, <1>2 DEF Iterates, TimesOut, TooLarge, LimitReached, CallOther, WriteReport
  <2>4. CASE Responds
    BY <2>4, <2>1 DEF Responds, Filtered, Nudged, Finishes, RequestsCalls
  <2>5. CASE RenderPrompt \/ StreamFails \/ Retries \/ Ends \/ UNCHANGED workerVars
    BY <2>5, <2>1 DEF RenderPrompt, StreamFails, Retries, Ends, workerVars
  <2> QED BY <2>2, <2>3, <2>4, <2>5 DEF WorkerNext, WorkerStep, CallsTool, Rest
<1> QED BY <1>3, <1>4, PTL DEF WorkerSpec

-----------------------------------------------------------------------------
(***************************************************************************)
(* What a worker hands on as completed.                                    *)
(***************************************************************************)
(* A call that counted, and a report, are the work of a tool call that was  *)
(* no error; only an attempt that has returned has completed.               *)
LocalFields == {"pc", "iteration", "tries", "skips", "nudges", "calls", "last", "said", "todo"}
IsLocals(x) == x = [f \in LocalFields |-> x[f]] /\ x.calls \in BOOLEAN

WorkerInv ==
    /\ IsLocals(w) /\ data \in BOOLEAN /\ evidence \in BOOLEAN
    /\ w.calls \/ ReportWritten => evidence
    /\ result.status = "completed" => w.pc \in {"returned", "done"}
    /\ CompletionsAreGrounded

(* An attempt returns. *)
LEMMA ReturnKeeps ==
    ASSUME WorkerInv, NEW status, NEW text, NEW found \in Findings, Return(status, text), UNCHANGED <<data, report, evidence>>,
           status = "completed" => ~ Rejected(text, found)
    PROVE  WorkerInv'
<1>1. IsLocals(w') /\ w'.pc = "returned" /\ w'.calls = w.calls /\ result'.status = status /\ result'.summary = text
  BY DEF WorkerInv, IsLocals, LocalFields, Return
<1>2. ReportWritten' <=> ReportWritten
  BY DEF ReportWritten
<1>3. ASSUME status = "completed"
      PROVE  ~ (text \in {"", "blank", "flawed", "plan"}) /\ (data => evidence)
  BY <1>3 DEF Rejected, Findings, WorkerInv
<1> QED BY <1>1, <1>2, <1>3 DEF WorkerInv, CompletionsAreGrounded

(* An attempt that does not complete, and one that is judged. *)
LEMMA StopKeeps ==
    ASSUME WorkerInv, NEW status, NEW text, Return(status, text), UNCHANGED <<data, report, evidence>>, status # "completed"
    PROVE  WorkerInv'
<1>1. FALSE \in Findings
  BY DEF Findings
<1> QED BY <1>1, ReturnKeeps

LEMMA ConclusionKeeps ==
    ASSUME WorkerInv, NEW text, Concludes(text), UNCHANGED <<data, report, evidence>>
    PROVE  WorkerInv'
<1>1. PICK told \in ResolveSummary(text), found \in Findings :
            Deliver(IF Rejected(told, found) THEN "incomplete" ELSE "completed", told)
  BY DEF Concludes
<1> QED BY <1>1, ReturnKeeps DEF Deliver

(* An attempt goes on. *)
LEMMA GoingOnKeeps ==
    ASSUME WorkerInv, IsLocals(w'), w'.calls => w.calls, result'.status # "completed", UNCHANGED <<data, report, evidence>>
    PROVE  WorkerInv'
<1>1. ReportWritten' <=> ReportWritten
  BY DEF ReportWritten
<1> QED BY <1>1 DEF WorkerInv, CompletionsAreGrounded

(* A tool was called, and perhaps the report written. *)
LEMMA CountedKeeps ==
    ASSUME WorkerInv, w.pc = "tools", NEW said, NEW counts \in BOOLEAN, Counted(said, counts), UNCHANGED <<data, result>>,
           report' # report => counts /\ ~ IsErrorResult(said)
    PROVE  WorkerInv'
<1>1. /\ IsLocals(w') /\ evidence' \in BOOLEAN
      /\ w'.calls = (w.calls \/ (counts /\ ~ IsErrorResult(said)))
      /\ evidence' = (evidence \/ (counts /\ ~ IsErrorResult(said)))
  BY DEF WorkerInv, IsLocals, LocalFields, Counted
<1>2. result'.status # "completed"
  BY DEF WorkerInv
<1>3. w'.calls \/ ReportWritten' => evidence'
  BY <1>1 DEF WorkerInv, ReportWritten
<1> QED BY <1>1, <1>2, <1>3 DEF WorkerInv, CompletionsAreGrounded

LEMMA RespondsKeeps == WorkerInv /\ Responds => WorkerInv'
<1> SUFFICES ASSUME WorkerInv, Responds PROVE WorkerInv'
  OBVIOUS
<1>1. PICK text, n : Filtered(text) \/ Nudged(text) \/ Finishes(text) \/ RequestsCalls(text, n)
  BY DEF Responds
<1>2. w.pc = "stream" /\ result.status # "completed"
  BY DEF Responds, WorkerInv
<1>3. CASE Nudged(text) \/ RequestsCalls(text, n)
  <2>1. IsLocals(w') /\ w'.calls = w.calls
    BY <1>3 DEF Nudged, RequestsCalls, WorkerInv, IsLocals, LocalFields
  <2> QED BY <1>2, <1>3, <2>1, GoingOnKeeps DEF Nudged, RequestsCalls, Kept
<1>4. CASE Filtered(text)
  <2>1. CASE ~SkipsLeft
    <3>1. PICK told : Return("failed", told) /\ UNCHANGED <<data, report, evidence>>
      BY <1>4, <2>1 DEF Filtered, Deliver, Kept
    <3> QED BY <3>1, StopKeeps
  <2>2. CASE SkipsLeft
    <3>1. IsLocals(w') /\ w'.calls = w.calls
      BY <1>4, <2>2 DEF Filtered, WorkerInv, IsLocals, LocalFields
    <3> QED BY <1>2, <1>4, <2>2, <3>1, GoingOnKeeps DEF Filtered, Kept
  <2> QED BY <2>1, <2>2
<1>5. CASE Finishes(text)
  BY <1>5, ConclusionKeeps DEF Finishes, Kept
<1> QED BY <1>1, <1>3, <1>4, <1>5

LEMMA LimitReachedKeeps == WorkerInv /\ LimitReached => WorkerInv'
<1> SUFFICES ASSUME WorkerInv, LimitReached PROVE WorkerInv'
  OBVIOUS
<1>1. PICK text \in BestSummaries : Concludes(text)
  BY DEF LimitReached
<1> QED BY <1>1, ConclusionKeeps DEF LimitReached, Kept

LEMMA WorkerInitHolds == WorkerInit => WorkerInv
<1>1. IsLocals(Locals) /\ ~ Locals.calls
  BY DEF Locals, IsLocals, LocalFields
<1>2. NoResult.status # "completed"
  BY DEF NoResult
<1>3. ASSUME report = "none" PROVE ~ ReportWritten
  BY <1>3 DEF ReportWritten
<1> QED BY <1>1, <1>2, <1>3 DEF WorkerInit, WorkerInv, CompletionsAreGrounded

LEMMA WorkerStepKeeps == WorkerInv /\ [WorkerNext]_workerVars => WorkerInv'
<1> SUFFICES ASSUME WorkerInv, [WorkerNext]_workerVars PROVE WorkerInv'
  OBVIOUS
<1>1. CASE RenderPrompt
  <2>1. CASE Return("failed", "")
    BY <1>1, <2>1, StopKeeps DEF RenderPrompt, Kept
  <2>2. CASE w' = [w EXCEPT !.pc = "top"] /\ UNCHANGED result
    <3>1. IsLocals(w') /\ w'.calls = w.calls /\ result.status # "completed"
      BY <1>1, <2>2 DEF RenderPrompt, WorkerInv, IsLocals, LocalFields
    <3> QED BY <1>1, <2>2, <3>1, GoingOnKeeps DEF RenderPrompt, Kept
  <2> QED BY <1>1, <2>1, <2>2 DEF RenderPrompt
<1>2. CASE Iterates
  <2>1. IsLocals(w') /\ w'.calls = w.calls /\ result'.status # "completed"
    BY <1>2 DEF Iterates, WorkerInv, IsLocals, LocalFields
  <2> QED BY <1>2, <2>1, GoingOnKeeps DEF Iterates, Kept
<1>3. CASE TimesOut
  <2>1. PICK text : Return("timeout", text) /\ UNCHANGED <<data, report, evidence>>
    BY <1>3 DEF TimesOut, Deliver, Kept
  <2> QED BY <2>1, StopKeeps
<1>4. CASE TooLarge
  <2>1. PICK text : Return("token_limit", text) /\ UNCHANGED <<data, report, evidence>>
    BY <1>4 DEF TooLarge, Deliver, Kept
  <2> QED BY <2>1, StopKeeps
<1>5. CASE StreamFails
  <2>1. CASE \E told \in ResolveSummary(w.last) : Return("failed", told)
    BY <1>5, <2>1, StopKeeps DEF StreamFails, Kept
  <2>2. CASE w' = [w EXCEPT !.tries = w.tries + 1] /\ UNCHANGED result
    <3>1. IsLocals(w') /\ w'.calls = w.calls /\ result.status # "completed"
      BY <1>5, <2>2 DEF StreamFails, WorkerInv, IsLocals, LocalFields
    <3> QED BY <1>5, <2>2, <3>1, GoingOnKeeps DEF StreamFails, Kept
  <2> QED BY <1>5, <2>1, <2>2 DEF StreamFails
<1>6. CASE Responds
  BY <1>6, RespondsKeeps
<1>7. CASE CallsTool
  <2>1. ASSUME NEW tool \in Tools, CallTool(tool) PROVE WorkerInv'
    <3>1. PICK said : Counted(said, TRUE)
      BY <2>1 DEF CallTool
    <3> QED BY <2>1, <3>1, CountedKeeps DEF CallTool
  <2>2. ASSUME NEW text \in Texts, WriteReport(text) PROVE WorkerInv'
    <3>1. ~ IsErrorResult("ok")
      BY DEF IsErrorResult
    <3> QED BY <2>2, <3>1, CountedKeeps DEF WriteReport
  <2>3. CASE CallOther
    BY <2>3, CountedKeeps DEF CallOther
  <2> QED BY <1>7, <2>1, <2>2, <2>3 DEF CallsTool
<1>8. CASE LimitReached
  BY <1>8, LimitReachedKeeps
<1>9. CASE Retries
  <2>1. IsLocals(w') /\ ~ w'.calls /\ result'.status # "completed"
    BY <1>9 DEF Retries, Locals, IsLocals, LocalFields, NoResult
  <2> QED BY <1>9, <2>1, GoingOnKeeps DEF Retries
<1>10. CASE Ends
  <2>1. IsLocals(w') /\ w'.calls = w.calls /\ w'.pc = "done"
    BY <1>10 DEF Ends, WorkerInv, IsLocals, LocalFields
  <2> QED BY <1>10, <2>1 DEF Ends, Kept, WorkerInv, CompletionsAreGrounded, ReportWritten
<1>11. CASE UNCHANGED workerVars
  BY <1>11 DEF workerVars, WorkerInv, CompletionsAreGrounded, ReportWritten
<1> QED BY <1>1, <1>2, <1>3, <1>4, <1>5, <1>6, <1>7, <1>8, <1>9, <1>10, <1>11 DEF WorkerNext, WorkerStep, Rest

(* What a task hands downstream as completed shows none of the signs of     *)
(* _classify_deliverable, and a data agent's task has a tool call behind it *)
(* that answered no error envelope, in this or an earlier attempt, whether  *)
(* or not report.md could be read and summary.md written (worker.py,        *)
(* run_worker).                                                             *)
THEOREM CompletionsAreAlwaysGrounded == WorkerSpec => []CompletionsAreGrounded
<1>1. WorkerInv => CompletionsAreGrounded
  BY DEF WorkerInv
<1> QED BY <1>1, WorkerInitHolds, WorkerStepKeeps, PTL DEF WorkerSpec
=============================================================================

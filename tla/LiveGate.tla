------------------------------ MODULE LiveGate ------------------------------
(***************************************************************************)
(* The bounded-autonomy gate around a live broker: the proposal the agent  *)
(* synthesises, the mandate the user commits from it, the kill switch, and *)
(* the gate every live order passes.                                       *)
(*                                                                         *)
(* One broker key.  An order call is a process k of Calls, so any number   *)
(* of chat sessions, MCP tools and SDK tools run side by side; a call is   *)
(* cut where the code waits for the broker or the loaders and where it     *)
(* re-opens a file another call may have replaced.  Commits are requests r *)
(* of Commits and overlap as well: nothing locks a proposal or a mandate.  *)
(* A JSON file is replaced through one temporary file, so of two writers   *)
(* the first to finish may put the other's text in place, and the other    *)
(* then finds no file to rename and raises.  Money is in small             *)
(* integers; 0 leverage stands for the string "none", NoLimit for a        *)
(* ceiling the snapshot does not name, Absent for a missing number.        *)
(***************************************************************************)
EXTENDS Integers, FiniteSets

CONSTANTS
  CeilingSets,   \* ceiling snapshots the agent may propose against
  Templates,     \* the numbered profile templates of the propose tool
  Adjustments,   \* what the user may adjust before committing
  Intents,       \* orders the agent may ask for
  Prices,        \* prices a quote or a fill may show
  Calls,         \* order calls, each used once
  Proposals,     \* proposal ids, each used once
  Commits,       \* commit requests of the surface, each used once
  Flattens,      \* choices of flatten_on_halt: a set of BOOLEAN
  Sentinels,     \* the HALT files people use: a subset of {"global", "broker"}
  Lifetimes,     \* mandate lifetimes in days the surface may ask for
  LedgerFails,   \* whether an append to the audit ledger may fail: a set of BOOLEAN
  MaxEvents      \* bound on the midnights, trips of the kill switch and crashes together

ASSUME GateAssumption ==
  /\ Calls \subseteq Nat /\ Proposals \subseteq Nat /\ Commits \subseteq Nat \ {0}
  /\ IsFiniteSet(Calls)
  /\ MaxEvents \in Nat
  /\ Sentinels \subseteq {"global", "broker"} /\ Prices \subseteq Nat \ {0} /\ Lifetimes \subseteq Int
  /\ LedgerFails \subseteq BOOLEAN /\ Flattens \subseteq BOOLEAN
  /\ \A i \in Intents : i.quantity \in Nat /\ i.notional \in Nat
  /\ \A t \in Templates : t.part \in Nat \ {0} /\ t.trades \in Nat
  /\ \A c \in CeilingSets : {c.funding, c.exposure, c.order, c.trades, c.leverage} \subseteq Int
  /\ \A a \in Adjustments : {a.order, a.trades, a.exposure, a.leverage} \subseteq Int

VARIABLES
  day,        \* the UTC calendar day
  proposal,   \* proposals/<id>.json: the open proposals
  mandate,    \* mandate.json: the mandate on file
  consent,    \* consent/<id>.json: consent records, one per committed mandate
  commit,     \* the commit requests
  halted,     \* HALT sentinels present: the global one, the broker's
  counter,    \* trade_counter.json
  call,       \* the order calls
  resting,    \* broker: orders accepted and not filled
  held,       \* broker: market value of the open positions
  ledger,     \* audit.jsonl: what was recorded about each call
  trips,      \* how often a sentinel was written (bounds the run)
  crashes,    \* how often the process died
  before      \* history: the calls that had ended when each call began

gateVars == <<day, proposal, mandate, consent, commit, halted, counter, call,
              resting, held, ledger, trips, crashes, before>>

Absent  == 0
NoLimit == -1
Minimum(a, b) == IF a <= b THEN a ELSE b
Larger(a, b)  == IF a >= b THEN a ELSE b

EventsLeft == day + trips + crashes < MaxEvents

NoProposal == [open |-> FALSE]
NoMandate  == [id |-> 0]
NoCommit   == [pc |-> "idle", spent |-> {}]
NewCall    == [pc |-> "new", sent |-> FALSE]
Refused == [pc |-> "done", sent |-> FALSE]

-----------------------------------------------------------------------------
(* Proposing: propose_mandate_profiles writes a menu of clamped profiles.  *)

\* _PROFILE_TEMPLATES clamped by _synthesize_profiles: order size is a fraction of the
\* funding, every limit is cut to its ceiling.  (The reauth bias is min(1, max(1, x)) = 1.)
Profile(c, t, flatten) ==
  LET funding == IF c.funding # NoLimit THEN c.funding ELSE Larger(c.exposure, 0)
      clip(x, cap) == IF cap = NoLimit THEN x ELSE Minimum(x, cap)
  IN  [ordinal |-> t.ordinal,
       order |-> clip(funding \div t.part, c.order),
       exposure |-> IF c.exposure # NoLimit THEN c.exposure ELSE funding,
       trades |-> clip(t.trades, c.trades),
       leverage |-> IF c.leverage = NoLimit THEN 0 ELSE c.leverage,
       instruments |-> IF c.instruments = {} THEN {"equity"} ELSE c.instruments,
       flatten |-> flatten]

\* ProposeMandateProfilesTool.execute and save_proposal: a fresh id, all profiles, and
\* the ceiling snapshot they were clamped to.
Propose(p, c, flatten) ==
  /\ proposal[p] = NoProposal /\ \A q \in Proposals : q < p => proposal[q] # NoProposal
  /\ proposal' = [proposal EXCEPT ![p] =
       [open |-> TRUE, ceilings |-> c, profiles |-> {Profile(c, t, flatten) : t \in Templates}]]
  /\ UNCHANGED <<day, mandate, consent, commit, halted, counter, call, resting, held,
                 ledger, trips, crashes, before>>

-----------------------------------------------------------------------------
(* Committing: the surface's commit_mandate, the only writer of a mandate. *)

\* _resolve_profile: an adjustment of a number may only lower it; a field that is not a
\* number on both sides (leverage "none", the instrument list) is replaced unchecked.
Narrows(f, a) ==
  /\ a.order # NoLimit => a.order <= f.order
  /\ a.trades # NoLimit => a.trades <= f.trades
  /\ a.exposure # NoLimit => a.exposure <= f.exposure
  /\ (a.leverage > 0 /\ f.leverage > 0) => a.leverage <= f.leverage

Adjusted(f, a) ==
  LET pick(new, old) == IF new = NoLimit THEN old ELSE new
  IN  [f EXCEPT !.order = pick(a.order, f.order), !.trades = pick(a.trades, f.trades),
                !.exposure = pick(a.exposure, f.exposure),
                !.leverage = pick(a.leverage, f.leverage),
                !.instruments = IF a.instruments = {} THEN f.instruments ELSE a.instruments]

\* _profile_fits_ceilings over _normalize_limits: order size, daily trades and leverage
\* are compared; the instrument lists are not numbers and are skipped.
FitsCeilings(f, c) ==
  /\ c.order # NoLimit => f.order <= c.order
  /\ c.trades # NoLimit => f.trades <= c.trades
  /\ (c.leverage > 0 /\ f.leverage > 0) => f.leverage <= c.leverage
  /\ c.leverage = 0 => f.leverage \in {0, 1}

\* _profile_to_hard_caps and _profile_to_universe.  No profile carries a funding of its
\* own, so the exposure limit is written as the account's funding; nor does one carry
\* asset classes, floors or exclusions, so those take their defaults.
HardCaps(f) ==
  LET exposure == IF f.exposure = 0 THEN f.order ELSE f.exposure
  IN  [order |-> f.order, exposure |-> exposure, funding |-> exposure, trades |-> f.trades,
       leverage |-> IF f.leverage = 0 THEN 1 ELSE f.leverage, instruments |-> f.instruments,
       classes |-> {"us_equity"}, excluded |-> {}, floors |-> FALSE]

\* commit_mandate up to its first write: every refusal, then the document.  The ceilings
\* checked are those the surface passes or the proposal's own, the halt policy is the one it
\* passes or the profile's.  spent is history: the requests that had returned by then.
CommitMandate(r, p, f, a, ref, life, flatten) ==
  /\ commit[r] = NoCommit /\ \A s \in Commits : s < r => commit[s] # NoCommit
  /\ proposal[p].open /\ f \in proposal[p].profiles /\ Narrows(f, a)
  /\ FitsCeilings(Adjusted(f, a), ref)
  /\ commit' = [commit EXCEPT ![r] =
       [pc |-> "mandate", proposal |-> p, spent |-> {s \in Commits : commit[s].pc = "done"},
        mandate |-> [id |-> r, shown |-> f, ceilings |-> proposal[p].ceilings,
                     caps |-> HardCaps(Adjusted(f, a)), expires |-> day + Larger(1, life),
                     flatten |-> flatten]]]
  /\ UNCHANGED <<day, proposal, mandate, consent, halted, counter, call, resting, held, ledger,
                 trips, crashes, before>>

CommitAt(r, pc) == commit[r].pc = pc

\* mandate.json is replaced by what was last written to its temporary file: the document
\* of r, or that of another request s in the same place, whose own replace then raises.
WriteMandate(r) ==
  /\ CommitAt(r, "mandate")
  /\ \E s \in {t \in Commits : CommitAt(t, "mandate")} :
       /\ mandate' = commit[s].mandate
       /\ commit' = [t \in Commits |-> IF t = r THEN [commit[r] EXCEPT !.pc = "consent"]
                                     ELSE IF t = s THEN [commit[s] EXCEPT !.pc = "failed"]
                                     ELSE commit[t]]
  /\ UNCHANGED <<day, proposal, consent, halted, counter, call, resting, held, ledger,
                 trips, crashes, before>>

\* The consent record, a file of its own, is written ...
WriteConsent(r) ==
  /\ CommitAt(r, "consent") /\ commit' = [commit EXCEPT ![r].pc = "invalidate"]
  /\ consent' = consent \cup {[mandate |-> r, proposal |-> commit[r].proposal]}
  /\ UNCHANGED <<day, proposal, mandate, halted, counter, call, resting, held, ledger,
                 trips, crashes, before>>

\* Mutant: the proposal is left where it is.
InvalidateProposalKept(r) ==
  /\ CommitAt(r, "invalidate") /\ commit' = [commit EXCEPT ![r].pc = "done"]
  /\ UNCHANGED <<day, proposal, mandate, consent, halted, counter, call, resting, held, ledger,
                 trips, crashes, before>>

\* ... and _invalidate_proposal deletes the proposal, if it still is there.
InvalidateProposal(r) ==
  /\ CommitAt(r, "invalidate") /\ commit' = [commit EXCEPT ![r].pc = "done"]
  /\ proposal' = [proposal EXCEPT ![commit[r].proposal].open = FALSE]
  /\ UNCHANGED <<day, mandate, consent, halted, counter, call, resting, held, ledger,
                 trips, crashes, before>>

\* Any of the three writes raises; what was written before it stays.
CommitRaises(r) ==
  /\ commit[r].pc \in {"mandate", "consent", "invalidate"}
  /\ commit' = [commit EXCEPT ![r].pc = "failed"]
  /\ UNCHANGED <<day, proposal, mandate, consent, halted, counter, call, resting, held, ledger,
                 trips, crashes, before>>

-----------------------------------------------------------------------------
(* The kill switch: two sentinel files, either of which halts the broker.  *)

halt_flag_set == halted # {}

\* trip_halt, by the CLI, the front end or a hand-written file; idempotent.
TripHalt(s) ==
  /\ EventsLeft
  /\ halted' = halted \cup {s} /\ trips' = trips + 1
  /\ UNCHANGED <<day, proposal, mandate, consent, commit, counter, call, resting, held,
                 ledger, crashes, before>>

\* clear_halt removes its own sentinel only.
ClearHalt(s) ==
  /\ s \in halted /\ halted' = halted \ {s}
  /\ UNCHANGED <<day, proposal, mandate, consent, commit, counter, call, resting, held,
                 ledger, trips, crashes, before>>

-----------------------------------------------------------------------------
(* The order gate: LiveOrderGuardTool.execute and execute_live_order.      *)

Ended  == {"done", "placed", "raised", "dead"}
Active == {k \in Calls : call[k].pc \notin Ended \cup {"new", "flying"}}

\* write_live_action appends one record ...
Recorded(k, kind) == [ledger EXCEPT ![k] = kind]

\* ... and _audit logs and forgets an append that fails.
Audit(k, kind) == \E fails \in LedgerFails : ledger' = IF fails THEN ledger ELSE Recorded(k, kind)

\* A refusal: recorded and returned; nothing of the call is left.
Refuse(k, kind) == call' = [call EXCEPT ![k] = Refused] /\ Audit(k, kind)

\* _deny: a check before the limits failed.
Deny(k) == Refuse(k, "rejected")

\* _deny_breach: check_mandate found a limit broken.
DenyBreach(k) == Refuse(k, "breach")

\* read_daily_count: yesterday's counter reads as nothing.
DailyCount == IF counter.date = day THEN counter.count ELSE 0

\* load_mandate: a file that is missing or does not parse reads as no mandate.
LoadMandate == mandate

\* _is_expired: at the very instant of expiry the mandate is over.
Expired(m) == day >= m.expires

\* Mutants: without the kill switch; without the expiry.
AdmittedHalted(i)  == LoadMandate # NoMandate /\ ~Expired(LoadMandate)
AdmittedExpired(i) == LoadMandate # NoMandate /\ ~halt_flag_set

\* The first block of the gate: mandate, expiry, halt, and (MCP tools only) an order the
\* broker's extractor understands.  All local reads, no waiting.
Admitted(i) ==
  /\ LoadMandate # NoMandate /\ ~Expired(LoadMandate)
  /\ ~halt_flag_set /\ (i.path = "mcp" => i.parsed)

EnterGate(k, i) ==
  /\ call[k].pc = "new" /\ \A j \in Calls : j < k => call[j].pc # "new"
  /\ IF Admitted(i)
     THEN /\ call' = [call EXCEPT ![k] =
               [pc |-> IF i.quantity = Absent THEN "positions" ELSE "quote", intent |-> i,
                mandate |-> LoadMandate, trips |-> trips, notional |-> i.notional,
                positions |-> NoLimit, account |-> 0, count |-> 0, today |-> day, sent |-> FALSE]]
          /\ UNCHANGED ledger
     ELSE Deny(k)
  /\ before' = [before EXCEPT ![k] = {j \in Calls : call[j].pc \in Ended}]
  /\ UNCHANGED <<day, proposal, mandate, consent, commit, halted, counter, resting, held,
                 trips, crashes>>

\* instrument_asset_class; an option belongs to no bucket.
AssetClass(i) ==
  CASE i.class # "default" -> i.class
    [] i.instrument = "equity" -> "us_equity"
    [] i.instrument = "etf" -> "us_etf"
    [] i.instrument = "crypto" -> "crypto"
    [] OTHER -> "none"

\* _parse_quote_price and _connector_quote_price: a positive price found in the broker's
\* answer, Absent when there is no quote tool, it fails or its answer shows none.
BrokerQuotes == Prices \cup {Absent}

\* last_price_usd: the last close of the first loader of the asset class, which the MCP
\* gate takes from the instrument alone; an order of no class has no loader.
LastPrices(i) ==
  LET bucket == AssetClass(IF i.path = "mcp" THEN [i EXCEPT !.class = "default"] ELSE i)
  IN  IF bucket = "none" THEN {Absent} ELSE Prices \cup {Absent}

\* _quote_price: the broker's price or, failing that, the loader's.
Quotes(i) == (BrokerQuotes \ {Absent}) \cup LastPrices(i)

\* _normalize_notional: an order in units takes the larger of its two sizes.
SizeAt(c, price) == Larger(c.notional, c.intent.quantity * price)

\* _normalize_intent_notional: an order nobody can price is refused.
PriceOrder(k) ==
  /\ call[k].pc = "quote"
  /\ \E price \in Quotes(call[k].intent) :
       IF price = Absent THEN Deny(k)
       ELSE /\ call' = [call EXCEPT ![k].pc = "positions", ![k].notional = SizeAt(call[k], price)]
            /\ UNCHANGED ledger
  /\ UNCHANGED <<day, proposal, mandate, consent, commit, halted, counter, resting, held,
                 trips, crashes, before>>

\* Mutant: an account that could not be read counts as empty.
PositionsSeenOptimistic == {held, 0}

\* The market value of the positions a read tool returned, or NoLimit when the answer
\* could not be made out.
PositionsSeen == {held, NoLimit}

\* _read_first: the first read tool of the broker that answers.  account is history: what
\* was held at that moment.
ReadPositions(k) ==
  /\ call[k].pc = "positions"
  /\ \E seen \in PositionsSeen :
       call' = [call EXCEPT ![k].pc = "check", ![k].positions = seen, ![k].account = held]
  /\ UNCHANGED <<day, proposal, mandate, consent, commit, halted, counter, resting, held,
                 ledger, trips, crashes, before>>

\* _resolve_order_notional: the size the gate stamped on the order; one that is missing or
\* not positive is Absent, and the order is refused.
ResolveOrderNotional(c) == IF c.notional > 0 THEN c.notional ELSE Absent

\* check_mandate's structural rules: the denylist, the instrument types, the universe.
\* The MCP gate rebuilds a priced intent without its asset class, the SDK gate keeps it.
StructuralBreach(k) ==
  LET c == call[k]
      i == IF c.intent.path = "mcp" /\ c.intent.quantity # Absent
           THEN [c.intent EXCEPT !.class = "default"] ELSE c.intent
      bucket == AssetClass(i)
  IN  \/ i.symbol \in c.mandate.caps.excluded
      \/ i.instrument \notin c.mandate.caps.instruments
      \/ bucket # "none" /\ bucket \notin c.mandate.caps.classes
      \/ ResolveOrderNotional(c) = Absent

\* check_mandate: max_order_notional_usd.
Oversized(k) == call[k].notional > call[k].mandate.caps.order

\* Mutant: the order under decision is not counted.
TradesSpentLate(k) == DailyCount > call[k].mandate.caps.trades

\* check_mandate: max_trades_per_day.
TradesSpent(k) == DailyCount + 1 > call[k].mandate.caps.trades

\* check_mandate's limits: order size, exposure after the trade, leverage, trades today,
\* funding.  A sale lowers the exposure and is never held to the funding.
QuantitativeBreach(k) ==
  LET c == call[k]
      caps == c.mandate.caps
      after == IF c.intent.side = "buy" THEN c.positions + c.notional
               ELSE c.positions - c.notional
      gross == IF after < 0 THEN -after ELSE after
  IN  \/ Oversized(k)
      \/ c.positions = NoLimit
      \/ after > caps.exposure
      \/ caps.funding <= 0
      \/ gross > caps.leverage * caps.funding
      \/ TradesSpent(k)
      \/ c.intent.side = "buy" /\ after > caps.funding

\* The decision: the counter is read and check_mandate runs.
Decide(k) ==
  /\ call[k].pc = "check"
  /\ IF StructuralBreach(k) \/ QuantitativeBreach(k)
     THEN DenyBreach(k)
     ELSE call' = [call EXCEPT ![k].pc = "place"] /\ UNCHANGED ledger
  /\ UNCHANGED <<day, proposal, mandate, consent, commit, halted, counter, resting, held,
                 trips, crashes, before>>

\* A failed forward is recorded as such and consumes no daily trade.
ForwardFails(k, taken) ==
  /\ call' = [call EXCEPT ![k] = IF taken THEN [@ EXCEPT !.sent = TRUE, !.pc = "done"] ELSE Refused]
  /\ Audit(k, "error")

\* The MCP gate takes only a stated error for one, the SDK gate takes everything but a
\* stated success for one.
CountsAsPlaced(path, answer) == answer = "ok" \/ (answer = "other" /\ path = "mcp")

\* _allow forwards the order.  The broker may take it or not, and the answer may be a
\* success, an error, or text without a status.
PlaceOrder(k) ==
  /\ call[k].pc = "place"
  /\ \E taken \in BOOLEAN, answer \in {"ok", "error", "other"} :
       /\ answer = "ok" => taken
       /\ resting' = IF taken THEN resting \cup {k} ELSE resting
       /\ IF CountsAsPlaced(call[k].intent.path, answer)
          THEN call' = [call EXCEPT ![k].sent = taken, ![k].pc = "count"] /\ UNCHANGED ledger
          ELSE ForwardFails(k, taken)
  /\ UNCHANGED <<day, proposal, mandate, consent, commit, halted, counter, held,
                 trips, crashes, before>>

\* increment_daily_count reads the file ...
CountRead(k) ==
  /\ call[k].pc = "count"
  /\ call' = [call EXCEPT ![k].pc = "counted", ![k].count = DailyCount + 1, ![k].today = day]
  /\ UNCHANGED <<day, proposal, mandate, consent, commit, halted, counter, resting, held,
                 ledger, trips, crashes, before>>

\* ... and replaces it by what was last written to its temporary file, the count of k or of
\* another call j in the same place, whose own replace then raises; the placement is recorded.
CountWrite(k) ==
  /\ call[k].pc = "counted"
  /\ \E j \in {i \in Calls : call[i].pc = "counted"} :
       /\ counter' = [date |-> call[j].today, count |-> call[j].count]
       /\ call' = [i \in Calls |-> IF i = k THEN [call[k] EXCEPT !.pc = "placed"]
                                 ELSE IF i = j THEN [call[j] EXCEPT !.pc = "raised"]
                                 ELSE call[i]]
  /\ Audit(k, "placed")
  /\ UNCHANGED <<day, proposal, mandate, consent, commit, halted, resting, held, trips,
                 crashes, before>>

\* The increment raises: the call ends with the exception, the order out and not recorded.
CountRaises(k) ==
  /\ call[k].pc \in {"count", "counted"} /\ call' = [call EXCEPT ![k].pc = "raised"]
  /\ UNCHANGED <<day, proposal, mandate, consent, commit, halted, counter, resting, held,
                 ledger, trips, crashes, before>>

-----------------------------------------------------------------------------
(* The surroundings: the broker fills orders, days pass, the process dies. *)

\* External: a resting order fills, for the amount asked or for its units at the price then.
Fill(k) ==
  /\ k \in resting /\ resting' = resting \ {k}
  /\ \E price \in Prices :
       LET size == IF call[k].intent.quantity = Absent THEN call[k].intent.notional
                   ELSE call[k].intent.quantity * price
       IN  held' = IF call[k].intent.side = "buy" THEN held + size ELSE held - size
  /\ UNCHANGED <<day, proposal, mandate, consent, commit, halted, counter, call, ledger,
                 trips, crashes, before>>

\* Midnight UTC.
NextDay ==
  /\ EventsLeft /\ day' = day + 1
  /\ UNCHANGED <<proposal, mandate, consent, commit, halted, counter, call, resting, held,
                 ledger, trips, crashes, before>>

\* The process dies: calls and commits in progress are lost, files and broker stay.  An
\* order being sent is lost or on its way.
Die ==
  /\ EventsLeft /\ crashes' = crashes + 1
  /\ \E F \in SUBSET {k \in Calls : call[k].pc = "place"} :
       call' = [k \in Calls |-> IF k \notin Active THEN call[k]
                              ELSE IF k \in F THEN [call[k] EXCEPT !.pc = "flying"]
                              ELSE IF call[k].sent THEN [call[k] EXCEPT !.pc = "dead"] ELSE Refused]
  /\ commit' = [r \in Commits |-> IF commit[r].pc \in {"mandate", "consent", "invalidate"}
                                  THEN [commit[r] EXCEPT !.pc = "failed"] ELSE commit[r]]
  /\ UNCHANGED <<day, proposal, mandate, consent, halted, counter, resting, held, ledger,
                 trips, before>>

\* External: the broker takes an order whose sender has died.
LandLate(k) ==
  /\ call[k].pc = "flying" /\ resting' = resting \cup {k}
  /\ call' = [call EXCEPT ![k].pc = "dead", ![k].sent = TRUE]
  /\ UNCHANGED <<day, proposal, mandate, consent, commit, halted, counter, held, ledger,
                 trips, crashes, before>>

GateInit ==
  /\ day = 0 /\ proposal = [p \in Proposals |-> NoProposal] /\ mandate = NoMandate
  /\ consent = {} /\ commit = [r \in Commits |-> NoCommit] /\ halted = {}
  /\ counter = [date |-> 0, count |-> 0] /\ call = [k \in Calls |-> NewCall]
  /\ resting = {} /\ held = 0 /\ ledger = [k \in Calls |-> "none"]
  /\ trips = 0 /\ crashes = 0 /\ before = [k \in Calls |-> {}]

Surface ==
  \/ \E p \in Proposals, c \in CeilingSets, flatten \in Flattens : Propose(p, c, flatten)
  \/ \E r \in Commits, p \in {q \in Proposals : proposal[q].open}, a \in Adjustments,
        ref \in CeilingSets, life \in Lifetimes, flatten \in Flattens :
       \E f \in proposal[p].profiles : CommitMandate(r, p, f, a, ref, life, flatten)
  \/ \E r \in Commits : WriteMandate(r) \/ WriteConsent(r) \/ InvalidateProposal(r)
                       \/ CommitRaises(r)
  \/ \E s \in Sentinels : TripHalt(s) \/ ClearHalt(s)

Order(k) ==
  \/ PriceOrder(k) \/ ReadPositions(k) \/ Decide(k) \/ PlaceOrder(k)
  \/ CountRead(k) \/ CountWrite(k) \/ CountRaises(k)

GateNext ==
  \/ Surface \/ NextDay \/ Die
  \/ \E k \in Calls : \/ \E i \in Intents : EnterGate(k, i)
                      \/ Order(k) \/ Fill(k) \/ LandLate(k)

Spec == GateInit /\ [][GateNext]_gateVars

-----------------------------------------------------------------------------
(* Properties *)

Sent == {k \in Calls : call[k].sent}
ConfirmedToday == {k \in Calls : call[k].pc = "placed" /\ call[k].today = day}

\* Calls that had nothing to do with one another: one had ended before the other began.
Apart(j, k) == j \in before[k] \/ k \in before[j]

\* A call no other call overlapped.
Alone(k) == \A j \in Calls \ {k} : call[j].pc = "new" \/ Apart(j, k)

\* Today's confirmed placements of such calls.
SolitaryToday == {k \in ConfirmedToday : Alone(k)}

\* The calls that ended with an increment they began today, written or not.
CountedToday == {k \in Calls : /\ call[k].pc \in {"placed", "raised"}
                               /\ call[k].count > 0 /\ call[k].today = day}

\* From the proposal to the broker: an order the broker took is of a size within the profile
\* the user was shown and within the ceilings that profile was cut to, and so are its
\* mandate's trades a day and exposure - whatever was adjusted, committed again or expired.
\* (Instruments and leverage are not: see MandatesNarrow.)
OrdersWithinTheProfile ==
  \A k \in Sent : LET m == call[k].mandate IN
    /\ call[k].notional > 0 /\ call[k].notional <= m.shown.order
    /\ m.ceilings.order # NoLimit => call[k].notional <= m.ceilings.order
    /\ m.caps.trades <= m.shown.trades /\ m.caps.exposure <= Larger(m.shown.exposure, m.shown.order)

\* The kill switch's window: an order that reaches the broker while a sentinel stands was
\* admitted before that sentinel was written; no call that starts after it gets through.
KillSwitchWindow ==
  [][\A k \in Calls : (~call[k].sent /\ call'[k].sent /\ halt_flag_set) => call[k].trips < trips]_gateVars

\* trade_counter.json against the orders: it never holds more than the increments of today's
\* calls that ended, and it holds at least the confirmed placements no other call overlapped - whatever
\* increments are lost, raise, or come late from calls that did overlap.
CounterAccounts ==
  /\ DailyCount <= Cardinality(CountedToday)
  /\ Cardinality(SolitaryToday) <= DailyCount

\* max_trades_per_day, as far as the code keeps it: a placement confirmed today and the
\* earlier ones no other call overlapped are within the daily cap it was decided under, over
\* midnights, new mandates and crashes.  Calls that overlap may exceed it together, and an
\* order whose increment raised is not counted (see TradesPerDayAreCapped).
DailyCapHolds ==
  \A k \in ConfirmedToday :
    Cardinality(SolitaryToday \cap before[k]) + 1 <= call[k].mandate.caps.trades

\* What the user agreed to bounds what the broker gets: size and number of trades
\* (order_guard.py, execute; enforcement.py, check_mandate; daily_count.py).
LimitsHold == OrdersWithinTheProfile /\ CounterAccounts /\ DailyCapHolds

\* max_total_exposure_usd and max_leverage: a purchase that fills at no more than the size it
\* was checked at takes the positions over its mandate's caps by no more than what other
\* orders added between its reading of the account and its fill.
ExposureWithinCaps ==
  [][\A k \in resting \ resting' : LET c == call[k] IN
       (c.intent.side = "buy" /\ held' - held <= c.notional) =>
         /\ held' <= c.mandate.caps.exposure + (held - c.account)
         /\ held' <= c.mandate.caps.leverage * c.mandate.caps.funding + (held - c.account)]_gateVars

\* An order's mandate is the document of one commit request of the user's, and a request
\* that returned has its consent record.  (One that raised or died may have none: see
\* OrdersTraceToConsent.)
OrdersTraceToCommits ==
  \A k \in Sent : LET r == call[k].mandate.id IN
    /\ commit[r] # NoCommit /\ commit[r].mandate = call[k].mandate
    /\ CommitAt(r, "done") => \E c \in consent : c.mandate = r /\ c.proposal = commit[r].proposal

\* Once its call has returned, an order that came to rest or filled is on the ledger, as
\* placed or as failed, and the ledger calls no order rejected or in breach that was sent -
\* unless appends fail.  (A call that raised returned nothing: see LedgerIsComplete.)
SentIsRecorded ==
  LedgerFails = {FALSE} =>
    \A k \in Calls : call[k].pc \in {"done", "placed"} =>
      (call[k].sent => ledger[k] \in {"error", "placed"})

\* A commit that begins after another has returned finds that one's proposal gone; requests
\* that overlap may both commit it (see ProposalsAreOneShot).
ProposalsAreSpent ==
  \A r \in Commits : \A s \in commit[r].spent : commit[s].proposal # commit[r].proposal

\* Every order can be answered for: by a commit request, by the ledger, and by a proposal
\* that was spent with it (commit.py, commit_mandate; order_guard.py, _audit).
OrdersAreAccountable == OrdersTraceToCommits /\ SentIsRecorded /\ ProposalsAreSpent

\* No order reaches the broker but within the limits the user agreed to, and none that
\* could not be answered for afterwards.
OrdersAreJustified == LimitsHold /\ OrdersAreAccountable

(* What the documentation says and the code does not keep. *)

\* commit.py, commit_mandate: the proposal can never be committed again.
ProposalsAreOneShot ==
  \A p \in Proposals : Cardinality({c \in consent : c.proposal = p}) <= 1

\* audit.py: every live order is traceable to the user's click.  Once no commit is under way,
\* an order's mandate has its consent record.
OrdersTraceToConsent ==
  (\A r \in Commits : commit[r].pc \in {"idle", "done", "failed"}) =>
    \A k \in Sent : \E c \in consent : c.mandate = call[k].mandate.id

\* audit.py: every order placed appends one record.  A call that has ended without its
\* process dying leaves no order unrecorded.
LedgerIsComplete ==
  \A k \in Sent : call[k].pc \in Ended \ {"dead"} => ledger[k] # "none"

\* model.py, HardCaps: placements a day are held to the mandate's count.
TradesPerDayAreCapped ==
  \A k \in ConfirmedToday :
    Cardinality({j \in ConfirmedToday : call[j].mandate = call[k].mandate})
      <= call[k].mandate.caps.trades

\* commit.py, _resolve_profile: adjustments may only narrow what the user was shown.
MandatesNarrow ==
  mandate # NoMandate =>
    /\ mandate.caps.instruments \subseteq mandate.shown.instruments
    /\ mandate.caps.leverage <= Larger(1, mandate.shown.leverage)

\* What the files and the broker's book show of the mandate and of each order call.
AuthorityShown ==
  IF mandate = NoMandate THEN "none" ELSE IF day < mandate.expires THEN "live" ELSE "expired"
OrderShown == [k \in Calls |->
  IF call[k].sent THEN IF k \in resting THEN "resting" ELSE "filled"
  ELSE IF call[k].pc = "new" THEN "new" ELSE IF call[k].pc \in Ended THEN "over" ELSE "admitted"]

\* The gate keeps its contract: seen through the files and the broker's book alone, orders
\* are admitted, land and fill exactly as GateContract allows.
Contract == INSTANCE GateContract WITH authority <- AuthorityShown, order <- OrderShown
ImplementsContract == Contract!ContractSpec
=============================================================================

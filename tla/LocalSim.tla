------------------------------ MODULE LocalSim ------------------------------
(***************************************************************************)
(* The order service and the simulated broker, called one operation at a   *)
(* time by any client.                                                     *)
(*                                                                         *)
(* Every operation of the order service and of the broker is one           *)
(* transaction on the book, except that process_quote, whose loop visits   *)
(* the selected orders in whatever order the database returns them, is one *)
(* transaction of several steps: scan holds the orders it has still to     *)
(* visit, and no other operation runs until the loop ends.                 *)
(***************************************************************************)
EXTENDS SimBroker

CONSTANTS
    Intents,     \* the order intents callers submit
    Quotes       \* the quotes the market shows

ASSUME InputAssumption ==
    /\ Intents \subseteq OrderIntents
    /\ Quotes \subseteq MarketQuotes

VARIABLES
    book,        \* the committed tables
    scan         \* the process_quote loop: [quote, todo]

vars == <<book, scan>>

-----------------------------------------------------------------------------
(* The specification. *)

NoScan == [quote |-> [symbol |-> 1, last |-> 1, bid |-> 0, ask |-> 0], todo |-> {}]

Idle == scan.todo = {}

Init ==
    /\ book = EmptyBook
    /\ scan = NoScan

(* create_order_from_intent: a row with the same key is returned as it is.  *)
(* Rows take the ids in turn.                                               *)
Create(i) ==
    /\ Idle
    /\ ExistingOrders(book, i) = {}
    /\ \E o \in OrderIds \ Created(book) :
         /\ \A p \in 1..o-1 : p \in Created(book)
         /\ book' = CreateOrder(book, o, i)
    /\ UNCHANGED scan

(* run_risk_check, on an order that has just been created. *)
RiskCheck(o, q, open) ==
    /\ Idle
    /\ book.status[o] = "CREATED"
    /\ book' = RunRiskCheck(book, o, q, open)
    /\ UNCHANGED scan

(* submit_order: any other status is refused and nothing changes. *)
Submit(o, q) ==
    /\ Idle
    /\ book.status[o] = "RISK_APPROVED"
    /\ book' = SubmitOrder(book, o, q)
    /\ UNCHANGED scan

(* process_quote selects the orders ... *)
ProcessQuote(q) ==
    /\ Idle
    /\ scan' = [quote |-> q,
                todo |-> {o \in OrderIds : /\ book.status[o] = "SUBMITTED"
                                           /\ book.intent[o].symbol = q.symbol}]
    /\ scan'.todo # {}
    /\ UNCHANGED book

(* ... and visits each of them. *)
MatchNext(o) ==
    /\ o \in scan.todo
    /\ scan' = IF scan.todo = {o} THEN NoScan ELSE [scan EXCEPT !.todo = @ \ {o}]
    /\ LET price == FillPrice(book.intent[o], scan.quote)
       IN  book' = IF price = 0 THEN book ELSE ApplyFill(book, o, price)

(* cancel_order: any other status is refused and nothing changes. *)
Cancel(o) ==
    /\ Idle
    /\ book.status[o] = "SUBMITTED"
    /\ book' = CancelOrder(book, o)
    /\ UNCHANGED scan

(* Time passes: the oldest order leaves the cooldown window ... *)
CooldownElapses(o) ==
    /\ Idle
    /\ o \in book.fresh /\ \A p \in book.fresh : o <= p
    /\ book' = [book EXCEPT !.fresh = @ \ {o}]
    /\ UNCHANGED scan

(* ... or the UTC day ends. *)
NewDay ==
    /\ Idle
    /\ book.today # {}
    /\ book' = [book EXCEPT !.today = {}]
    /\ UNCHANGED scan

Next ==
    \/ \E i \in Intents : Create(i)
    \/ \E o \in OrderIds, q \in Quotes, open \in BOOLEAN : RiskCheck(o, q, open)
    \/ \E o \in OrderIds, q \in Quotes : Submit(o, q)
    \/ \E q \in Quotes : ProcessQuote(q)
    \/ \E o \in OrderIds : MatchNext(o)
    \/ \E o \in OrderIds : Cancel(o)
    \/ \E o \in OrderIds : CooldownElapses(o)
    \/ NewDay

Spec == Init /\ [][Next]_vars

-----------------------------------------------------------------------------
(* What the book must satisfy between the operations. *)

(* Every row has the columns of its table: statuses are those of the enum,  *)
(* a created order keeps an intent it was given, the loop of process_quote  *)
(* runs over existing rows.                                                 *)
TypeOK ==
    /\ book \in Books
    /\ \A o \in OrderIds : book.status[o] # NoRow => book.intent[o] \in Intents
    /\ scan \in [quote : Quotes \cup {NoScan.quote}, todo : SUBSET OrderIds]

(* cash_frozen is exactly what the waiting buy orders reserved: every       *)
(* reservation is released once, by the fill or by the cancellation, and    *)
(* with the amount it was made with.                                        *)
FrozenBacksOpenBuys == book.frozen = SumTo(HeldCash(book), MaxOrders)

(* Reservations protect the account: no sequence of submissions, fills and  *)
(* cancellations spends cash it does not have.                              *)
NoOverdraft == book.cash >= 0 /\ book.frozen >= 0

(* available_quantity is the position less what waiting sell orders hold,   *)
(* and no share is promised twice.                                          *)
SharesAccounted ==
    \A s \in Symbols :
        /\ book.qty[s] = book.avail[s] + SumTo(HeldShares(book, s), MaxOrders)
        /\ book.avail[s] >= 0

(* The cash_ledger rows replay to the account's cash, and the latest row's  *)
(* fills belong to filled orders only, one each.                            *)
LedgerReplays ==
    /\ book.cash + book.frozen = InitCash + SumTo(Booked(book), MaxOrders)
    /\ \A o \in OrderIds :
         Len(book.fills[o]) = IF book.status[o] = "FILLED" THEN 1 ELSE 0

(* Profit is neither made nor lost by the bookkeeping: what the account     *)
(* holds, with positions at cost, is the seed plus the realized profit.     *)
PnlConserved ==
    book.cash + book.frozen + SumTo(book.basis, NSymbols)
        = InitCash + NSymbols * InitCost + book.realized

(* equity, which is refreshed only by fills, is never stale: reservations   *)
(* and cancellations do not change it.                                      *)
EquityIsCurrent ==
    book.equity = book.cash + book.frozen + SumTo(book.mval, NSymbols)

(* Downstream modules learn of every outcome and of nothing else: the       *)
(* outbox names an order filled or cancelled exactly when it is.            *)
OutboxAgrees ==
    \A o \in OrderIds :
        /\ <<"ORDER_FILLED", o>> \in book.outbox <=> book.status[o] = "FILLED"
        /\ <<"ORDER_CANCELLED", o>> \in book.outbox <=> book.status[o] = "CANCELLED"
        /\ book.status[o] \in {"SUBMITTED", "FILLED", "CANCELLED"}
             => <<"ORDER_READY_TO_SUBMIT", o>> \in book.outbox

(* The books balance after every call: shares, cash, profit and equity all  *)
(* agree with the orders, the ledger and the outbox (broker/local_sim.py).  *)
BooksBalance ==
    SharesAccounted /\ LedgerReplays /\ PnlConserved /\ EquityIsCurrent /\ OutboxAgrees

(* The duplicate rule holds over time: two orders of one symbol and side    *)
(* are never both past the risk check and unfinished.                       *)
NoDuplicateExposure ==
    \A o, p \in OrderIds :
        /\ o # p
        /\ book.status[o] \in {"RISK_APPROVED", "SUBMITTED"}
        /\ book.status[p] \in {"RISK_APPROVED", "SUBMITTED"}
        => \/ book.intent[o].symbol # book.intent[p].symbol
           \/ book.intent[o].side # book.intent[p].side

(* The daily rule holds over time: of the orders created today, at most     *)
(* MaxDailyOrders ever passed the risk check.                               *)
DailyCapHolds ==
    Cardinality({o \in book.today :
                    book.status[o] \notin {"CREATED", "RISK_REJECTED"}})
        <= MaxDailyOrders

(* What RiskEngine.check compares against the tables once stays true of     *)
(* them later, whatever is submitted, filled or cancelled in between.       *)
RiskRulesHold == NoDuplicateExposure /\ DailyCapHolds

(* Every handler moves orders along the state machine only: the audit       *)
(* trails implement the abstract life cycle.                                *)
Lifecycle == INSTANCE OrderLifecycle WITH trail <- book.audit, Ids <- OrderIds

LifecycleSpec == Lifecycle!Spec
=============================================================================

---------------------------- MODULE TradeExecutor ----------------------------
(***************************************************************************)
(* harness/trade_executor.py over the simulated broker: every execution    *)
(* of an approved proposal is one database transaction that creates the    *)
(* order, checks it, submits it and submits its bracket orders, and        *)
(* executions run in the worker threads of web/app.py.                     *)
(*                                                                         *)
(* The session (storage/session.py) neither locks nor versions the rows it *)
(* reads.  A transaction reads the snapshot its first query opens and      *)
(* writes the whole value of every row it changed.  The rows it inserts    *)
(* into orders reference the accounts row, which InnoDB read-locks for     *)
(* them until the transaction ends; writing the accounts row waits for the *)
(* read locks of others, and of two transactions that wait for each other  *)
(* the database aborts one.                                                *)
(***************************************************************************)
EXTENDS SimBroker

CONSTANTS
    Proposals,   \* the proposals the user may approve
    Jobs,        \* bound: executions ever started are 1..Jobs
    Workers      \* executions that may run at the same time

ASSUME ExecutorAssumption ==
    /\ Jobs \in Nat
    /\ 3 * Jobs <= MaxOrders
    /\ Workers \in Nat \ {0}
    /\ Proposals \subseteq [symbol : Symbols, side : OrderSide, qty : Nat \ {0},
                            limit : Nat, tp : Nat, sl : Nat]

VARIABLES
    tables,      \* the committed tables
    tx,          \* tx[j]: the transaction of execution j
    alone        \* history: no two executions have been open together so far

executorVars == <<tables, tx, alone>>

JobIds == 1..Jobs

(* The rows of execution j: the order, its take-profit and its stop-loss. *)
MainOrder(j)  == 3 * j - 2
TakeProfit(j) == 3 * j - 1
StopLoss(j)   == 3 * j
OrdersOf(j)   == {MainOrder(j), TakeProfit(j), StopLoss(j)}

(* The quote the executor builds from one price. *)
QuoteAt(symbol, price) == [symbol |-> symbol, last |-> price, bid |-> price, ask |-> price]

(* The intent of the order itself.  A new signal is made for every call, so *)
(* the idempotency key never repeats between executions.                    *)
MainIntent(j, p) ==
    [symbol |-> p.symbol, side |-> p.side,
     type |-> IF p.limit = 0 THEN "MARKET" ELSE "LIMIT",
     qty |-> p.qty, limit |-> p.limit, signal |-> j]

BracketIntent(j, p, type, trigger) ==
    [symbol |-> p.symbol, side |-> "SELL", type |-> type, qty |-> p.qty,
     limit |-> trigger, signal |-> j]

(* _submit_bracket_order: approved without a risk check, and offered to the *)
(* broker at its own trigger price.  The result is not looked at.           *)
SubmitBracketOrder(b, o, i) ==
    LET approved == TransitionOrder(CreateOrder(b, o, i), o, "RISK_APPROVED")
    IN  SubmitOrder(approved, o, QuoteAt(i.symbol, i.limit))

(* Both bracket orders have one idempotency key: create_order_from_intent   *)
(* returns the first for the second, whose approval then raises.            *)
BracketsCollide(p) == p.side = "BUY" /\ p.tp # 0 /\ p.tp = p.sl

(* _do_execute after the order was accepted. *)
SubmitBrackets(b, j, p) ==
    LET first  == IF p.tp = 0 THEN b
                  ELSE SubmitBracketOrder(b, TakeProfit(j),
                                          BracketIntent(j, p, "LIMIT_IF_TOUCHED", p.tp))
        second == IF p.sl = 0 THEN first
                  ELSE SubmitBracketOrder(first, StopLoss(j),
                                          BracketIntent(j, p, "STOP_LIMIT", p.sl))
    IN  IF p.side = "BUY" THEN second ELSE b

(* session.commit: the rows execution j inserted, and the values it last    *)
(* gave to the accounts row and to the positions row of its symbol.         *)
Commit(b, w, j, s) ==
    LET own(f, g) == [o \in OrderIds |-> IF o \in OrdersOf(j) THEN g[o] ELSE f[o]]
        rows      == {o \in OrdersOf(j) : w.status[o] # NoRow}
    IN  [b EXCEPT !.intent = own(@, w.intent),
                  !.status = own(@, w.status),
                  !.audit = own(@, w.audit),
                  !.fills = own(@, w.fills),
                  !.outbox = @ \cup w.outbox,
                  !.fresh = @ \cup rows,
                  !.today = @ \cup rows,
                  !.cash = w.cash,
                  !.frozen = w.frozen,
                  !.realized = w.realized,
                  !.equity = w.equity,
                  !.qty[s] = w.qty[s],
                  !.avail[s] = w.avail[s],
                  !.basis[s] = w.basis[s],
                  !.mval[s] = w.mval[s]]

-----------------------------------------------------------------------------
(* The specification. *)

NoProposal == [symbol |-> 1, side |-> "BUY", qty |-> 1, limit |-> 0, tp |-> 0, sl |-> 0]

NoTx == [phase |-> "waiting", proposal |-> NoProposal, work |-> EmptyBook]

ExecutorInit ==
    /\ tables = EmptyBook
    /\ tx = [j \in JobIds |-> NoTx]
    /\ alone = TRUE

Active(j) == tx[j].phase \in {"reading", "inserted"}

(* The end of a transaction; its session is closed. *)
Ended(j, outcome) ==
    tx' = [tx EXCEPT ![j] = [phase |-> outcome, proposal |-> @.proposal, work |-> EmptyBook]]

(* execute: a worker opens the session; _find_existing_order, which finds   *)
(* nothing under the new trace id, opens the snapshot.                      *)
Begin(j, p) ==
    /\ tx[j].phase = "waiting"
    /\ \A k \in 1..j-1 : tx[k].phase # "waiting"
    /\ Cardinality({k \in JobIds : Active(k)}) < Workers
    /\ tx' = [tx EXCEPT ![j] = [phase |-> "reading", proposal |-> p, work |-> tables]]
    /\ alone' = (alone /\ \A k \in JobIds : ~Active(k))
    /\ UNCHANGED tables

(* The order is created and checked on the snapshot, at the clock of now. *)
Checked(j) ==
    LET p    == tx[j].proposal
        seen == [tx[j].work EXCEPT !.fresh = @ \cap tables.fresh]
        made == CreateOrder(seen, MainOrder(j), MainIntent(j, p))
    IN  RunRiskCheck(made, MainOrder(j), QuoteAt(p.symbol, p.limit), TRUE)

Approved(j) == Checked(j).status[MainOrder(j)] = "RISK_APPROVED"

(* No price makes no quote, and an order that is not approved raises. *)
CanInsert(j) == tx[j].proposal.limit # 0 /\ Approved(j)

(* run_risk_check's flush inserts the approved order ... *)
Insert(j) ==
    /\ tx[j].phase = "reading"
    /\ CanInsert(j)
    /\ tx' = [tx EXCEPT ![j].phase = "inserted", ![j].work = Checked(j)]
    /\ UNCHANGED <<tables, alone>>

(* Mutant: the exception leaves the session open. *)
RefuseOpen(j) ==
    /\ tx[j].phase = "reading"
    /\ ~CanInsert(j)
    /\ tx' = [tx EXCEPT ![j].work = tables]
    /\ UNCHANGED <<tables, alone>>

(* ... a refused one is rolled back. *)
Refuse(j) ==
    /\ tx[j].phase = "reading"
    /\ ~CanInsert(j)
    /\ Ended(j, "failed")
    /\ UNCHANGED <<tables, alone>>

(* Another transaction read-locks the accounts row. *)
Blocked(j) == \E k \in JobIds \ {j} : tx[k].phase = "inserted"

(* The broker accepts and the brackets do not raise. *)
Completes(j) ==
    LET p == tx[j].proposal
    IN  Accepts(tx[j].work, MainOrder(j), QuoteAt(p.symbol, p.limit)) /\ ~BracketsCollide(p)

MayFinish(j) == tx[j].phase = "inserted" /\ ~Blocked(j) /\ Completes(j)

(* The order and its brackets are submitted, and the session commits. *)
Finish(j) ==
    /\ MayFinish(j)
    /\ LET p == tx[j].proposal
       IN  \E sent \in {SubmitOrder(tx[j].work, MainOrder(j), QuoteAt(p.symbol, p.limit))} :
             \E w \in {SubmitBrackets(sent, j, p)} : tables' = Commit(tables, w, j, p.symbol)
    /\ Ended(j, "done")
    /\ UNCHANGED alone

(* The broker refuses, a bracket raises, or the database chooses this       *)
(* transaction to end a wait: everything is rolled back.                    *)
Abort(j) ==
    /\ tx[j].phase = "inserted"
    /\ Blocked(j) \/ ~Completes(j)
    /\ Ended(j, "failed")
    /\ UNCHANGED <<tables, alone>>

(* The cooldown of the oldest order ends. *)
CooldownEnds(o) ==
    /\ o \in tables.fresh /\ \A p \in tables.fresh : o <= p
    /\ tables' = [tables EXCEPT !.fresh = @ \ {o}]
    /\ UNCHANGED <<tx, alone>>

ExecutorNext ==
    \/ \E j \in JobIds, p \in Proposals : Begin(j, p)
    \/ \E j \in JobIds : Insert(j)
    \/ \E j \in JobIds : Refuse(j)
    \/ \E j \in JobIds : Finish(j)
    \/ \E j \in JobIds : Abort(j)
    \/ \E o \in OrderIds : CooldownEnds(o)

(* A worker thread that has a session goes on with it, and the database     *)
(* ends every wait.  The second conjunct is weak fairness of Finish with    *)
(* its guard written out, which spares TLC the search for a successor.      *)
Fairness ==
    \A j \in JobIds :
        /\ WF_executorVars(Insert(j) \/ Refuse(j) \/ Abort(j))
        /\ []<>~MayFinish(j) \/ []<><<Finish(j)>>_executorVars

ExecutorSpec == ExecutorInit /\ [][ExecutorNext]_executorVars /\ Fairness

-----------------------------------------------------------------------------
(* What executions guarantee. *)

(* The cash_ledger rows add up to the account's cash: no execution's        *)
(* payment is overwritten by another's.                                     *)
LedgerAddsUp == tables.cash + tables.frozen = InitCash + SumTo(Booked(tables), MaxOrders)

(* Executions spend only cash the account has, brackets included. *)
NothingOverdrawn == tables.cash >= 0 /\ tables.frozen = 0

(* Within the cooldown no two executions of one symbol and side both get an *)
(* order through the risk check.                                            *)
CooldownRespected ==
    \A j, k \in JobIds :
        /\ j # k
        /\ {MainOrder(j), MainOrder(k)} \subseteq tables.fresh
        => \/ tx[j].proposal.symbol # tx[k].proposal.symbol
           \/ tx[j].proposal.side # tx[k].proposal.side

(* available_quantity is what of the position is not frozen, so it never    *)
(* exceeds the position; a bracket order, which reserves nothing and fills  *)
(* at once, breaks this.                                                    *)
AvailableWithinPosition ==
    (\A j \in JobIds : {tables.status[TakeProfit(j)], tables.status[StopLoss(j)]} = {NoRow})
    => \A s \in Symbols : tables.avail[s] \in 0..tables.qty[s]

(* balance_after of the last ledger row an execution writes is the cash it  *)
(* leaves in the account, whatever runs beside it.                          *)
BalanceAfterIsCash ==
    [][\A j \in JobIds :
         tx[j].phase = "inserted" /\ tx'[j].phase = "done"
         => \E o \in OrdersOf(j) :
              Len(tables'.fills[o]) = 1 /\ tables'.fills[o][1].balance = tables'.cash]_executorVars

(* Every execution that was started ends, also when executions wait for     *)
(* each other's locks.                                                      *)
ExecutionsEnd == \A j \in JobIds : Active(j) ~> tx[j].phase \in {"done", "failed"}

(* Orders follow the state machine, whichever executions overlap. *)
OrderLife == INSTANCE OrderLifecycle WITH trail <- tables.audit, Ids <- OrderIds

(* OrderLifecycle moves one order at a time; an execution commits three. *)
LegalTrails ==
    \A o \in OrderIds : \A n \in DOMAIN tables.audit[o] : OrderLife!LegalEntry(tables.audit[o], n)

(* However executions overlap, each row they commit is consistent in        *)
(* itself: its trail is legal and, brackets aside, no position offers more  *)
(* than it holds.  Executions that never overlapped also leave the books a  *)
(* cashier would: the ledger adds up to the cash, nothing is overdrawn, and *)
(* the cooldown kept equal orders apart (trade_executor.py, execute).       *)
CommittedBooks ==
    /\ LegalTrails /\ AvailableWithinPosition
    /\ alone => LedgerAddsUp /\ NothingOverdrawn /\ CooldownRespected
=============================================================================

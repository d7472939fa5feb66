----------------------------- MODULE Longbridge -----------------------------
(***************************************************************************)
(* broker/longbridge/adapter.py under harness/trade_executor.py: orders    *)
(* that live at an outside exchange.  An execution submits its legs (the   *)
(* order, then its bracket orders) to the exchange inside one database     *)
(* transaction, which is invisible to others until it commits; the         *)
(* exchange reports every change of an order by a push, which a callback   *)
(* thread handles in a transaction of its own; a caller may ask to cancel. *)
(*                                                                         *)
(* The exchange and the connection to it are external: a request may be    *)
(* processed although its caller timed out, pushes arrive in order but may *)
(* be lost.                                                                *)
(***************************************************************************)
EXTENDS Integers, Sequences, FiniteSets, OrderStates

CONSTANTS
    Configs,     \* the values of LongbridgeBrokerConfig to check
    Execs,       \* bound: the executions ever started
    MaxLegs,     \* orders of one execution, at most: 1 + two brackets
    Traded,      \* bound: the orders the exchange trades once it has them
    Cancels,     \* the orders callers may ask to cancel
    Lossy,       \* the push connection may lose messages
    Prefixed     \* the SDK prints a status with the name of its enum class

ASSUME LongbridgeAssumption ==
    /\ Configs \subseteq [mode : {"paper", "live"}, submission : BOOLEAN, live : BOOLEAN]
    /\ MaxLegs \in 1..3
    /\ Traded \subseteq Execs \X (1..MaxLegs)
    /\ Cancels \subseteq Execs \X (1..MaxLegs)
    /\ Lossy \in BOOLEAN
    /\ Prefixed \in BOOLEAN

VARIABLES
    switches,    \* LongbridgeBrokerConfig
    rows,        \* rows[o]: the committed order row
    run,         \* run[e]: the execution and its uncommitted rows
    ex,          \* ex[o]: the order at the exchange
    reply,       \* reply[o]: the exchange's answer to the submission
    pushes,      \* pushes on their way, oldest first
    events,      \* pushes saved as broker_events
    outbox,      \* outbox_events
    missed,      \* orders of which a push found no row or was lost
    cancel       \* cancel[o]: the cancellation call

vars == <<switches, rows, run, ex, reply, pushes, events, outbox, missed, cancel>>

Orders == Execs \X (1..MaxLegs)

(* An order row; known is whether broker_order_id is set. *)
NoOrder == [status |-> NoRow, known |-> FALSE, audit |-> << >>]

(* transition_order on a row. *)
Moved(row, to) == [row EXCEPT !.status = to, !.audit = Append(@, to)]

(* A row that is created, approved and about to be sent. *)
Submitting ==
    [status |-> "SUBMITTING", known |-> FALSE,
     audit |-> <<"CREATED", "RISK_APPROVED", "SUBMITTING">>]

(* _submission_safety_error is None. *)
SubmissionAllowed(c) == c.submission /\ (c.mode = "live" => c.live)

(* The exchange's statuses the pushes of an order go through. *)
PushStatus == {"WaitToNew", "New", "PartialFilled", "Filled", "WaitToCancel",
               "Canceled", "Rejected", "Expired"}

(* Mutant: FILLED stands before PARTIALFILLED in the mapping. *)
MapOrderStatusFilledFirst(s) ==
    CASE s = "WaitToNew"     -> IF Prefixed THEN "SUBMITTED" ELSE "SUBMITTING"
      [] s = "New"           -> "SUBMITTED"
      [] s = "PartialFilled" -> IF Prefixed THEN "FILLED" ELSE "PARTIALLY_FILLED"
      [] s = "Filled"        -> "FILLED"
      [] s = "WaitToCancel"  -> "CANCEL_PENDING"
      [] s = "Canceled"      -> "CANCELLED"
      [] s = "Rejected"      -> "FAILED"
      [] s = "Expired"       -> "CANCELLED"

(* Mutant: an expired order is not a cancelled one. *)
MapOrderStatusNoExpiry(s) ==
    CASE s = "WaitToNew"     -> IF Prefixed THEN "SUBMITTED" ELSE "SUBMITTING"
      [] s = "New"           -> "SUBMITTED"
      [] s = "PartialFilled" -> "PARTIALLY_FILLED"
      [] s = "Filled"        -> "FILLED"
      [] s = "WaitToCancel"  -> "CANCEL_PENDING"
      [] s = "Canceled"      -> "CANCELLED"
      [] s = "Rejected"      -> "FAILED"
      [] s = "Expired"       -> "SUBMITTED"

(* _map_order_status.  A text with the class name in front has no direct    *)
(* match and takes the first key it ends with: NEW for WaitToNew.           *)
MapOrderStatus(s) ==
    CASE s = "WaitToNew"     -> IF Prefixed THEN "SUBMITTED" ELSE "SUBMITTING"
      [] s = "New"           -> "SUBMITTED"
      [] s = "PartialFilled" -> "PARTIALLY_FILLED"
      [] s = "Filled"        -> "FILLED"
      [] s = "WaitToCancel"  -> "CANCEL_PENDING"
      [] s = "Canceled"      -> "CANCELLED"
      [] s = "Rejected"      -> "FAILED"
      [] s = "Expired"       -> "CANCELLED"

(* The outbox events a new status gives rise to. *)
Announced(o, status) ==
    CASE status = "FILLED"    -> {<<"ORDER_FILLED", o>>}
      [] status = "CANCELLED" -> {<<"ORDER_CANCELLED", o>>}
      [] OTHER                -> {}

-----------------------------------------------------------------------------
(* The executions. *)

Init ==
    /\ switches \in Configs
    /\ rows = [o \in Orders |-> NoOrder]
    /\ run = [e \in Execs |-> [phase |-> "idle", legs |-> 0, leg |-> 0, collide |-> FALSE,
                               work |-> [k \in 1..MaxLegs |-> NoOrder]]]
    /\ ex = [o \in Orders |-> "None"]
    /\ reply = [o \in Orders |-> "none"]
    /\ pushes = << >>
    /\ events = {}
    /\ outbox = {}
    /\ missed = {}
    /\ cancel = [o \in Orders |-> "no"]

unchangedPush == <<pushes, events, outbox, missed>>

(* The end of an execution without its rows: session.rollback. *)
RolledBack(r) == [r EXCEPT !.phase = "failed", !.work = [k \in DOMAIN @ |-> NoOrder]]

(* An execution of n legs starts with a safety check; the brackets collide  *)
(* when both have the same trigger price.  The call to the exchange is out. *)
Begin(e, n, same) ==
    /\ run[e].phase = "idle"
    /\ same => n = 3
    /\ IF SubmissionAllowed(switches)
       THEN /\ run' = [run EXCEPT ![e] = [@ EXCEPT !.phase = "calling", !.legs = n, !.leg = 1,
                                                   !.collide = same, !.work[1] = Submitting]]
            /\ ex' = [ex EXCEPT ![<<e, 1>>] = "Requested"]
       ELSE /\ run' = [run EXCEPT ![e] = RolledBack(@)]
            /\ UNCHANGED ex
    /\ UNCHANGED <<switches, rows, reply, cancel, unchangedPush>>

(* submit_order returned, leaving the leg's row as given.  The executor     *)
(* raises when the order itself was not accepted; it does not look at the   *)
(* result of a bracket order.                                               *)
LegEnds(e, row, accepted) ==
    LET r == run[e]
    IN  IF r.leg = 1 /\ ~accepted
        THEN /\ run' = [run EXCEPT ![e] = RolledBack(@)]
             /\ UNCHANGED ex
        ELSE IF r.leg < r.legs
        THEN /\ run' = [run EXCEPT ![e] = [r EXCEPT !.leg = @ + 1,
                                                    !.work = [@ EXCEPT ![r.leg] = row,
                                                                       ![r.leg + 1] = Submitting]]]
             /\ ex' = [ex EXCEPT ![<<e, r.leg + 1>>] = "Requested"]
        ELSE /\ run' = [run EXCEPT ![e] = [r EXCEPT !.phase = "committing",
                                                    !.work[r.leg] = row]]
             /\ UNCHANGED ex

Current(e) == <<e, run[e].leg>>
Row(e) == run[e].work[run[e].leg]

(* The gateway returns the order id. *)
SubmitReturns(e) ==
    /\ run[e].phase = "calling"
    /\ reply[Current(e)] = "ok"
    /\ LegEnds(e, [Moved(Row(e), "SUBMITTED") EXCEPT !.known = TRUE], TRUE)
    /\ UNCHANGED <<switches, rows, reply, cancel, unchangedPush>>

(* The gateway raises: the exchange refused. *)
SubmitFails(e) ==
    /\ run[e].phase = "calling"
    /\ reply[Current(e)] = "refused"
    /\ LegEnds(e, Moved(Row(e), "FAILED"), FALSE)
    /\ UNCHANGED <<switches, rows, reply, cancel, unchangedPush>>

(* TimeoutError or ConnectionError, whatever became of the request. *)
SubmitTimesOut(e) ==
    /\ run[e].phase = "calling"
    /\ LegEnds(e, Moved(Row(e), "RECONCILING"), FALSE)
    /\ UNCHANGED <<switches, rows, reply, cancel, unchangedPush>>

(* session.commit; rows with one idempotency key are refused and everything *)
(* is rolled back.                                                          *)
Commit(e) ==
    /\ run[e].phase = "committing"
    /\ IF run[e].collide
       THEN run' = [run EXCEPT ![e] = RolledBack(@)] /\ UNCHANGED rows
       ELSE /\ run' = [run EXCEPT ![e] = [RolledBack(@) EXCEPT !.phase = "done"]]
            /\ rows' = [o \in Orders |->
                          IF o[1] = e THEN run[e].work[o[2]] ELSE rows[o]]
    /\ UNCHANGED <<switches, ex, reply, cancel, unchangedPush>>

-----------------------------------------------------------------------------
(* The exchange (external). *)

(* The order changes at the exchange, and a push is sent. *)
Changes(o, to) ==
    /\ ex' = [ex EXCEPT ![o] = to]
    /\ pushes' = Append(pushes, <<o, to>>)

ExchangeAccepts(o) ==
    /\ ex[o] = "Requested"
    /\ Changes(o, "WaitToNew")
    /\ reply' = [reply EXCEPT ![o] = "ok"]
    /\ UNCHANGED <<switches, rows, run, events, outbox, missed, cancel>>

ExchangeRefuses(o) ==
    /\ ex[o] = "Requested"
    /\ ex' = [ex EXCEPT ![o] = "Refused"]
    /\ reply' = [reply EXCEPT ![o] = "refused"]
    /\ UNCHANGED <<switches, rows, run, cancel, unchangedPush>>

(* Where an order at the exchange may go from s; asked is whether a request *)
(* to cancel it has been made.                                              *)
ExchangeMoves(s, asked) ==
    CASE s = "WaitToNew"     -> {"New", "Rejected"}
      [] s = "New"           -> {"PartialFilled", "Filled", "Expired"}
                                  \cup (IF asked THEN {"WaitToCancel"} ELSE {})
      [] s = "PartialFilled" -> {"Filled", "Expired"}
                                  \cup (IF asked THEN {"WaitToCancel"} ELSE {})
      [] s = "WaitToCancel"  -> {"Canceled", "Filled"}
      [] OTHER               -> {}

ExchangeProgresses(o) ==
    /\ o \in Traded
    /\ \E to \in ExchangeMoves(ex[o], cancel[o] # "no") : Changes(o, to)
    /\ UNCHANGED <<switches, rows, run, reply, events, outbox, missed, cancel>>

-----------------------------------------------------------------------------
(* The callback. *)

(* Mutant: only pushes that belong to no order are saved. *)
HandleOrderEventUnsaved(o, status) ==
    LET row == rows[o]
        to  == MapOrderStatus(status)
    IN  \/ /\ ~row.known
           /\ events' = events \cup {<<o, status>>}
           /\ missed' = missed \cup {o}
           /\ UNCHANGED <<rows, outbox>>
        \/ /\ row.known /\ to # row.status /\ CanTransition(row.status, to)
           /\ rows' = [rows EXCEPT ![o] = Moved(row, to)]
           /\ outbox' = outbox \cup Announced(o, to)
           /\ UNCHANGED <<events, missed>>
        \/ /\ row.known /\ (to = row.status \/ ~CanTransition(row.status, to))
           /\ UNCHANGED <<rows, events, outbox, missed>>

(* handle_order_event in its own transaction: saved and applied together,   *)
(* or neither when the state machine refuses the transition.                *)
HandleOrderEvent(o, status) ==
    LET row == rows[o]
        to  == MapOrderStatus(status)
    IN  \/ /\ ~row.known
           /\ events' = events \cup {<<o, status>>}
           /\ missed' = missed \cup {o}
           /\ UNCHANGED <<rows, outbox>>
        \/ /\ row.known /\ to = row.status
           /\ events' = events \cup {<<o, status>>}
           /\ UNCHANGED <<rows, outbox, missed>>
        \/ /\ row.known /\ to # row.status /\ CanTransition(row.status, to)
           /\ events' = events \cup {<<o, status>>}
           /\ rows' = [rows EXCEPT ![o] = Moved(row, to)]
           /\ outbox' = outbox \cup Announced(o, to)
           /\ UNCHANGED missed
        \/ /\ row.known /\ to # row.status /\ ~CanTransition(row.status, to)
           /\ UNCHANGED <<rows, events, outbox, missed>>

Deliver ==
    /\ pushes # << >>
    /\ HandleOrderEvent(Head(pushes)[1], Head(pushes)[2])
    /\ pushes' = Tail(pushes)
    /\ UNCHANGED <<switches, run, ex, reply, cancel>>

(* The connection drops a push (external). *)
Lose ==
    /\ Lossy
    /\ pushes # << >>
    /\ missed' = missed \cup {Head(pushes)[1]}
    /\ pushes' = Tail(pushes)
    /\ UNCHANGED <<switches, rows, run, ex, reply, events, outbox, cancel>>

-----------------------------------------------------------------------------
(* Cancellation, in a transaction of the caller. *)

(* cancel_order reads the row and calls the exchange ... *)
CancelCall(o) ==
    /\ o \in Cancels
    /\ cancel[o] = "no"
    /\ rows[o].status \in {"SUBMITTED", "PARTIALLY_FILLED"}
    /\ rows[o].known
    /\ cancel' = [cancel EXCEPT ![o] = "calling"]
    /\ UNCHANGED <<switches, rows, run, ex, reply, unchangedPush>>

(* ... and writes the status it chose, over whatever the row is by now. *)
CancelReturns(o) ==
    /\ cancel[o] = "calling"
    /\ cancel' = [cancel EXCEPT ![o] = "asked"]
    /\ rows' = [rows EXCEPT ![o] = Moved(@, "CANCEL_PENDING")]
    /\ UNCHANGED <<switches, run, ex, reply, unchangedPush>>

(* A failed call leaves the order to be reconciled. *)
CancelFails(o) ==
    /\ cancel[o] = "calling"
    /\ cancel' = [cancel EXCEPT ![o] = "asked"]
    /\ rows' = [rows EXCEPT ![o] = Moved(Moved(@, "CANCEL_PENDING"), "RECONCILING")]
    /\ UNCHANGED <<switches, run, ex, reply, unchangedPush>>

-----------------------------------------------------------------------------
Next ==
    \/ \E e \in Execs, n \in 1..MaxLegs, same \in BOOLEAN : Begin(e, n, same)
    \/ \E e \in Execs : SubmitReturns(e)
    \/ \E e \in Execs : SubmitFails(e)
    \/ \E e \in Execs : SubmitTimesOut(e)
    \/ \E e \in Execs : Commit(e)
    \/ \E o \in Orders : ExchangeAccepts(o)
    \/ \E o \in Orders : ExchangeRefuses(o)
    \/ \E o \in Orders : ExchangeProgresses(o)
    \/ Deliver
    \/ Lose
    \/ \E o \in Orders : CancelCall(o)
    \/ \E o \in Orders : CancelReturns(o)
    \/ \E o \in Orders : CancelFails(o)

(* Gateway calls return, a worker thread commits, and the SDK's callback    *)
(* thread delivers what arrives.  Nothing is assumed of the exchange.       *)
Fairness ==
    /\ WF_vars(Deliver)
    /\ \A e \in Execs : /\ WF_vars(SubmitReturns(e) \/ SubmitFails(e) \/ SubmitTimesOut(e))
                        /\ WF_vars(Commit(e))
    /\ \A o \in Orders : WF_vars(CancelReturns(o) \/ CancelFails(o))

Spec == Init /\ [][Next]_vars /\ Fairness

-----------------------------------------------------------------------------
(* What the adapter guarantees. *)

(* A row never reports an outcome the exchange did not reach: statuses of   *)
(* pushes, mapped one by one, never run ahead of the order.                 *)
NoPhantomOutcome ==
    \A o \in Orders : rows[o].known =>
        /\ rows[o].status = "FILLED" => ex[o] = "Filled"
        /\ rows[o].status = "CANCELLED" => ex[o] \in {"Canceled", "Expired"}
        /\ rows[o].status = "FAILED" => ex[o] = "Rejected"
        /\ rows[o].status = "PARTIALLY_FILLED" => ex[o] # "New"

(* Rows follow the state machine. *)
Lifecycle == INSTANCE OrderLifecycle
                 WITH trail <- [o \in Orders |-> rows[o].audit], Ids <- Orders

LegalTrail(o) == \A n \in DOMAIN rows[o].audit : Lifecycle!LegalEntry(rows[o].audit, n)

(* The outbox tells of a fill or a cancellation exactly when the row does. *)
OutboxAgrees(o) ==
    /\ <<"ORDER_FILLED", o>> \in outbox <=> rows[o].status = "FILLED"
    /\ <<"ORDER_CANCELLED", o>> \in outbox <=> rows[o].status = "CANCELLED"

(* The order is over at the exchange, and the row says so. *)
Over(o) == ex[o] \in {"Filled", "Canceled", "Rejected", "Expired"}
Agrees(o) ==
    \/ ex[o] = "Filled" /\ rows[o].status = "FILLED"
    \/ ex[o] \in {"Canceled", "Expired"} /\ rows[o].status = "CANCELLED"
    \/ ex[o] = "Rejected" /\ rows[o].status = "FAILED"

(* The pushes bring every row whose order is over to the final status,      *)
(* unless a push of the order was lost or came before its row, or a         *)
(* cancellation was in flight when one arrived.                             *)
OutcomeArrives ==
    \A o \in Orders : (rows[o].known /\ Over(o)) ~> (Agrees(o) \/ o \in missed \/ cancel[o] # "no")

(* A row with a final status can be traced to a push in broker_events that  *)
(* maps to it, whatever was lost or refused before.                         *)
Recorded(o) ==
    rows[o].known /\ rows[o].status \in {"FILLED", "CANCELLED", "FAILED"}
    => \E s \in PushStatus : <<o, s>> \in events /\ MapOrderStatus(s) = rows[o].status

(* Of an order nobody cancels, what the exchange did can be read from the   *)
(* tables: a legal audit trail, the pushes that caused it, and one outbox   *)
(* event per outcome (adapter.py, handle_order_event).                      *)
OutcomesAreRecorded ==
    \A o \in Orders : cancel[o] = "no" => LegalTrail(o) /\ OutboxAgrees(o) /\ Recorded(o)

(* A bracket order is at the exchange only next to an order the exchange    *)
(* accepted: the executor stops when the order itself is not known to be    *)
(* accepted.                                                                *)
BracketsNeedTheirOrder ==
    \A o \in Orders : o[2] > 1 /\ ex[o] # "None" => reply[<<o[1], 1>>] = "ok"

(* Pushes, answers and cancels that race invent nothing: a row's outcome is *)
(* the exchange's, and the exchange has no bracket without its order        *)
(* (adapter.py, handle_order_event; trade_executor.py, execute).            *)
NothingInvented == NoPhantomOutcome /\ BracketsNeedTheirOrder

-----------------------------------------------------------------------------
(* What the comments of the code say of its rows, and the code does not do. *)

(* The exchange took the order, whether or not it has told. *)
AtTheExchange(o) == ex[o] \notin {"None", "Requested", "Refused"}

(* "Network exceptions set the order to RECONCILING, which a person settles"*)
(* (adapter.py, submit_order).  Not so: the executor raises when it is not  *)
(* accepted, and its roll-back takes the row away.                          *)
SubmissionsAreOnFile ==
    \A e \in Execs :
        run[e].phase \in {"done", "failed"} /\ AtTheExchange(<<e, 1>>)
        => rows[<<e, 1>>].status # NoRow

(* "The original payload is written to the audit table of broker events"    *)
(* (adapter.py, handle_order_event).  Not so when the state machine refuses *)
(* the status: the row is rolled back with the transition.  A push that is  *)
(* gone was handled unless its order was missed.                            *)
PushesAreAudited ==
    [][pushes # << >> /\ pushes' = Tail(pushes)
       => Head(pushes) \in events' \/ Head(pushes)[1] \in missed']_vars

(* FILLED and CANCELLED are final (state_machine.py).  Not so beside a      *)
(* cancellation: it checks the status of the row it read, and writes over   *)
(* what a push committed since (adapter.py, cancel_order).                  *)
FinalStaysFinal ==
    [][\A o \in Orders :
         rows[o].status \in {"FILLED", "CANCELLED"} => rows'[o].status = rows[o].status]_vars
=============================================================================

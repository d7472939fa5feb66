-------------------------- MODULE LongbridgeProofs --------------------------
(***************************************************************************)
(* Proofs about the adapter to the outside exchange: rows, exchange and    *)
(* pushes race, and still no row reports an outcome the exchange did not   *)
(* reach (NothingIsInvented), and what the exchange did to an order nobody *)
(* cancels can be read from the tables (OutcomesAreOnRecord).              *)
(*                                                                         *)
(* The properties speak of rows and of the exchange.  They are inductive   *)
(* only together with what is under way between the two: a push never      *)
(* runs ahead of its order (PushInv), an execution's uncommitted rows are  *)
(* fresh and the exchange has nothing beyond its current leg (RunInv), and *)
(* an order whose request is still open has no answer yet (AnswerInv).     *)
(***************************************************************************)
EXTENDS Longbridge, SequenceTheorems, TLAPS

RowType == [status : OrderStatus \cup {NoRow}, known : BOOLEAN, audit : Seq(OrderStatus)]

RunType == [phase : {"idle", "calling", "committing", "done", "failed"},
            legs : 0..MaxLegs, leg : 0..MaxLegs, collide : BOOLEAN,
            work : [1..MaxLegs -> RowType]]

RowsType == rows \in [Orders -> RowType] /\ \A o \in Orders : rows[o].known => rows[o].status # NoRow
RunsType == run \in [Execs -> RunType]
ExchangeType ==
    /\ ex \in [Orders -> {"None", "Requested", "Refused"} \cup PushStatus]
    /\ reply \in [Orders -> {"none", "ok", "refused"}]
PushType == pushes \in Seq(Orders \X PushStatus)
CancelInv ==
    /\ cancel \in [Orders -> {"no", "calling", "asked"}]
    /\ \A o \in Orders : cancel[o] # "no" => rows[o].known

(* A push with status p is not ahead of an order that is x at the exchange. *)
FinalStatus == {"Filled", "Canceled", "Rejected", "Expired"}
OnceTraded == {"PartialFilled", "WaitToCancel"} \cup FinalStatus
NotAhead(p, x) == (p \in FinalStatus => x = p) /\ (p = "PartialFilled" => x \in OnceTraded)

(* A row whose audit trail is legal and ends with its status. *)
Audited(row) ==
    /\ \A n \in DOMAIN row.audit : Lifecycle!LegalEntry(row.audit, n)
    /\ row.status = NoRow => row.audit = << >>
    /\ row.status # NoRow => row.audit # << >> /\ row.audit[Len(row.audit)] = row.status

(* A row as its execution leaves it. *)
Fresh(row) ==
    /\ Audited(row)
    /\ row.status \in {NoRow, "SUBMITTING", "SUBMITTED", "FAILED", "RECONCILING"}
    /\ row.known => row.status = "SUBMITTED"

PushInv == \A i \in 1..Len(pushes) : NotAhead(pushes[i][2], ex[pushes[i][1]])

AnswerInv == \A o \in Orders : ex[o] \in {"None", "Requested"} => reply[o] = "none"

RunInv ==
    /\ \A e \in Execs :
         /\ run[e].phase = "idle" => run[e].leg = 0
         /\ run[e].phase = "calling" => /\ 0 < run[e].leg /\ run[e].leg <= run[e].legs
                                        /\ run[e].work[run[e].leg] = Submitting
         /\ run[e].leg > 1 => reply[<<e, 1>>] = "ok"
         /\ \A k \in 1..MaxLegs : Fresh(run[e].work[k])
    /\ \A o \in Orders : o[2] > run[o[1]].leg => ex[o] = "None"
    /\ \A o \in Orders : run[o[1]].phase # "done" => rows[o] = NoOrder

OutcomeInv ==
    \A o \in Orders : rows[o].known =>
        /\ rows[o].status = "FILLED" => ex[o] = "Filled"
        /\ rows[o].status = "CANCELLED" => ex[o] \in {"Canceled", "Expired"}
        /\ rows[o].status = "FAILED" => ex[o] = "Rejected"
        /\ rows[o].status = "PARTIALLY_FILLED" => ex[o] \in OnceTraded

RecordInv ==
    \A o \in Orders : cancel[o] = "no" => Audited(rows[o]) /\ OutboxAgrees(o) /\ Recorded(o)

IInv ==
    /\ RowsType /\ RunsType /\ ExchangeType /\ PushType /\ CancelInv
    /\ PushInv /\ AnswerInv /\ RunInv /\ OutcomeInv /\ RecordInv

-----------------------------------------------------------------------------
(* Rows. *)

(* The state machine the trail is held to is the one the adapter asks. *)
LEMMA SameMachine == \A a, b : Lifecycle!CanTransition(a, b) <=> CanTransition(a, b)
BY DEF Lifecycle!CanTransition, CanTransition, Lifecycle!AllowedTransitions, AllowedTransitions

(* transition_order writes the status and the audit entry, and nothing else. *)
LEMMA MovedRow ==
    ASSUME NEW row \in RowType, NEW to \in OrderStatus
    PROVE  /\ Moved(row, to) \in RowType
           /\ Moved(row, to).status = to
           /\ Moved(row, to).known = row.known
           /\ Moved(row, to).audit = Append(row.audit, to)
<1>1. Append(row.audit, to) \in Seq(OrderStatus)
    BY DEF RowType
<1>2. ASSUME NEW b \in Seq(OrderStatus)
      PROVE  [row EXCEPT !.status = to, !.audit = b] \in RowType
    BY DEF RowType
<1>3. Moved(row, to) = [row EXCEPT !.status = to, !.audit = Append(row.audit, to)]
    BY DEF Moved
<1>4. Moved(row, to) \in RowType
    BY <1>1, <1>2, <1>3
<1>5. Moved(row, to).status = to
    BY DEF Moved, RowType
<1>6. Moved(row, to).known = row.known
    BY DEF Moved, RowType
<1>7. Moved(row, to).audit = Append(row.audit, to)
    BY DEF Moved, RowType
<1> QED
    BY <1>4, <1>5, <1>6, <1>7

(* A transition the state machine accepts keeps the trail legal. *)
LEMMA MovedIsAudited ==
    ASSUME NEW row \in RowType, NEW to \in OrderStatus, Audited(row), row.status # NoRow,
           CanTransition(row.status, to)
    PROVE  Audited(Moved(row, to))
<1> DEFINE a == row.audit
           b == Append(a, to)
<1>1. a \in Seq(OrderStatus) /\ a # << >> /\ a[Len(a)] = row.status
    BY DEF RowType, Audited
<1>2. /\ Len(b) = Len(a) + 1 /\ DOMAIN b = 1..Len(a) + 1 /\ DOMAIN a = 1..Len(a)
      /\ b[Len(a) + 1] = to /\ \A n \in 1..Len(a) : b[n] = a[n]
      /\ Len(a) \in Nat /\ Len(a) # 0 /\ b # << >>
    BY <1>1
<1> HIDE DEF a, b
<1>3. ASSUME NEW n \in DOMAIN b
      PROVE  Lifecycle!LegalEntry(b, n)
    <2>1. CASE n = Len(a) + 1
        <3>1. n # 1 /\ b[n - 1] = row.status /\ b[n] = to
            BY <1>1, <1>2, <2>1
        <3> QED
            BY <3>1, SameMachine DEF Lifecycle!LegalEntry
    <2>2. CASE n \in 1..Len(a)
        <3>1. Lifecycle!LegalEntry(a, n)
            BY <2>2, <1>2 DEF Audited, a
        <3>2. CASE n = 1
            BY <3>1, <3>2, <1>2, <2>2 DEF Lifecycle!LegalEntry
        <3>3. CASE n # 1
            <4>1. n - 1 \in 1..Len(a)
                BY <3>3, <2>2, <1>2
            <4>2. b[n - 1] = a[n - 1] /\ b[n] = a[n]
                BY <4>1, <1>2, <2>2
            <4> QED
                BY <3>1, <3>3, <4>2 DEF Lifecycle!LegalEntry
        <3> QED
            BY <3>2, <3>3
    <2> QED
        BY <1>2, <2>1, <2>2
<1>4. Moved(row, to).audit = b /\ Moved(row, to).status = to
    BY MovedRow DEF b, a
<1>5. to # NoRow
    BY DEF OrderStatus, NoRow
<1>6. b[Len(b)] = to
    BY <1>2
<1> QED
    BY <1>2, <1>3, <1>4, <1>5, <1>6 DEF Audited

(* The row that does not exist, and the row about to be sent. *)
LEMMA FirstRows ==
    /\ NoOrder \in RowType /\ Fresh(NoOrder) /\ ~NoOrder.known /\ NoOrder.status = NoRow
    /\ Submitting \in RowType /\ Fresh(Submitting) /\ ~Submitting.known
    /\ Submitting.status = "SUBMITTING"
<1>1. NoOrder \in RowType /\ ~NoOrder.known /\ NoOrder.status = NoRow /\ NoOrder.audit = << >>
    BY DEF NoOrder, RowType
<1>2. Fresh(NoOrder)
    BY <1>1 DEF Fresh, Audited
<1> DEFINE t == <<"CREATED", "RISK_APPROVED", "SUBMITTING">>
<1>3. Submitting.audit = t /\ Submitting.status = "SUBMITTING" /\ Submitting.known = FALSE
    BY DEF Submitting
<1>4. t \in Seq(OrderStatus) /\ Len(t) = 3 /\ DOMAIN t = 1..3
      /\ t[1] = "CREATED" /\ t[2] = "RISK_APPROVED" /\ t[3] = "SUBMITTING"
    BY DEF OrderStatus
<1>5. Submitting \in RowType
    BY <1>3, <1>4 DEF RowType, Submitting, OrderStatus
<1>6. CanTransition("CREATED", "RISK_APPROVED") /\ CanTransition("RISK_APPROVED", "SUBMITTING")
    BY DEF CanTransition, AllowedTransitions
<1> HIDE DEF t
<1>7. Lifecycle!LegalEntry(t, 1)
    BY <1>4 DEF Lifecycle!LegalEntry
<1>8. Lifecycle!LegalEntry(t, 2)
    <2>1. Lifecycle!CanTransition(t[2 - 1], t[2])
        BY <1>4, <1>6, SameMachine
    <2> QED
        BY <2>1 DEF Lifecycle!LegalEntry
<1>9. Lifecycle!LegalEntry(t, 3)
    <2>1. Lifecycle!CanTransition(t[3 - 1], t[3])
        BY <1>4, <1>6, SameMachine
    <2> QED
        BY <2>1 DEF Lifecycle!LegalEntry
<1>10. \A n \in DOMAIN t : Lifecycle!LegalEntry(t, n)
    <2>1. \A n \in 1..3 : n = 1 \/ n = 2 \/ n = 3
        OBVIOUS
    <2> QED
        BY <1>4, <1>7, <1>8, <1>9, <2>1
<1>11. Fresh(Submitting)
    <2>1. t # << >>
        <3>1. Len(t) # Len(<< >>)
            BY <1>4
        <3> QED
            BY <3>1
    <2>2. t[Len(t)] = "SUBMITTING"
        BY <1>4
    <2> QED
        BY <1>3, <1>10, <2>1, <2>2 DEF Fresh, Audited, NoRow
<1> QED
    BY <1>1, <1>2, <1>3, <1>5, <1>11

-----------------------------------------------------------------------------
(* The exchange only goes forward. *)

Forward(x, y) == (x \in FinalStatus => y = x) /\ (x \in OnceTraded => y \in OnceTraded)

(* An order that moves forward at the exchange leaves no push ahead of it,  *)
(* and no row with an outcome it has not reached.                           *)
LEMMA ForwardKeeps ==
    ASSUME PushInv, OutcomeInv, PushType, ExchangeType,
           \A o \in Orders : Forward(ex[o], ex'[o]),
           UNCHANGED <<rows, pushes>>
    PROVE  PushInv' /\ OutcomeInv'
<1>1. \A o \in Orders, q \in PushStatus : NotAhead(q, ex[o]) => NotAhead(q, ex'[o])
    BY DEF Forward, NotAhead
<1>2. \A i \in 1..Len(pushes) : pushes[i][1] \in Orders /\ pushes[i][2] \in PushStatus
    BY DEF PushType
<1>3. PushInv'
    BY <1>1, <1>2 DEF PushInv
<1>4. OutcomeInv'
    BY DEF OutcomeInv, Forward, FinalStatus
<1> QED
    BY <1>3, <1>4

(* Opening a request is a move forward: the exchange had not heard of it. *)
LEMMA RequestForward ==
    ASSUME ExchangeType, NEW o \in Orders, ex[o] \in {"None", "Requested"},
           NEW to, ex' = [ex EXCEPT ![o] = to]
    PROVE  \A p \in Orders : Forward(ex[p], ex'[p])
BY DEF ExchangeType, Forward, FinalStatus, OnceTraded

(* Nothing is invented in the first state. *)
LEMMA InitHolds == Init => IInv
<1> SUFFICES ASSUME Init PROVE IInv
    OBVIOUS
<1>1. RowsType
    BY FirstRows DEF Init, RowsType
<1>2. RunsType
    <2>1. 0 \in 0..MaxLegs
        BY LongbridgeAssumption
    <2>2. [k \in 1..MaxLegs |-> NoOrder] \in [1..MaxLegs -> RowType]
        BY FirstRows
    <2> QED
        BY <2>1, <2>2 DEF Init, RunsType, RunType
<1>3. ExchangeType /\ PushType /\ CancelInv
    BY DEF Init, ExchangeType, PushType, CancelInv
<1>4. PushInv /\ AnswerInv
    BY DEF Init, PushInv, AnswerInv
<1>5. RunInv
    <2>1. \A o \in Orders : o[1] \in Execs /\ o[2] \in 1..MaxLegs
        BY DEF Orders
    <2>2. \A e \in Execs : run[e].phase = "idle" /\ run[e].leg = 0
        BY DEF Init
    <2>3. \A e \in Execs, k \in 1..MaxLegs : run[e].work[k] = NoOrder
        BY DEF Init
    <2>4. \A o \in Orders : ex[o] = "None" /\ rows[o] = NoOrder
        BY DEF Init
    <2> QED
        BY <2>1, <2>2, <2>3, <2>4, FirstRows DEF RunInv
<1>6. OutcomeInv
    BY FirstRows DEF Init, OutcomeInv
<1>7. RecordInv
    BY FirstRows DEF Init, RecordInv, OutboxAgrees, Recorded, Fresh, NoRow
<1> QED
    BY <1>1, <1>2, <1>3, <1>4, <1>5, <1>6, <1>7 DEF IInv

-----------------------------------------------------------------------------
(* The executions. *)

(* Ids of orders. *)
LEMMA OrderIds ==
    /\ \A o \in Orders : o[1] \in Execs /\ o[2] \in 1..MaxLegs /\ o = <<o[1], o[2]>>
    /\ \A e \in Execs, k \in 1..MaxLegs : <<e, k>> \in Orders /\ <<e, k>>[1] = e /\ <<e, k>>[2] = k
BY DEF Orders

(* The rows and the work of an execution that has been rolled back. *)
LEMMA RolledBackRun ==
    ASSUME NEW r \in RunType
    PROVE  /\ RolledBack(r) \in RunType
           /\ RolledBack(r).phase = "failed" /\ RolledBack(r).leg = r.leg
           /\ \A k \in 1..MaxLegs : RolledBack(r).work[k] = NoOrder
<1> DEFINE w == [k \in DOMAIN r.work |-> NoOrder]
<1>1. w \in [1..MaxLegs -> RowType] /\ \A k \in 1..MaxLegs : w[k] = NoOrder
    BY FirstRows DEF RunType
<1>2. RolledBack(r) = [r EXCEPT !.phase = "failed", !.work = w]
    BY DEF RolledBack
<1> HIDE DEF w
<1>3. [r EXCEPT !.phase = "failed", !.work = w] \in RunType
    BY <1>1 DEF RunType
<1>4. [r EXCEPT !.phase = "failed", !.work = w].phase = "failed"
    BY DEF RunType
<1>5. [r EXCEPT !.phase = "failed", !.work = w].leg = r.leg
    BY DEF RunType
<1>6. [r EXCEPT !.phase = "failed", !.work = w].work = w
    BY DEF RunType
<1> QED
    BY <1>1, <1>2, <1>3, <1>4, <1>5, <1>6

(* An execution that ends without its rows keeps the invariant, whether it  *)
(* never started, was refused or could not commit.                          *)
LEMMA RollbackKeeps ==
    ASSUME IInv, NEW e \in Execs, run[e].phase # "done",
           run' = [run EXCEPT ![e] = RolledBack(@)],
           UNCHANGED <<rows, ex, reply, cancel, pushes, events, outbox>>
    PROVE  IInv'
<1>1. run[e] \in RunType
    BY DEF IInv, RunsType
<1>2. /\ run' \in [Execs -> RunType]
      /\ run'[e].phase = "failed" /\ run'[e].leg = run[e].leg
      /\ \A k \in 1..MaxLegs : run'[e].work[k] = NoOrder
      /\ \A f \in Execs : f # e => run'[f] = run[f]
    BY <1>1, RolledBackRun DEF IInv, RunsType
<1>3. RowsType' /\ RunsType' /\ ExchangeType' /\ PushType' /\ CancelInv'
    BY <1>2 DEF IInv, RowsType, RunsType, ExchangeType, PushType, CancelInv
<1>4. PushInv' /\ AnswerInv' /\ OutcomeInv'
    BY DEF IInv, PushInv, AnswerInv, OutcomeInv
<1>5. RunInv'
    <2>1. \A f \in Execs :
            /\ run'[f].phase = "idle" => run'[f].leg = 0
            /\ run'[f].phase = "calling" => /\ 0 < run'[f].leg /\ run'[f].leg <= run'[f].legs
                                            /\ run'[f].work[run'[f].leg] = Submitting
            /\ run'[f].leg > 1 => reply[<<f, 1>>] = "ok"
        <3> TAKE f \in Execs
        <3>1. CASE f = e
            BY <3>1, <1>2 DEF IInv, RunInv
        <3>2. CASE f # e
            BY <3>2, <1>2 DEF IInv, RunInv
        <3> QED
            BY <3>1, <3>2
    <2>2. \A f \in Execs, k \in 1..MaxLegs : Fresh(run'[f].work[k])
        BY <1>2, FirstRows DEF IInv, RunInv
    <2>3. \A o \in Orders : run'[o[1]].leg = run[o[1]].leg
        BY <1>2, OrderIds
    <2>4. \A o \in Orders : run'[o[1]].phase # "done" => run[o[1]].phase # "done"
        BY <1>2, OrderIds
    <2>5. \A o \in Orders : o[2] > run'[o[1]].leg => ex[o] = "None"
        BY <2>3 DEF IInv, RunInv
    <2>6. \A o \in Orders : run'[o[1]].phase # "done" => rows[o] = NoOrder
        BY <2>4 DEF IInv, RunInv
    <2> QED
        BY <2>1, <2>2, <2>5, <2>6 DEF RunInv
<1>6. RecordInv'
    BY DEF IInv, RecordInv, OutboxAgrees, Recorded
<1> QED
    BY <1>3, <1>4, <1>5, <1>6 DEF IInv

(* An execution takes up leg k: its row is about to be sent and the request *)
(* is out.                                                                  *)
LEMMA RequestKeeps ==
    ASSUME IInv, NEW e \in Execs, NEW k \in 1..MaxLegs, NEW r \in RunType,
           run[e].phase \in {"idle", "calling"}, run[e].leg = k - 1,
           run' = [run EXCEPT ![e] = r],
           r.phase = "calling", r.leg = k, k <= r.legs, r.work[k] = Submitting,
           \A j \in 1..MaxLegs : Fresh(r.work[j]),
           k > 1 => reply[<<e, 1>>] = "ok",
           ex' = [ex EXCEPT ![<<e, k>>] = "Requested"],
           UNCHANGED <<rows, reply, cancel, pushes, events, outbox>>
    PROVE  IInv'
<1>1. k \in Nat /\ k > 0 /\ <<e, k>> \in Orders
    BY LongbridgeAssumption, OrderIds
<1>2. ex[<<e, k>>] = "None"
    <2>1. k > run[e].leg
        BY <1>1
    <2> QED
        BY <1>1, <2>1, OrderIds DEF IInv, RunInv
<1>3. /\ run' \in [Execs -> RunType] /\ run'[e] = r
      /\ \A f \in Execs : f # e => run'[f] = run[f]
    BY DEF IInv, RunsType
<1>4. /\ ex' \in [Orders -> {"None", "Requested", "Refused"} \cup PushStatus]
      /\ ex'[<<e, k>>] = "Requested"
      /\ \A o \in Orders : o # <<e, k>> => ex'[o] = ex[o]
    BY <1>1 DEF IInv, ExchangeType
<1>5. RowsType' /\ RunsType' /\ ExchangeType' /\ PushType' /\ CancelInv'
    BY <1>3, <1>4 DEF IInv, RowsType, RunsType, ExchangeType, PushType, CancelInv
<1>6. PushInv' /\ OutcomeInv'
    BY <1>1, <1>2, ForwardKeeps, RequestForward DEF IInv
<1>7. AnswerInv'
    BY <1>2, <1>4 DEF IInv, AnswerInv
<1>8. RunInv'
    <2>1. \A f \in Execs :
            /\ run'[f].phase = "idle" => run'[f].leg = 0
            /\ run'[f].phase = "calling" => /\ 0 < run'[f].leg /\ run'[f].leg <= run'[f].legs
                                            /\ run'[f].work[run'[f].leg] = Submitting
            /\ run'[f].leg > 1 => reply[<<f, 1>>] = "ok"
        <3> TAKE f \in Execs
        <3>1. CASE f = e
            BY <3>1, <1>1, <1>3
        <3>2. CASE f # e
            BY <3>2, <1>3 DEF IInv, RunInv
        <3> QED
            BY <3>1, <3>2
    <2>2. \A f \in Execs, j \in 1..MaxLegs : Fresh(run'[f].work[j])
        BY <1>3 DEF IInv, RunInv
    <2>3. ASSUME NEW o \in Orders, o[2] > run'[o[1]].leg
          PROVE  ex'[o] = "None"
        <3>1. o # <<e, k>>
            BY <2>3, <1>1, <1>3, OrderIds
        <3>2. o[2] \in Nat /\ o[1] \in Execs
            BY OrderIds, LongbridgeAssumption
        <3>3. o[2] > run[o[1]].leg
            BY <2>3, <3>2, <1>1, <1>3
        <3> QED
            BY <3>1, <3>3, <1>4 DEF IInv, RunInv
    <2>4. \A o \in Orders : run'[o[1]].phase # "done" => run[o[1]].phase # "done"
        BY <1>3, OrderIds
    <2>5. \A o \in Orders : run'[o[1]].phase # "done" => rows[o] = NoOrder
        BY <2>4 DEF IInv, RunInv
    <2> QED
        BY <2>1, <2>2, <2>3, <2>5 DEF RunInv
<1>9. RecordInv'
    BY DEF IInv, RecordInv, OutboxAgrees, Recorded
<1> QED
    BY <1>5, <1>6, <1>7, <1>8, <1>9 DEF IInv

(* Begin keeps the invariant. *)
LEMMA BeginKeeps ==
    ASSUME IInv, NEW e \in Execs, NEW n \in 1..MaxLegs, NEW same \in BOOLEAN, Begin(e, n, same)
    PROVE  IInv'
<1>1. /\ run[e].phase = "idle" /\ run[e] \in RunType /\ run[e].leg = 0
      /\ UNCHANGED <<rows, reply, cancel, pushes, events, outbox>>
    BY DEF Begin, IInv, RunsType, RunInv, unchangedPush
<1>2. CASE SubmissionAllowed(switches)
    <2> DEFINE w == [run[e].work EXCEPT ![1] = Submitting]
               r == [run[e] EXCEPT !.phase = "calling", !.legs = n, !.leg = 1,
                                   !.collide = same, !.work[1] = Submitting]
    <2>1. run' = [run EXCEPT ![e] = r] /\ ex' = [ex EXCEPT ![<<e, 1>>] = "Requested"]
        BY <1>2 DEF Begin
    <2>2. 1 \in 1..MaxLegs /\ 1 \in 0..MaxLegs /\ n \in 0..MaxLegs /\ n >= 1
        BY LongbridgeAssumption
    <2>3. w \in [1..MaxLegs -> RowType] /\ w[1] = Submitting
          /\ \A j \in 1..MaxLegs : j # 1 => w[j] = run[e].work[j]
        BY <1>1, <2>2, FirstRows DEF RunType
    <2>4. r = [run[e] EXCEPT !.phase = "calling", !.legs = n, !.leg = 1, !.collide = same, !.work = w]
        BY <1>1 DEF RunType
    <2>5. \A j \in 1..MaxLegs : Fresh(w[j])
        BY <2>3, FirstRows DEF IInv, RunInv
    <2> HIDE DEF w
    <2> HIDE DEF r
    <2>6. r \in RunType /\ r.phase = "calling" /\ r.leg = 1 /\ r.legs = n /\ r.work = w
        BY <1>1, <2>2, <2>3, <2>4 DEF RunType
    <2>7. r.work[1] = Submitting /\ (\A j \in 1..MaxLegs : Fresh(r.work[j])) /\ 1 <= r.legs
        BY <2>2, <2>3, <2>5, <2>6
    <2>8. run[e].leg = 1 - 1 /\ ~(1 > 1) /\ run[e].phase \in {"idle", "calling"}
        BY <1>1
    <2> QED
        BY <1>1, <2>1, <2>2, <2>6, <2>7, <2>8, RequestKeeps
<1>3. CASE ~SubmissionAllowed(switches)
    <2>1. run' = [run EXCEPT ![e] = RolledBack(@)] /\ UNCHANGED ex
        BY <1>3 DEF Begin
    <2> QED
        BY <1>1, <2>1, RollbackKeeps
<1> QED
    BY <1>2, <1>3

(* The last leg has been answered: the execution is about to commit. *)
LEMMA SettledKeeps ==
    ASSUME IInv, NEW e \in Execs, NEW r \in RunType, run[e].phase = "calling",
           run' = [run EXCEPT ![e] = r], r.phase = "committing", r.leg = run[e].leg,
           \A j \in 1..MaxLegs : Fresh(r.work[j]),
           UNCHANGED <<rows, ex, reply, cancel, pushes, events, outbox>>
    PROVE  IInv'
<1>1. /\ run' \in [Execs -> RunType] /\ run'[e] = r
      /\ \A f \in Execs : f # e => run'[f] = run[f]
    BY DEF IInv, RunsType
<1>2. RowsType' /\ RunsType' /\ ExchangeType' /\ PushType' /\ CancelInv'
    BY <1>1 DEF IInv, RowsType, RunsType, ExchangeType, PushType, CancelInv
<1>3. PushInv' /\ AnswerInv' /\ OutcomeInv' /\ RecordInv'
    BY DEF IInv, PushInv, AnswerInv, OutcomeInv, RecordInv, OutboxAgrees, Recorded
<1>4. RunInv'
    <2>1. \A f \in Execs :
            /\ run'[f].phase = "idle" => run'[f].leg = 0
            /\ run'[f].phase = "calling" => /\ 0 < run'[f].leg /\ run'[f].leg <= run'[f].legs
                                            /\ run'[f].work[run'[f].leg] = Submitting
            /\ run'[f].leg > 1 => reply[<<f, 1>>] = "ok"
        <3> TAKE f \in Execs
        <3>1. CASE f = e
            BY <3>1, <1>1 DEF IInv, RunInv
        <3>2. CASE f # e
            BY <3>2, <1>1 DEF IInv, RunInv
        <3> QED
            BY <3>1, <3>2
    <2>2. \A f \in Execs, j \in 1..MaxLegs : Fresh(run'[f].work[j])
        BY <1>1 DEF IInv, RunInv
    <2>3. \A o \in Orders : run'[o[1]].leg = run[o[1]].leg
        BY <1>1, OrderIds
    <2>4. \A o \in Orders : run'[o[1]].phase # "done" => run[o[1]].phase # "done"
        BY <1>1, OrderIds
    <2>5. \A o \in Orders : o[2] > run'[o[1]].leg => ex[o] = "None"
        BY <2>3 DEF IInv, RunInv
    <2>6. \A o \in Orders : run'[o[1]].phase # "done" => rows[o] = NoOrder
        BY <2>4 DEF IInv, RunInv
    <2> QED
        BY <2>1, <2>2, <2>5, <2>6 DEF RunInv
<1> QED
    BY <1>2, <1>3, <1>4 DEF IInv

(* However submit_order ends, the executor goes on with the next leg only   *)
(* when the order itself was accepted.                                      *)
LEMMA LegEndsKeeps ==
    ASSUME IInv, NEW e \in Execs, run[e].phase = "calling", NEW row \in RowType, Fresh(row),
           NEW accepted \in BOOLEAN, accepted => reply[Current(e)] = "ok", LegEnds(e, row, accepted),
           UNCHANGED <<rows, reply, cancel, pushes, events, outbox>>
    PROVE  IInv'
<1> DEFINE l == run[e].leg
<1>1. /\ run[e] \in RunType /\ l \in 1..MaxLegs /\ l \in Nat /\ run[e].legs \in 0..MaxLegs
      /\ \A j \in 1..MaxLegs : Fresh(run[e].work[j])
    <2>1. run[e] \in RunType
        BY DEF IInv, RunsType
    <2>2. l \in 0..MaxLegs /\ run[e].legs \in 0..MaxLegs
        BY <2>1 DEF RunType
    <2>3. 0 < l /\ \A j \in 1..MaxLegs : Fresh(run[e].work[j])
        BY DEF IInv, RunInv
    <2> QED
        BY <2>1, <2>2, <2>3, LongbridgeAssumption
<1>2. CASE l = 1 /\ ~accepted
    <2>1. run' = [run EXCEPT ![e] = RolledBack(@)] /\ UNCHANGED ex
        BY <1>2 DEF LegEnds
    <2> QED
        BY <2>1, RollbackKeeps
<1>3. CASE ~(l = 1 /\ ~accepted) /\ l < run[e].legs
    <2> DEFINE w == [run[e].work EXCEPT ![l] = row, ![l + 1] = Submitting]
               r == [run[e] EXCEPT !.leg = @ + 1, !.work = w]
    <2>1. run' = [run EXCEPT ![e] = r] /\ ex' = [ex EXCEPT ![<<e, l + 1>>] = "Requested"]
        BY <1>3 DEF LegEnds
    <2>2. l + 1 \in 1..MaxLegs /\ l + 1 \in 0..MaxLegs /\ l = (l + 1) - 1 /\ l + 1 <= run[e].legs
        BY <1>1, <1>3, LongbridgeAssumption
    <2>3. run[e].work \in [1..MaxLegs -> RowType]
        BY <1>1 DEF RunType
    <2>4. w \in [1..MaxLegs -> RowType] /\ w[l + 1] = Submitting
        BY <1>1, <2>2, <2>3, FirstRows
    <2>5. \A j \in 1..MaxLegs : w[j] \in {row, Submitting, run[e].work[j]}
        BY <1>1, <2>2, <2>3
    <2>6. \A j \in 1..MaxLegs : Fresh(w[j])
        BY <1>1, <2>5, FirstRows
    <2> HIDE DEF w
    <2>7. r \in RunType
        BY <1>1, <2>2, <2>4 DEF RunType
    <2>8. r.phase = "calling" /\ r.leg = l + 1 /\ r.legs = run[e].legs
        BY <1>1 DEF RunType
    <2>9. r.work = w
        BY <1>1 DEF RunType
    <2> HIDE DEF r
    <2>10. reply[<<e, 1>>] = "ok"
        <3>1. CASE l = 1
            BY <3>1, <1>3 DEF Current
        <3>2. CASE l # 1
            BY <3>2, <1>1 DEF IInv, RunInv
        <3> QED
            BY <3>1, <3>2
    <2>11. l + 1 <= r.legs /\ r.work[l + 1] = Submitting /\ \A j \in 1..MaxLegs : Fresh(r.work[j])
        BY <2>2, <2>4, <2>6, <2>8, <2>9
    <2>12. run[e].leg = (l + 1) - 1 /\ run[e].phase \in {"idle", "calling"}
        BY <2>2
    <2> HIDE DEF l
    <2> QED
        BY <2>1, <2>2, <2>7, <2>8, <2>10, <2>11, <2>12, RequestKeeps
<1>4. CASE ~(l = 1 /\ ~accepted) /\ ~(l < run[e].legs)
    <2> DEFINE w == [run[e].work EXCEPT ![l] = row]
               r == [run[e] EXCEPT !.phase = "committing", !.work[l] = row]
    <2>1. run' = [run EXCEPT ![e] = r] /\ UNCHANGED ex
        BY <1>4 DEF LegEnds
    <2>2. w \in [1..MaxLegs -> RowType] /\ \A j \in 1..MaxLegs : w[j] \in {row, run[e].work[j]}
        BY <1>1 DEF RunType
    <2>3. \A j \in 1..MaxLegs : Fresh(w[j])
        BY <1>1, <2>2
    <2>4. r = [run[e] EXCEPT !.phase = "committing", !.work = w]
        BY <1>1 DEF RunType
    <2> HIDE DEF w, r
    <2>5. r \in RunType
        BY <1>1, <2>2, <2>4 DEF RunType
    <2>6. r.phase = "committing" /\ r.leg = l
        BY <1>1, <2>4 DEF RunType
    <2>7. r.work = w
        BY <1>1, <2>4 DEF RunType
    <2> QED
        BY <2>1, <2>3, <2>5, <2>6, <2>7, SettledKeeps
<1> QED
    BY <1>2, <1>3, <1>4

(* The three ways a submission ends. *)
LEMMA SubmitKeeps ==
    ASSUME IInv, NEW e \in Execs, SubmitReturns(e) \/ SubmitFails(e) \/ SubmitTimesOut(e)
    PROVE  IInv'
<1>1. /\ run[e].phase = "calling" /\ Row(e) = Submitting
      /\ UNCHANGED <<rows, reply, cancel, pushes, events, outbox>>
    BY DEF SubmitReturns, SubmitFails, SubmitTimesOut, unchangedPush, Row, IInv, RunInv
<1>2. \A to \in {"SUBMITTED", "FAILED", "RECONCILING"} :
        /\ to \in OrderStatus /\ CanTransition("SUBMITTING", to)
        /\ Moved(Submitting, to) \in RowType /\ Fresh(Moved(Submitting, to))
    <2> TAKE to \in {"SUBMITTED", "FAILED", "RECONCILING"}
    <2>1. to \in OrderStatus /\ CanTransition("SUBMITTING", to)
        BY DEF OrderStatus, CanTransition, AllowedTransitions
    <2>2. Audited(Submitting) /\ Submitting \in RowType /\ Submitting.status = "SUBMITTING"
          /\ ~Submitting.known
        BY FirstRows DEF Fresh
    <2>3. Audited(Moved(Submitting, to))
        BY <2>1, <2>2, MovedIsAudited DEF NoRow
    <2>4. /\ Moved(Submitting, to) \in RowType /\ Moved(Submitting, to).status = to
          /\ ~Moved(Submitting, to).known
        BY <2>1, <2>2, MovedRow
    <2> QED
        BY <2>1, <2>3, <2>4 DEF Fresh
<1>3. CASE SubmitReturns(e)
    <2> DEFINE m == Moved(Submitting, "SUBMITTED")
               row == [m EXCEPT !.known = TRUE]
    <2>1. m \in RowType /\ Fresh(m) /\ m.status = "SUBMITTED"
        BY <1>2, MovedRow, FirstRows
    <2> HIDE DEF m
    <2>2. row \in RowType /\ row.status = "SUBMITTED" /\ row.audit = m.audit
        BY <2>1 DEF RowType
    <2>3. Fresh(row)
        BY <2>1, <2>2 DEF Fresh, Audited
    <2>4. LegEnds(e, row, TRUE) /\ reply[Current(e)] = "ok"
        BY <1>1, <1>3 DEF SubmitReturns, m
    <2> QED
        BY <1>1, <2>2, <2>3, <2>4, LegEndsKeeps
<1>4. CASE SubmitFails(e)
    <2>1. LegEnds(e, Moved(Submitting, "FAILED"), FALSE)
        BY <1>1, <1>4 DEF SubmitFails
    <2> QED
        BY <1>1, <1>2, <2>1, LegEndsKeeps
<1>5. CASE SubmitTimesOut(e)
    <2>1. LegEnds(e, Moved(Submitting, "RECONCILING"), FALSE)
        BY <1>1, <1>5 DEF SubmitTimesOut
    <2> QED
        BY <1>1, <1>2, <2>1, LegEndsKeeps
<1> QED
    BY <1>3, <1>4, <1>5

(* Commit shows rows that claim nothing yet: at most that the exchange has  *)
(* the order.                                                               *)
LEMMA CommitKeeps ==
    ASSUME IInv, NEW e \in Execs, Commit(e)
    PROVE  IInv'
<1>1. /\ run[e].phase = "committing" /\ run[e] \in RunType
      /\ UNCHANGED <<ex, reply, cancel, pushes, events, outbox>>
    BY DEF Commit, unchangedPush, IInv, RunsType
<1>2. CASE run[e].collide
    <2>1. run' = [run EXCEPT ![e] = RolledBack(@)] /\ UNCHANGED rows
        BY <1>2 DEF Commit
    <2> QED
        BY <1>1, <2>1, RollbackKeeps
<1>3. CASE ~run[e].collide
    <2> DEFINE b == RolledBack(run[e])
               r == [b EXCEPT !.phase = "done"]
    <2>1. /\ run' = [run EXCEPT ![e] = r]
          /\ rows' = [o \in Orders |-> IF o[1] = e THEN run[e].work[o[2]] ELSE rows[o]]
        BY <1>3 DEF Commit
    <2>2. b \in RunType /\ b.leg = run[e].leg /\ \A k \in 1..MaxLegs : b.work[k] = NoOrder
        BY <1>1, RolledBackRun
    <2> HIDE DEF b
    <2>3. r \in RunType /\ r.phase = "done" /\ r.leg = run[e].leg
          /\ \A k \in 1..MaxLegs : r.work[k] = NoOrder
        BY <2>2 DEF RunType
    <2> HIDE DEF r
    <2>4. /\ run' \in [Execs -> RunType] /\ run'[e] = r
          /\ \A f \in Execs : f # e => run'[f] = run[f]
        BY <2>1, <2>3 DEF IInv, RunsType
    <2>5. \A k \in 1..MaxLegs : run[e].work[k] \in RowType /\ Fresh(run[e].work[k])
        BY <1>1 DEF IInv, RunInv, RunType
    <2>6. \A o \in Orders :
            /\ o[1] = e => rows'[o] \in RowType /\ Fresh(rows'[o]) /\ rows[o] = NoOrder
            /\ o[1] # e => rows'[o] = rows[o]
        BY <1>1, <2>1, <2>5, OrderIds DEF IInv, RunInv
    <2>7. RowsType'
        <3>1. rows' \in [Orders -> RowType]
            BY <2>1, <2>6 DEF IInv, RowsType
        <3>2. \A o \in Orders : rows'[o].known => rows'[o].status # NoRow
            BY <2>6 DEF IInv, RowsType, Fresh, NoRow
        <3> QED
            BY <3>1, <3>2 DEF RowsType
    <2>8. RunsType' /\ ExchangeType' /\ PushType'
        BY <1>1, <2>4 DEF IInv, RunsType, ExchangeType, PushType
    <2>13. CancelInv'
        <3>1. \A o \in Orders : o[1] = e => cancel[o] = "no"
            BY <2>6, FirstRows DEF IInv, CancelInv
        <3> QED
            BY <1>1, <2>6, <3>1 DEF IInv, CancelInv
    <2>9. PushInv' /\ AnswerInv'
        BY <1>1 DEF IInv, PushInv, AnswerInv
    <2>10. RunInv'
        <3>1. \A f \in Execs :
                /\ run'[f].phase = "idle" => run'[f].leg = 0
                /\ run'[f].phase = "calling" => /\ 0 < run'[f].leg /\ run'[f].leg <= run'[f].legs
                                                /\ run'[f].work[run'[f].leg] = Submitting
                /\ run'[f].leg > 1 => reply[<<f, 1>>] = "ok"
            <4> TAKE f \in Execs
            <4>1. CASE f = e
                BY <4>1, <2>3, <2>4 DEF IInv, RunInv
            <4>2. CASE f # e
                BY <4>2, <2>4 DEF IInv, RunInv
            <4> QED
                BY <4>1, <4>2
        <3>2. \A f \in Execs, j \in 1..MaxLegs : Fresh(run'[f].work[j])
            BY <2>3, <2>4, FirstRows DEF IInv, RunInv
        <3>3. \A o \in Orders : run'[o[1]].leg = run[o[1]].leg
            BY <2>3, <2>4, OrderIds
        <3>4. \A o \in Orders : run'[o[1]].phase # "done" =>
                run[o[1]].phase # "done" /\ rows'[o] = rows[o]
            BY <2>3, <2>4, <2>6, OrderIds
        <3>5. \A o \in Orders : o[2] > run'[o[1]].leg => ex'[o] = "None"
            BY <1>1, <3>3 DEF IInv, RunInv
        <3>6. \A o \in Orders : run'[o[1]].phase # "done" => rows'[o] = NoOrder
            BY <3>4 DEF IInv, RunInv
        <3> QED
            BY <1>1, <3>1, <3>2, <3>5, <3>6 DEF RunInv
    <2>11. OutcomeInv'
        <3>1. \A o \in Orders : o[1] = e /\ rows'[o].known => rows'[o].status = "SUBMITTED"
            BY <2>6 DEF Fresh
        <3> QED
            BY <1>1, <2>6, <3>1 DEF IInv, OutcomeInv
    <2>12. RecordInv'
        <3> SUFFICES ASSUME NEW o \in Orders, cancel[o] = "no"
                     PROVE  (Audited(rows[o]) /\ OutboxAgrees(o) /\ Recorded(o))'
            BY <1>1 DEF RecordInv
        <3>1. Audited(rows[o]) /\ OutboxAgrees(o) /\ Recorded(o)
            BY DEF IInv, RecordInv
        <3>2. CASE o[1] = e
            <4>1. rows'[o].status \notin {"FILLED", "CANCELLED"} /\ Audited(rows'[o])
                  /\ (rows'[o].known => rows'[o].status = "SUBMITTED")
                BY <2>6, <3>2 DEF Fresh, NoRow
            <4>2. rows[o].status \notin {"FILLED", "CANCELLED"}
                BY <2>6, <3>2, FirstRows DEF NoRow
            <4> QED
                BY <1>1, <3>1, <4>1, <4>2 DEF OutboxAgrees, Recorded, Audited
        <3>3. CASE o[1] # e
            BY <1>1, <2>6, <3>1, <3>3 DEF OutboxAgrees, Recorded, Audited
        <3> QED
            BY <3>2, <3>3
    <2> QED
        BY <2>7, <2>8, <2>9, <2>10, <2>11, <2>12, <2>13 DEF IInv
<1> QED
    BY <1>2, <1>3

-----------------------------------------------------------------------------
(* The exchange. *)

(* A change at the exchange, with its push, keeps the invariant when it is  *)
(* a move forward.                                                          *)
LEMMA ChangeKeeps ==
    ASSUME IInv, NEW o \in Orders, NEW to \in PushStatus, Changes(o, to),
           ex[o] # "None", Forward(ex[o], to),
           reply' \in [Orders -> {"none", "ok", "refused"}],
           \A p \in Orders : reply'[p] = reply[p] \/ p = o,
           reply[o] = "ok" => reply'[o] = "ok",
           UNCHANGED <<rows, run, events, outbox, cancel>>
    PROVE  IInv'
<1>1. /\ ex' \in [Orders -> {"None", "Requested", "Refused"} \cup PushStatus] /\ ex'[o] = to
      /\ \A p \in Orders : p # o => ex'[p] = ex[p]
    BY DEF Changes, IInv, ExchangeType
<1>2. \A p \in Orders : Forward(ex[p], ex'[p])
    BY <1>1 DEF Forward
<1>3. <<o, to>> \in Orders \X PushStatus /\ pushes \in Seq(Orders \X PushStatus)
      /\ pushes' = Append(pushes, <<o, to>>)
    BY DEF Changes, IInv, PushType
<1>4. /\ Len(pushes') = Len(pushes) + 1 /\ pushes'[Len(pushes) + 1] = <<o, to>>
      /\ \A i \in 1..Len(pushes) : pushes'[i] = pushes[i]
      /\ pushes' \in Seq(Orders \X PushStatus) /\ Len(pushes) \in Nat
    BY <1>3
<1>5. RowsType' /\ RunsType' /\ ExchangeType' /\ PushType' /\ CancelInv'
    BY <1>1, <1>4 DEF IInv, RowsType, RunsType, ExchangeType, PushType, CancelInv
<1>6. PushInv'
    <2> SUFFICES ASSUME NEW i \in 1..Len(pushes')
                 PROVE  NotAhead(pushes'[i][2], ex'[pushes'[i][1]])
        BY DEF PushInv
    <2>1. CASE i = Len(pushes) + 1
        <3>1. pushes'[i][1] = o /\ pushes'[i][2] = to
            BY <2>1, <1>4
        <3>2. NotAhead(to, to)
            BY DEF NotAhead, OnceTraded
        <3> QED
            BY <3>1, <3>2, <1>1
    <2>2. CASE i \in 1..Len(pushes)
        <3>1. pushes[i] \in Orders \X PushStatus /\ pushes'[i] = pushes[i]
            BY <2>2, <1>3, <1>4
        <3>2. pushes[i][1] \in Orders /\ pushes[i][2] \in PushStatus
            BY <3>1
        <3>3. NotAhead(pushes[i][2], ex[pushes[i][1]]) /\ Forward(ex[pushes[i][1]], ex'[pushes[i][1]])
            BY <2>2, <3>2, <1>2 DEF IInv, PushInv
        <3>4. NotAhead(pushes[i][2], ex'[pushes[i][1]])
            BY <3>3 DEF NotAhead, Forward
        <3> QED
            BY <3>1, <3>4
    <2> QED
        BY <2>1, <2>2, <1>4
<1>7. OutcomeInv'
    <2>1. \A p \in Orders : Forward(ex[p], ex'[p]) /\ rows'[p] = rows[p]
        BY <1>2
    <2> QED
        BY <2>1 DEF IInv, OutcomeInv, Forward, FinalStatus
<1>8. AnswerInv'
    BY <1>1 DEF IInv, AnswerInv, PushStatus
<1>9. RunInv'
    <2>1. \A f \in Execs : run[f].leg > 1 => reply'[<<f, 1>>] = "ok"
        <3> SUFFICES ASSUME NEW f \in Execs, run[f].leg > 1
                     PROVE  reply'[<<f, 1>>] = "ok"
            OBVIOUS
        <3>1. reply[<<f, 1>>] = "ok"
            BY DEF IInv, RunInv
        <3>2. <<f, 1>> \in Orders
            BY OrderIds, LongbridgeAssumption
        <3> QED
            BY <3>1, <3>2
    <2>2. \A p \in Orders : p[2] > run[p[1]].leg => ex'[p] = "None"
        BY <1>1 DEF IInv, RunInv
    <2> QED
        BY <2>1, <2>2 DEF IInv, RunInv
<1>10. RecordInv'
    BY DEF IInv, RecordInv, OutboxAgrees, Recorded
<1> QED
    BY <1>5, <1>6, <1>7, <1>8, <1>9, <1>10 DEF IInv

(* The exchange accepts a request. *)
LEMMA AcceptKeeps ==
    ASSUME IInv, NEW o \in Orders, ExchangeAccepts(o)
    PROVE  IInv'
<1>1. /\ ex[o] = "Requested" /\ Changes(o, "WaitToNew") /\ reply' = [reply EXCEPT ![o] = "ok"]
      /\ UNCHANGED <<rows, run, events, outbox, cancel>>
    BY DEF ExchangeAccepts
<1>2. Forward("Requested", "WaitToNew") /\ "WaitToNew" \in PushStatus
    BY DEF Forward, FinalStatus, OnceTraded, PushStatus
<1>3. /\ reply' \in [Orders -> {"none", "ok", "refused"}] /\ reply'[o] = "ok"
      /\ \A p \in Orders : reply'[p] = reply[p] \/ p = o
    BY <1>1 DEF IInv, ExchangeType
<1> QED
    BY <1>1, <1>2, <1>3, ChangeKeeps

(* The exchange refuses a request: no push is sent, and a request that was  *)
(* still open had no answer that could be taken back.                       *)
LEMMA RefuseKeeps ==
    ASSUME IInv, NEW o \in Orders, ExchangeRefuses(o)
    PROVE  IInv'
<1>1. /\ ex[o] = "Requested" /\ ex' = [ex EXCEPT ![o] = "Refused"]
      /\ reply' = [reply EXCEPT ![o] = "refused"]
      /\ UNCHANGED <<rows, run, cancel, pushes, events, outbox>>
    BY DEF ExchangeRefuses, unchangedPush
<1>2. /\ ex' \in [Orders -> {"None", "Requested", "Refused"} \cup PushStatus] /\ ex'[o] = "Refused"
      /\ \A p \in Orders : p # o => ex'[p] = ex[p]
    BY <1>1 DEF IInv, ExchangeType
<1>3. /\ reply' \in [Orders -> {"none", "ok", "refused"}]
      /\ \A p \in Orders : reply'[p] = reply[p] \/ p = o
      /\ reply[o] # "ok"
    BY <1>1 DEF IInv, ExchangeType, AnswerInv
<1>4. RowsType' /\ RunsType' /\ ExchangeType' /\ PushType' /\ CancelInv'
    BY <1>1, <1>2, <1>3 DEF IInv, RowsType, RunsType, ExchangeType, PushType, CancelInv
<1>5. PushInv' /\ OutcomeInv'
    BY <1>1, ForwardKeeps, RequestForward DEF IInv
<1>6. AnswerInv'
    BY <1>2, <1>3 DEF IInv, AnswerInv
<1>7. RunInv'
    <2>1. \A f \in Execs : run[f].leg > 1 => reply'[<<f, 1>>] = "ok"
        <3> SUFFICES ASSUME NEW f \in Execs, run[f].leg > 1
                     PROVE  reply'[<<f, 1>>] = "ok"
            OBVIOUS
        <3>1. reply[<<f, 1>>] = "ok"
            BY DEF IInv, RunInv
        <3>2. <<f, 1>> \in Orders
            BY OrderIds, LongbridgeAssumption
        <3> QED
            BY <3>1, <3>2, <1>3
    <2>2. \A p \in Orders : p[2] > run[p[1]].leg => ex'[p] = "None"
        BY <1>1, <1>2 DEF IInv, RunInv
    <2> QED
        BY <1>1, <2>1, <2>2 DEF IInv, RunInv
<1>8. RecordInv'
    BY <1>1 DEF IInv, RecordInv, OutboxAgrees, Recorded
<1> QED
    BY <1>4, <1>5, <1>6, <1>7, <1>8 DEF IInv

(* The exchange trades, cancels, rejects or lets an order expire. *)
LEMMA ProgressKeeps ==
    ASSUME IInv, NEW o \in Orders, ExchangeProgresses(o)
    PROVE  IInv'
<1>1. PICK to \in ExchangeMoves(ex[o], cancel[o] # "no") : Changes(o, to)
    BY DEF ExchangeProgresses
<1>2. UNCHANGED <<rows, run, reply, events, outbox, cancel>>
    BY DEF ExchangeProgresses
<1>3. ex[o] \in {"None", "Requested", "Refused"} \cup PushStatus
    BY DEF IInv, ExchangeType
<1>4. /\ to \in PushStatus /\ ex[o] \in {"WaitToNew", "New", "PartialFilled", "WaitToCancel"}
      /\ ex[o] \in {"PartialFilled", "WaitToCancel"} => to \in OnceTraded
    BY <1>3 DEF ExchangeMoves, PushStatus, OnceTraded, FinalStatus
<1>5. Forward(ex[o], to) /\ ex[o] # "None"
    BY <1>4 DEF Forward, FinalStatus, OnceTraded
<1>6. reply' \in [Orders -> {"none", "ok", "refused"}] /\ \A p \in Orders : reply'[p] = reply[p]
    BY <1>2 DEF IInv, ExchangeType
<1> QED
    BY <1>1, <1>2, <1>4, <1>5, <1>6, ChangeKeeps

-----------------------------------------------------------------------------
(* The callback. *)

(* The first push on its way, and the pushes after it. *)
LEMMA FirstPush ==
    ASSUME IInv, pushes # << >>, pushes' = Tail(pushes), UNCHANGED ex
    PROVE  /\ Head(pushes)[1] \in Orders /\ Head(pushes)[2] \in PushStatus
           /\ NotAhead(Head(pushes)[2], ex[Head(pushes)[1]])
           /\ PushType' /\ PushInv'
<1>1. pushes \in Seq(Orders \X PushStatus) /\ Len(pushes) \in Nat /\ Len(pushes) # 0
    BY DEF IInv, PushType
<1>2. Head(pushes) = pushes[1] /\ pushes[1] \in Orders \X PushStatus /\ 1 \in 1..Len(pushes)
    BY <1>1
<1>3. /\ pushes' \in Seq(Orders \X PushStatus) /\ Len(pushes') = Len(pushes) - 1
      /\ \A i \in 1..Len(pushes') : pushes'[i] = pushes[i + 1] /\ i + 1 \in 1..Len(pushes)
    BY <1>1
<1>4. PushInv'
    BY <1>3 DEF IInv, PushInv
<1>5. NotAhead(pushes[1][2], ex[pushes[1][1]])
    BY <1>2 DEF IInv, PushInv
<1> QED
    BY <1>2, <1>3, <1>4, <1>5 DEF PushType

(* Losing a push changes no row. *)
LEMMA LoseKeeps ==
    ASSUME IInv, Lose
    PROVE  IInv'
<1>1. pushes # << >> /\ pushes' = Tail(pushes) /\ UNCHANGED <<rows, run, ex, reply, events, outbox, cancel>>
    BY DEF Lose
<1>2. PushType' /\ PushInv'
    BY <1>1, FirstPush
<1>3. RowsType' /\ RunsType' /\ ExchangeType' /\ CancelInv' /\ AnswerInv' /\ OutcomeInv'
    BY <1>1 DEF IInv, RowsType, RunsType, ExchangeType, CancelInv, AnswerInv, OutcomeInv
<1>4. RunInv' /\ RecordInv'
    BY <1>1 DEF IInv, RunInv, RecordInv, OutboxAgrees, Recorded
<1> QED
    BY <1>2, <1>3, <1>4 DEF IInv

(* What _map_order_status makes of a push says no more than the push. *)
LEMMA MappedStatus ==
    ASSUME NEW q \in PushStatus
    PROVE  /\ MapOrderStatus(q) \in OrderStatus \ {NoRow}
           /\ MapOrderStatus(q) = "FILLED" => q = "Filled"
           /\ MapOrderStatus(q) = "CANCELLED" => q \in {"Canceled", "Expired"}
           /\ MapOrderStatus(q) = "FAILED" => q = "Rejected"
           /\ MapOrderStatus(q) = "PARTIALLY_FILLED" => q = "PartialFilled"
BY DEF MapOrderStatus, PushStatus, OrderStatus, NoRow

(* handle_order_event keeps the invariant: the row is moved and announced   *)
(* with the push it is moved by, or left alone.                             *)
LEMMA DeliverKeeps ==
    ASSUME IInv, Deliver
    PROVE  IInv'
<1> DEFINE o == Head(pushes)[1]
           q == Head(pushes)[2]
           to == MapOrderStatus(q)
<1>1. /\ pushes # << >> /\ pushes' = Tail(pushes) /\ HandleOrderEvent(o, q)
      /\ UNCHANGED <<run, ex, reply, cancel>>
    BY DEF Deliver
<1>2. o \in Orders /\ q \in PushStatus /\ NotAhead(q, ex[o]) /\ PushType' /\ PushInv'
    BY <1>1, FirstPush
<1>3. RunsType' /\ ExchangeType' /\ AnswerInv'
    BY <1>1 DEF IInv, RunsType, ExchangeType, AnswerInv
<1> HIDE DEF o, q
<1>4. CASE UNCHANGED <<rows, outbox>> /\ events \subseteq events'
    <2>1. RowsType' /\ CancelInv' /\ OutcomeInv' /\ RunInv'
        BY <1>1, <1>4 DEF IInv, RowsType, CancelInv, OutcomeInv, RunInv
    <2>2. RecordInv'
        BY <1>1, <1>4 DEF IInv, RecordInv, OutboxAgrees, Recorded
    <2> QED
        BY <1>2, <1>3, <2>1, <2>2 DEF IInv
<1>5. CASE /\ rows[o].known /\ to # rows[o].status /\ CanTransition(rows[o].status, to)
           /\ events' = events \cup {<<o, q>>}
           /\ rows' = [rows EXCEPT ![o] = Moved(rows[o], to)]
           /\ outbox' = outbox \cup Announced(o, to)
    <2>1. /\ to \in OrderStatus /\ to # NoRow
          /\ to = "FILLED" => q = "Filled"
          /\ to = "CANCELLED" => q \in {"Canceled", "Expired"}
          /\ to = "FAILED" => q = "Rejected"
          /\ to = "PARTIALLY_FILLED" => q = "PartialFilled"
        BY <1>2, MappedStatus
    <2> HIDE DEF to
    <2>2. rows[o] \in RowType /\ rows[o].status # NoRow
        BY <1>2, <1>5 DEF IInv, RowsType
    <2>3. /\ Moved(rows[o], to) \in RowType /\ Moved(rows[o], to).status = to
          /\ Moved(rows[o], to).known = rows[o].known
        BY <2>1, <2>2, MovedRow
    <2>4. /\ rows' \in [Orders -> RowType] /\ rows'[o] = Moved(rows[o], to)
          /\ \A p \in Orders : p # o => rows'[p] = rows[p]
        BY <1>2, <1>5, <2>3 DEF IInv, RowsType
    <2>5. RowsType' /\ CancelInv'
        BY <1>1, <2>1, <2>3, <2>4 DEF IInv, RowsType, CancelInv
    <2>6. OutcomeInv'
        <3> SUFFICES ASSUME NEW p \in Orders, rows'[p].known
                     PROVE  /\ rows'[p].status = "FILLED" => ex[p] = "Filled"
                            /\ rows'[p].status = "CANCELLED" => ex[p] \in {"Canceled", "Expired"}
                            /\ rows'[p].status = "FAILED" => ex[p] = "Rejected"
                            /\ rows'[p].status = "PARTIALLY_FILLED" => ex[p] \in OnceTraded
            BY <1>1 DEF OutcomeInv
        <3>1. CASE p = o
            BY <3>1, <1>2, <2>1, <2>3, <2>4 DEF NotAhead, FinalStatus
        <3>2. CASE p # o
            BY <3>2, <2>4 DEF IInv, OutcomeInv
        <3> QED
            BY <3>1, <3>2
    <2>7. run[o[1]].phase = "done"
        BY <1>2, <1>5, FirstRows DEF IInv, RunInv
    <2>8. RunInv'
        <3>1. \A p \in Orders : run[p[1]].phase # "done" => rows'[p] = NoOrder
            BY <2>4, <2>7 DEF IInv, RunInv
        <3> QED
            BY <1>1, <3>1 DEF IInv, RunInv
    <2>9. RecordInv'
        <3> SUFFICES ASSUME NEW p \in Orders, cancel[p] = "no"
                     PROVE  (Audited(rows[p]) /\ OutboxAgrees(p) /\ Recorded(p))'
            BY <1>1 DEF RecordInv
        <3>1. Audited(rows[p]) /\ OutboxAgrees(p) /\ Recorded(p)
            BY DEF IInv, RecordInv
        <3>2. CASE p = o
            <4>1. Audited(rows'[o])
                BY <1>5, <2>1, <2>2, <2>4, <3>1, <3>2, MovedIsAudited
            <4>2. rows[o].status \notin {"FILLED", "CANCELLED"}
                BY <1>5 DEF CanTransition, AllowedTransitions
            <4>3. OutboxAgrees(p)'
                <5>1. <<"ORDER_FILLED", p>> \notin outbox /\ <<"ORDER_CANCELLED", p>> \notin outbox
                    BY <3>1, <3>2, <4>2 DEF OutboxAgrees
                <5>2. rows'[p].status = to
                    BY <2>3, <2>4, <3>2
                <5>3. /\ <<"ORDER_FILLED", p>> \in Announced(p, to) <=> to = "FILLED"
                      /\ <<"ORDER_CANCELLED", p>> \in Announced(p, to) <=> to = "CANCELLED"
                    BY DEF Announced
                <5>4. outbox' = outbox \cup Announced(p, to)
                    BY <1>5, <3>2
                <5> QED
                    BY <5>1, <5>2, <5>3, <5>4 DEF OutboxAgrees
            <4>4. Recorded(p)'
                <5>1. rows'[p].status = MapOrderStatus(q) /\ <<p, q>> \in events'
                    BY <1>5, <2>3, <2>4, <3>2 DEF to
                <5> QED
                    BY <1>2, <5>1 DEF Recorded
            <4> QED
                BY <3>2, <4>1, <4>3, <4>4
        <3>3. CASE p # o
            <4>1. rows'[p] = rows[p]
                BY <2>4, <3>3
            <4>2. /\ <<"ORDER_FILLED", p>> \in outbox' <=> <<"ORDER_FILLED", p>> \in outbox
                  /\ <<"ORDER_CANCELLED", p>> \in outbox' <=> <<"ORDER_CANCELLED", p>> \in outbox
                BY <1>5, <3>3 DEF Announced
            <4>3. events \subseteq events'
                BY <1>5
            <4>4. OutboxAgrees(p)'
                BY <3>1, <4>1, <4>2 DEF OutboxAgrees
            <4>5. Recorded(p)'
                BY <3>1, <4>1, <4>3 DEF Recorded
            <4> QED
                BY <3>1, <4>1, <4>4, <4>5
        <3> QED
            BY <3>2, <3>3
    <2> QED
        BY <1>2, <1>3, <2>5, <2>6, <2>8, <2>9 DEF IInv
<1> QED
    BY <1>1, <1>4, <1>5 DEF HandleOrderEvent

-----------------------------------------------------------------------------
(* Cancellation. *)

(* A call to cancel asks and does not write. *)
LEMMA CancelCallKeeps ==
    ASSUME IInv, NEW o \in Orders, CancelCall(o)
    PROVE  IInv'
<1>1. /\ cancel' = [cancel EXCEPT ![o] = "calling"] /\ rows[o].known
      /\ UNCHANGED <<rows, run, ex, reply, pushes, events, outbox>>
    BY DEF CancelCall, unchangedPush
<1>2. /\ cancel' \in [Orders -> {"no", "calling", "asked"}]
      /\ \A p \in Orders : cancel'[p] = "no" => cancel[p] = "no"
      /\ \A p \in Orders : p # o => cancel'[p] = cancel[p]
    BY <1>1 DEF IInv, CancelInv
<1>3. RowsType' /\ RunsType' /\ ExchangeType' /\ PushType' /\ CancelInv'
    BY <1>1, <1>2 DEF IInv, RowsType, RunsType, ExchangeType, PushType, CancelInv
<1>4. PushInv' /\ AnswerInv' /\ RunInv' /\ OutcomeInv'
    BY <1>1 DEF IInv, PushInv, AnswerInv, RunInv, OutcomeInv
<1>5. RecordInv'
    BY <1>1, <1>2 DEF IInv, RecordInv, OutboxAgrees, Recorded
<1> QED
    BY <1>3, <1>4, <1>5 DEF IInv

(* The answer to a cancellation overwrites the row with a status that       *)
(* claims no outcome.                                                       *)
LEMMA CancelEndsKeeps ==
    ASSUME IInv, NEW o \in Orders, CancelReturns(o) \/ CancelFails(o)
    PROVE  IInv'
<1>1. PICK row \in RowType :
        /\ row.status \in {"CANCEL_PENDING", "RECONCILING"} /\ row.known = rows[o].known
        /\ rows' = [rows EXCEPT ![o] = row]
    <2>1. "CANCEL_PENDING" \in OrderStatus /\ "RECONCILING" \in OrderStatus /\ rows[o] \in RowType
        BY DEF OrderStatus, IInv, RowsType
    <2> DEFINE m == Moved(rows[o], "CANCEL_PENDING")
               n == Moved(m, "RECONCILING")
    <2>2. m \in RowType /\ m.status = "CANCEL_PENDING" /\ m.known = rows[o].known
        BY <2>1, MovedRow
    <2>3. n \in RowType /\ n.status = "RECONCILING" /\ n.known = rows[o].known
        BY <2>1, <2>2, MovedRow
    <2>4. rows' = [rows EXCEPT ![o] = m] \/ rows' = [rows EXCEPT ![o] = n]
        BY DEF CancelReturns, CancelFails
    <2> HIDE DEF m, n
    <2> QED
        BY <2>2, <2>3, <2>4
<1>2. /\ cancel[o] = "calling" /\ cancel' = [cancel EXCEPT ![o] = "asked"]
      /\ UNCHANGED <<run, ex, reply, pushes, events, outbox>>
    BY DEF CancelReturns, CancelFails, unchangedPush
<1>3. /\ cancel' \in [Orders -> {"no", "calling", "asked"}] /\ cancel'[o] = "asked"
      /\ \A p \in Orders : p # o => cancel'[p] = cancel[p]
    BY <1>2 DEF IInv, CancelInv
<1>4. /\ rows' \in [Orders -> RowType] /\ rows'[o] = row
      /\ \A p \in Orders : p # o => rows'[p] = rows[p]
    BY <1>1 DEF IInv, RowsType
<1>5. rows[o].known /\ run[o[1]].phase = "done"
    BY <1>2, FirstRows DEF IInv, CancelInv, RunInv
<1>6. RowsType'
    BY <1>1, <1>4 DEF IInv, RowsType, NoRow
<1>7. CancelInv'
    BY <1>1, <1>3, <1>4, <1>5 DEF IInv, CancelInv
<1>8. RunsType' /\ ExchangeType' /\ PushType' /\ PushInv' /\ AnswerInv'
    BY <1>2 DEF IInv, RunsType, ExchangeType, PushType, PushInv, AnswerInv
<1>9. RunInv'
    <2>1. \A p \in Orders : run[p[1]].phase # "done" => rows'[p] = NoOrder
        BY <1>4, <1>5 DEF IInv, RunInv
    <2> QED
        BY <1>2, <2>1 DEF IInv, RunInv
<1>10. OutcomeInv'
    BY <1>1, <1>2, <1>4 DEF IInv, OutcomeInv
<1>11. RecordInv'
    <2>1. \A p \in Orders : cancel'[p] = "no" => cancel[p] = "no" /\ rows'[p] = rows[p]
        BY <1>3, <1>4
    <2> QED
        BY <1>2, <2>1 DEF IInv, RecordInv, OutboxAgrees, Recorded
<1> QED
    BY <1>6, <1>7, <1>8, <1>9, <1>10, <1>11 DEF IInv

-----------------------------------------------------------------------------
(* Every step keeps the invariant. *)
LEMMA StepKeeps == IInv /\ [Next]_vars => IInv'
<1> SUFFICES ASSUME IInv, [Next]_vars PROVE IInv'
    OBVIOUS
<1>1. ASSUME NEW e \in Execs, NEW n \in 1..MaxLegs, NEW same \in BOOLEAN, Begin(e, n, same)
      PROVE  IInv'
    BY <1>1, BeginKeeps
<1>2. ASSUME NEW e \in Execs, SubmitReturns(e) \/ SubmitFails(e) \/ SubmitTimesOut(e)
      PROVE  IInv'
    BY <1>2, SubmitKeeps
<1>3. ASSUME NEW e \in Execs, Commit(e)
      PROVE  IInv'
    BY <1>3, CommitKeeps
<1>4. ASSUME NEW o \in Orders, ExchangeAccepts(o) \/ ExchangeRefuses(o) \/ ExchangeProgresses(o)
      PROVE  IInv'
    BY <1>4, AcceptKeeps, RefuseKeeps, ProgressKeeps
<1>5. CASE Deliver \/ Lose
    BY <1>5, DeliverKeeps, LoseKeeps
<1>6. ASSUME NEW o \in Orders, CancelCall(o) \/ CancelReturns(o) \/ CancelFails(o)
      PROVE  IInv'
    BY <1>6, CancelCallKeeps, CancelEndsKeeps
<1>7. CASE UNCHANGED vars
    <2>1. RowsType' /\ RunsType' /\ ExchangeType' /\ PushType' /\ CancelInv'
        BY <1>7 DEF vars, IInv, RowsType, RunsType, ExchangeType, PushType, CancelInv
    <2>2. PushInv' /\ AnswerInv' /\ RunInv' /\ OutcomeInv'
        BY <1>7 DEF vars, IInv, PushInv, AnswerInv, RunInv, OutcomeInv
    <2>3. RecordInv'
        BY <1>7 DEF vars, IInv, RecordInv, OutboxAgrees, Recorded
    <2> QED
        BY <2>1, <2>2, <2>3 DEF IInv
<1> QED
    BY <1>1, <1>2, <1>3, <1>4, <1>5, <1>6, <1>7 DEF Next

(* For any number of executions and orders, whatever is lost, delayed or    *)
(* cancelled: no row reports an outcome the exchange did not reach, and no  *)
(* bracket order is at the exchange without its order (adapter.py,          *)
(* handle_order_event; trade_executor.py, execute).                         *)
THEOREM NothingIsInvented == Spec => []NothingInvented
<1>1. Init => IInv
    BY InitHolds
<1>2. IInv /\ [Next]_vars => IInv'
    BY StepKeeps
<1>3. IInv => NothingInvented
    <2> SUFFICES ASSUME IInv PROVE NoPhantomOutcome /\ BracketsNeedTheirOrder
        BY DEF NothingInvented
    <2>1. NoPhantomOutcome
        BY DEF IInv, OutcomeInv, NoPhantomOutcome, OnceTraded, FinalStatus
    <2>2. BracketsNeedTheirOrder
        <3> SUFFICES ASSUME NEW o \in Orders, o[2] > 1, ex[o] # "None"
                     PROVE  reply[<<o[1], 1>>] = "ok"
            BY DEF BracketsNeedTheirOrder
        <3>1. o[1] \in Execs /\ o[2] \in Nat /\ run[o[1]].leg \in Nat
            BY OrderIds, LongbridgeAssumption DEF IInv, RunsType, RunType
        <3>2. run[o[1]].leg > 1
            BY <3>1 DEF IInv, RunInv
        <3> QED
            BY <3>1, <3>2 DEF IInv, RunInv
    <2> QED
        BY <2>1, <2>2
<1> QED
    BY <1>1, <1>2, <1>3, PTL DEF Spec

(* Of an order nobody cancels, the tables hold a legal audit trail, a push  *)
(* that explains a final status, and one outbox event per outcome           *)
(* (adapter.py, handle_order_event).                                        *)
THEOREM OutcomesAreOnRecord == Spec => []OutcomesAreRecorded
<1>1. Init => IInv
    BY InitHolds
<1>2. IInv /\ [Next]_vars => IInv'
    BY StepKeeps
<1>3. IInv => OutcomesAreRecorded
    BY DEF IInv, RecordInv, OutcomesAreRecorded, Audited, LegalTrail
<1> QED
    BY <1>1, <1>2, <1>3, PTL DEF Spec
=============================================================================

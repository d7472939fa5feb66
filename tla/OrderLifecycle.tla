--------------------------- MODULE OrderLifecycle ---------------------------
(***************************************************************************)
(* What every part of the system promises about an order: its row is       *)
(* created once and from then on its audited statuses only ever follow     *)
(* the state machine of domain/state_machine.py, one order at a time.  A   *)
(* handler may take several transitions in one transaction.                *)
(***************************************************************************)
EXTENDS Integers, Sequences, OrderStates

CONSTANT Ids

VARIABLE trail       \* trail[o]: the statuses audited for order o

Init == trail = [o \in Ids |-> << >>]

(* Entry n of t is the first row, or a transition assert_order_transition   *)
(* accepts.                                                                 *)
LegalEntry(t, n) ==
    IF n = 1 THEN t[1] = "CREATED" ELSE CanTransition(t[n-1], t[n])

(* Order o gains rows, all of them legal, and keeps those it had. *)
Advance(o) ==
    /\ Len(trail'[o]) > Len(trail[o])
    /\ \A n \in 1..Len(trail[o]) : trail'[o][n] = trail[o][n]
    /\ \A n \in Len(trail[o])+1..Len(trail'[o]) : LegalEntry(trail'[o], n)
    /\ \A p \in Ids \ {o} : trail'[p] = trail[p]

Next == \E o \in Ids : Advance(o)

Spec == Init /\ [][Next]_trail
=============================================================================

---------------------------- MODULE GateContract ----------------------------
(***************************************************************************)
(* What the live-order gate promises the rest of the system, without how:  *)
(* an order reaches the broker only after it was admitted, it is admitted  *)
(* only under an unexpired mandate with no kill switch standing, and what  *)
(* is admitted may still land, or not, whatever happens afterwards.        *)
(*                                                                         *)
(* LiveGate implements this specification; LiveRuntime is built on it.     *)
(***************************************************************************)
CONSTANTS Calls, Sentinels

VARIABLES
  authority,  \* the mandate on file: "none", "live" or "expired"
  halted,     \* the kill switch's sentinels that stand
  order       \* [Calls -> what became of each order call]

contractVars == <<authority, halted, order>>

Stages == {"new", "admitted", "resting", "filled", "over"}

ContractInit ==
  /\ authority = "none" /\ halted = {} /\ order = [k \in Calls |-> "new"]

\* The user commits a mandate: authority begins, or begins again, unless its term has passed
\* by the time the file is written.
Authorise == authority' \in {"live", "expired"} /\ UNCHANGED <<halted, order>>

\* The mandate reaches its expiry.
Expire == authority = "live" /\ authority' = "expired" /\ UNCHANGED <<halted, order>>

Trip(s)  == halted' = halted \cup {s} /\ UNCHANGED <<authority, order>>
Clear(s) == halted' = halted \ {s} /\ UNCHANGED <<authority, order>>

\* A call passes the mandate, the expiry and the kill switch.
Admit(k) ==
  /\ order[k] = "new" /\ authority = "live" /\ halted = {}
  /\ order' = [order EXCEPT ![k] = "admitted"] /\ UNCHANGED <<authority, halted>>

\* The broker takes the order of an admitted call ...
Land(k) ==
  /\ order[k] = "admitted" /\ order' = [order EXCEPT ![k] = "resting"]
  /\ UNCHANGED <<authority, halted>>

\* ... and fills it.
FillOrder(k) ==
  /\ order[k] = "resting" /\ order' = [order EXCEPT ![k] = "filled"]
  /\ UNCHANGED <<authority, halted>>

\* Calls end without an order: refused, failed, or lost with their process.
Drop(K) ==
  /\ K # {} /\ \A k \in K : order[k] \in {"new", "admitted"}
  /\ order' = [k \in Calls |-> IF k \in K THEN "over" ELSE order[k]]
  /\ UNCHANGED <<authority, halted>>

ContractNext ==
  \/ Authorise \/ Expire
  \/ \E s \in Sentinels : Trip(s) \/ Clear(s)
  \/ \E k \in Calls : Admit(k) \/ Land(k) \/ FillOrder(k)
  \/ \E K \in SUBSET Calls : Drop(K)

ContractSpec == ContractInit /\ [][ContractNext]_contractVars
=============================================================================

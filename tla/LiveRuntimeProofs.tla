------------------------- MODULE LiveRuntimeProofs -------------------------
(***************************************************************************)
(* Proofs about the autonomous runner, for any number of calls, jobs and   *)
(* crashes and whatever may fail: the sweep that follows a trip of the     *)
(* kill switch is thorough (ThoroughSweep), and no turn is opened over     *)
(* fills the runner has not recorded (NoUnrecordedFill).                   *)
(*                                                                         *)
(* Both are about what happens between a read of the broker and what is    *)
(* done with it.  SweepInv says what may have changed under a sweep at     *)
(* each of its steps: only orders that came to rest late.  RecordInv       *)
(* accounts for the position: before the first sweep it is the recorded    *)
(* one and the fills since.                                                *)
(***************************************************************************)
EXTENDS LiveRuntime, FiniteSetTheorems, TLAPS

Places == {"idle", "mandate", "orders", "positions", "diff", "turn", "end", "unsafe",
            "untripped"} \cup SweepSteps

TypeInv ==
  /\ authority \in {"none", "live", "expired"}
  /\ order \in [Calls -> Stages]
  /\ qty \in Int /\ closing \in Int /\ size \in Int
  /\ base \in [known : BOOLEAN, orders : SUBSET Calls, qty : Int]
  /\ pc \in Places /\ fired \in BOOLEAN /\ running \in BOOLEAN /\ failed \in BOOLEAN
  /\ seen \subseteq Calls /\ late \subseteq Calls
  /\ since \subseteq Filled /\ recent \subseteq Filled

\* A tick needs a runner, and a runner a mandate.
RunnerInv ==
  /\ pc # "idle" => running
  /\ running => authority # "none"

\* The sweep runs under its latch, once in a life; it closes a position only when the
\* mandate allows it.
LatchInv ==
  /\ pc = "sweep" => ~fired
  /\ pc \in {"cancel", "close"} => fired
  /\ pc = "close" => FlattenOnHalt

\* Under a sweep without failures: what rests is still to be cancelled or came late;
\* nothing is closed before the closing order; the position it has read changes only
\* with a late order, and what it has sent closes what is held.
SweepInv ==
  ~failed =>
    /\ fired => Resting \subseteq late \cup (IF pc = "cancel" THEN seen ELSE {})
    /\ closing # 0 => fired /\ pc \notin SweepSteps /\ FlattenOnHalt
    /\ fired /\ late \cap Filled = {} =>
         /\ pc = "close" => size = qty
         /\ pc \notin SweepSteps /\ FlattenOnHalt => closing = -qty

\* Until the first sweep the position is the recorded one and what was filled since.
RecordInv ==
  /\ pc # "diff" => recent = {}
  /\ ~fired /\ ~failed =>
       /\ pc = "diff" => qty = size + Net(recent)
       /\ base.known => qty = base.qty + Net(since)
       /\ base.known /\ pc = "diff" => recent \subseteq since

IInv == TypeInv /\ RunnerInv /\ LatchInv /\ SweepInv /\ RecordInv

-----------------------------------------------------------------------------
(* The net of a set of orders is an integer, and one more order adds its unit. *)
LEMMA NetAdds ==
  ASSUME NEW K \in SUBSET Calls, NEW k \in Calls, k \notin K
  PROVE  Net(K) \in Int /\ Net(K \cup {k}) = Net(K) + Unit(k)
<1>1. IsFiniteSet(K)
  BY RuntimeAssumption, FS_Subset
<1>2. /\ IsFiniteSet(K \ Sells) /\ IsFiniteSet(K \cap Sells)
      /\ Cardinality(K \ Sells) \in Nat /\ Cardinality(K \cap Sells) \in Nat
  BY <1>1, FS_Subset, FS_CardinalityType
<1>3. CASE k \in Sells
  <2>1. (K \cup {k}) \ Sells = K \ Sells /\ (K \cup {k}) \cap Sells = (K \cap Sells) \cup {k}
    BY <1>3
  <2>2. Cardinality((K \cap Sells) \cup {k}) = Cardinality(K \cap Sells) + 1
    BY <1>2, FS_AddElement
  <2>3. Unit(k) = -1
    BY <1>3 DEF Unit
  <2>4. Net(K \cup {k}) = Cardinality(K \ Sells) - (Cardinality(K \cap Sells) + 1)
    BY <2>1, <2>2 DEF Net
  <2> QED BY <1>2, <2>3, <2>4 DEF Net
<1>4. CASE k \notin Sells
  <2>1. (K \cup {k}) \ Sells = (K \ Sells) \cup {k} /\ (K \cup {k}) \cap Sells = K \cap Sells
    BY <1>4
  <2>2. Cardinality((K \ Sells) \cup {k}) = Cardinality(K \ Sells) + 1
    BY <1>2, FS_AddElement
  <2>3. Unit(k) = 1
    BY <1>4 DEF Unit
  <2>4. Net(K \cup {k}) = (Cardinality(K \ Sells) + 1) - Cardinality(K \cap Sells)
    BY <2>1, <2>2 DEF Net
  <2> QED BY <1>2, <2>3, <2>4 DEF Net
<1> QED BY <1>3, <1>4

LEMMA NetType ==
  /\ \A K \in SUBSET Calls : Net(K) \in Int
  /\ Net({}) = 0
<1>1. ASSUME NEW K \in SUBSET Calls PROVE Net(K) \in Int
  <2>1. IsFiniteSet(K \ Sells) /\ IsFiniteSet(K \cap Sells)
    BY RuntimeAssumption, FS_Subset
  <2> QED BY <2>1, FS_CardinalityType DEF Net
<1>2. Net({}) = 0
  <2>1. {} \ Sells = {} /\ {} \cap Sells = {}
    OBVIOUS
  <2> QED BY <2>1, FS_EmptySet DEF Net
<1> QED BY <1>1, <1>2

LEMMA NetWithout ==
  ASSUME NEW K \in SUBSET Calls, NEW L \in SUBSET K
  PROVE  Net(K \ L) = Net(K) - Net(L)
<1>1. /\ IsFiniteSet(K \ Sells) /\ IsFiniteSet(K \cap Sells)
      /\ IsFiniteSet(L \ Sells) /\ IsFiniteSet(L \cap Sells)
  BY RuntimeAssumption, FS_Subset
<1>2. /\ Cardinality(K \ Sells) \in Nat /\ Cardinality(K \cap Sells) \in Nat
      /\ Cardinality(L \ Sells) \in Nat /\ Cardinality(L \cap Sells) \in Nat
  BY <1>1, FS_CardinalityType
<1>3. /\ (K \ L) \ Sells = (K \ Sells) \ (L \ Sells) /\ (K \ Sells) \cap (L \ Sells) = L \ Sells
      /\ (K \ L) \cap Sells = (K \cap Sells) \ (L \cap Sells)
      /\ (K \cap Sells) \cap (L \cap Sells) = L \cap Sells
  OBVIOUS
<1>4. /\ Cardinality((K \ L) \ Sells) = Cardinality(K \ Sells) - Cardinality(L \ Sells)
      /\ Cardinality((K \ L) \cap Sells) = Cardinality(K \cap Sells) - Cardinality(L \cap Sells)
  <2>1. /\ Cardinality((K \ Sells) \ (L \ Sells))
             = Cardinality(K \ Sells) - Cardinality((K \ Sells) \cap (L \ Sells))
        /\ Cardinality((K \cap Sells) \ (L \cap Sells))
             = Cardinality(K \cap Sells) - Cardinality((K \cap Sells) \cap (L \cap Sells))
    BY <1>1, FS_Difference, Zenon
  <2> QED BY <1>3, <2>1, Zenon
<1> QED BY <1>2, <1>4 DEF Net

(* Where an order goes when one call changes its stage. *)
LEMMA OneOrder ==
  ASSUME TypeInv, NEW k \in Calls, NEW to \in Stages, order' = [order EXCEPT ![k] = to]
  PROVE  /\ order' \in [Calls -> Stages]
         /\ Resting' = IF to = "resting" THEN Resting \cup {k} ELSE Resting \ {k}
         /\ Filled' = IF to = "filled" THEN Filled \cup {k} ELSE Filled \ {k}
BY DEF TypeInv, Resting, Filled

LEMMA RuntimeBegins == RuntimeInit => IInv
<1> SUFFICES ASSUME RuntimeInit PROVE IInv
  OBVIOUS
<1>1. TypeInv
  <2>1. order \in [Calls -> Stages] /\ authority = "none" /\ pc \in Places
    BY DEF RuntimeInit, ContractInit, Stages, Places
  <2>2. base \in [known : BOOLEAN, orders : SUBSET Calls, qty : Int]
    BY DEF RuntimeInit, NoBase
  <2>3. qty \in Int /\ closing \in Int /\ size \in Int
    BY DEF RuntimeInit
  <2>4. fired \in BOOLEAN /\ running \in BOOLEAN /\ failed \in BOOLEAN
    BY Zenon DEF RuntimeInit
  <2>5. seen = {} /\ late = {} /\ since = {} /\ recent = {}
    BY DEF RuntimeInit
  <2> QED BY <2>1, <2>2, <2>3, <2>4, <2>5 DEF TypeInv
<1>2. RunnerInv /\ LatchInv /\ SweepInv /\ RecordInv
  BY DEF RuntimeInit, NoBase, RunnerInv, LatchInv, SweepInv, RecordInv, SweepSteps
<1> QED BY <1>1, <1>2 DEF IInv

-----------------------------------------------------------------------------
(* The scheduler and the surroundings. *)

(* What the sweep and the records are about does not change. *)
Untouched == UNCHANGED <<order, qty, closing, size, base, pc, fired, failed, seen, late, since, recent>>

LEMMA Bystanders ==
  ASSUME IInv, Untouched, authority' \in {"none", "live", "expired"}, running' \in BOOLEAN,
         running => running', authority # "none" => authority' # "none",
         running' => authority' # "none"
  PROVE  IInv'
<1>1. Resting' = Resting /\ Filled' = Filled
  BY DEF Untouched, Resting, Filled
<1>2. TypeInv'
  BY <1>1 DEF IInv, TypeInv, Untouched
<1>3. RunnerInv' /\ LatchInv'
  BY DEF IInv, RunnerInv, LatchInv, Untouched
<1>4. SweepInv'
  BY <1>1 DEF IInv, SweepInv, Untouched
<1>5. RecordInv'
  BY <1>1 DEF IInv, RecordInv, Untouched, Net
<1> QED BY <1>2, <1>3, <1>4, <1>5 DEF IInv

LEMMA SchedulerKeeps ==
  ASSUME IInv,
         \/ FireDue \/ (\E j \in Jobs : Elapse(j) \/ RemoveJob(j))
         \/ (\E given \in {{}, OneShot} : RunLoop(given)) \/ Outside \/ Age
  PROVE  IInv'
<1>1. Untouched
  BY DEF FireDue, Elapse, RemoveJob, RunLoop, Outside, Age, Untouched, broker, tickVars, ghosts,
         schedVars, Authorise, Expire, Trip, Clear
<1>2. authority \in {"none", "live", "expired"} /\ running \in BOOLEAN
      /\ (running => authority # "none")
  BY DEF IInv, TypeInv, RunnerInv
<1>3. CASE Outside
  <2>1. authority' \in {"none", "live", "expired"} /\ (authority # "none" => authority' # "none")
    BY <1>2, <1>3 DEF Outside, Authorise, Expire, Trip, Clear
  <2>2. running' = running
    BY <1>3 DEF Outside, schedVars
  <2> QED BY <1>1, <1>2, <2>1, <2>2, Bystanders
<1>4. CASE \E given \in {{}, OneShot} : RunLoop(given)
  <2>1. authority' = authority /\ ~running
    BY <1>4 DEF RunLoop
  <2>2. running' = running \/ (running' = TRUE /\ authority # "none")
    BY <1>4 DEF RunLoop
  <2>3. running' \in BOOLEAN /\ (running' => authority' # "none")
    <3>1. CASE running' = running
      BY <1>2, <2>1, <3>1, Zenon
    <3>2. CASE running' = TRUE /\ authority # "none"
      BY <2>1, <3>2, Zenon
    <3> QED BY <2>2, <3>1, <3>2, Zenon
  <2> QED BY <1>1, <1>2, <2>1, <2>3, Bystanders, Zenon
<1>5. CASE FireDue \/ (\E j \in Jobs : Elapse(j) \/ RemoveJob(j)) \/ Age
  <2>1. authority' = authority /\ running' = running
    BY <1>5 DEF FireDue, Elapse, RemoveJob, Age
  <2> QED BY <1>1, <1>2, <2>1, Bystanders
<1> QED BY <1>3, <1>4, <1>5

(* An order call is admitted, or ends: the book does not change. *)
LEMMA BookKept ==
  ASSUME IInv, NEW k \in Calls, NEW to \in {"admitted", "over"}, order[k] \in {"new", "admitted"},
         order' = [order EXCEPT ![k] = to]
  PROVE  order' \in [Calls -> Stages] /\ Resting' = Resting /\ Filled' = Filled
<1>1. TypeInv /\ to \in Stages /\ to # "resting" /\ to # "filled"
      /\ k \notin Resting /\ k \notin Filled
  BY DEF IInv, Stages, Resting, Filled
<1>2. /\ order' \in [Calls -> Stages]
      /\ Resting' = IF to = "resting" THEN Resting \cup {k} ELSE Resting \ {k}
      /\ Filled' = IF to = "filled" THEN Filled \cup {k} ELSE Filled \ {k}
  BY <1>1, OneOrder, Zenon
<1> QED BY <1>1, <1>2

(* The book, the position and the ghosts stay. *)
LEMMA QuietOrders ==
  ASSUME IInv, order' \in [Calls -> Stages], Resting' = Resting, Filled' = Filled,
         UNCHANGED <<authority, running, qty, closing, size, base, pc, fired, failed, seen, late,
                     since, recent>>
  PROVE  IInv'
<1>1. TypeInv' /\ RunnerInv' /\ LatchInv'
  BY DEF IInv, TypeInv, RunnerInv, LatchInv
<1>2. SweepInv'
  BY DEF IInv, SweepInv
<1>3. RecordInv'
  BY DEF IInv, RecordInv, Net
<1> QED BY <1>1, <1>2, <1>3 DEF IInv

LEMMA AdmitKeeps ==
  ASSUME IInv, NEW k \in Calls, AdmitOrder(k)
  PROVE  IInv'
<1>1. order[k] = "new" /\ order' = [order EXCEPT ![k] = "admitted"]
  BY DEF AdmitOrder, Admit
<1>2. UNCHANGED <<authority, running, qty, closing, size, base, pc, fired, failed, seen, late,
                  since, recent>>
  BY DEF AdmitOrder, Admit, tickVars, schedVars, ghosts
<1> QED BY <1>1, <1>2, BookKept, QuietOrders

LEMMA DropKeeps ==
  ASSUME IInv, NEW k \in Calls, DropOrder(k)
  PROVE  IInv'
<1>1. order[k] = "admitted" /\ order' = [order EXCEPT ![k] = "over"]
  BY DEF IInv, TypeInv, DropOrder, Drop
<1>2. UNCHANGED <<authority, running, qty, closing, size, base, pc, fired, failed, seen, late,
                  since, recent>>
  BY DEF DropOrder, Drop, tickVars, schedVars, ghosts
<1> QED BY <1>1, <1>2, BookKept, QuietOrders

(* An order that comes to rest under the latch is late. *)
LEMMA RestKeeps ==
  ASSUME IInv, NEW k \in Calls, LandOrder(k) \/ ForeignOrder(k)
  PROVE  IInv'
<1>1. /\ order' = [order EXCEPT ![k] = "resting"] /\ order[k] \in {"new", "admitted"}
      /\ late' = IF fired THEN late \cup {k} ELSE late
  BY DEF LandOrder, Land, ForeignOrder
<1>2. UNCHANGED <<authority, running, qty, closing, size, base, pc, fired, failed, seen, since, recent>>
  BY DEF LandOrder, Land, ForeignOrder, tickVars, schedVars
<1>3. order' \in [Calls -> Stages] /\ Resting' = Resting \cup {k} /\ Filled' = Filled /\ k \notin Filled
  <2>1. TypeInv /\ "resting" \in Stages /\ k \notin Filled
    BY <1>1 DEF IInv, Stages, Filled
  <2>2. /\ order' \in [Calls -> Stages]
        /\ Resting' = IF "resting" = "resting" THEN Resting \cup {k} ELSE Resting \ {k}
        /\ Filled' = IF "resting" = "filled" THEN Filled \cup {k} ELSE Filled \ {k}
    BY <1>1, <2>1, OneOrder, Zenon
  <2> QED BY <2>1, <2>2
<1>4. TypeInv' /\ RunnerInv' /\ LatchInv'
  BY <1>1, <1>2, <1>3 DEF IInv, TypeInv, RunnerInv, LatchInv
<1>5. late' \cap Filled' = late \cap Filled
  BY <1>1, <1>3
<1>6. SweepInv'
  BY <1>1, <1>2, <1>3, <1>5 DEF IInv, SweepInv
<1>7. RecordInv'
  BY <1>2 DEF IInv, RecordInv, Net
<1> QED BY <1>4, <1>6, <1>7 DEF IInv

(* A fill after the sweep is of a late order, and one before it is recorded *)
(* as having come since.                                                    *)
LEMMA FillKeeps ==
  ASSUME IInv, NEW k \in Calls, Fill(k)
  PROVE  IInv'
<1>1. /\ order' = [order EXCEPT ![k] = "filled"] /\ order[k] = "resting" /\ qty' = qty + Unit(k)
      /\ since' = (IF base.known THEN since \cup {k} ELSE since)
      /\ recent' = (IF pc = "diff" THEN recent \cup {k} ELSE recent)
  BY DEF Fill, FillOrder
<1>2. UNCHANGED <<authority, running, closing, size, base, pc, fired, failed, seen, late>>
  BY DEF Fill, FillOrder, tickVars, schedVars
<1>3. TypeInv /\ k \in Resting /\ k \notin Filled /\ k \notin since /\ k \notin recent
  BY <1>1 DEF IInv, TypeInv, Resting, Filled
<1>4. order' \in [Calls -> Stages] /\ Resting' = Resting \ {k} /\ Filled' = Filled \cup {k}
  BY <1>1, <1>3, OneOrder DEF Stages
<1>5. Unit(k) \in Int
  BY DEF Unit
<1>6. TypeInv'
  BY <1>1, <1>2, <1>3, <1>4, <1>5 DEF TypeInv
<1>7. RunnerInv' /\ LatchInv'
  BY <1>2 DEF IInv, RunnerInv, LatchInv
<1>8. SweepInv'
  <2> SUFFICES ASSUME ~failed PROVE SweepInv'
    BY <1>2 DEF SweepInv
  <2>1. fired => Resting' \subseteq late' \cup (IF pc' = "cancel" THEN seen' ELSE {})
    BY <1>2, <1>4 DEF IInv, SweepInv
  <2>2. closing' # 0 => fired' /\ pc' \notin SweepSteps /\ FlattenOnHalt
    BY <1>2 DEF IInv, SweepInv
  <2>3. fired /\ pc # "cancel" => k \in late' \cap Filled'
    BY <1>2, <1>3, <1>4 DEF IInv, SweepInv
  <2> QED BY <1>2, <2>1, <2>2, <2>3 DEF SweepInv, SweepSteps
<1>9. RecordInv'
  <2>1. /\ since \in SUBSET Calls /\ recent \in SUBSET Calls
    BY <1>3 DEF TypeInv, Filled
  <2>2. Net(since \cup {k}) = Net(since) + Unit(k) /\ Net(recent \cup {k}) = Net(recent) + Unit(k)
    BY <1>3, <2>1, NetAdds
  <2>3. Net(since) \in Int /\ Net(recent) \in Int
    BY <2>1, NetType
  <2>4. /\ pc # "diff" => recent = {}
        /\ ~fired /\ ~failed =>
             /\ pc = "diff" => qty = size + Net(recent)
             /\ base.known => qty = base.qty + Net(since)
             /\ base.known /\ pc = "diff" => recent \subseteq since
    BY DEF IInv, RecordInv
  <2>5. qty \in Int /\ size \in Int /\ base.qty \in Int
    BY <1>3 DEF TypeInv
  <2>6. ~fired /\ ~failed /\ pc = "diff" => qty' = size + Net(recent')
    BY <1>1, <2>2, <2>3, <2>4, <2>5, <1>5
  <2>7. ~fired /\ ~failed /\ base.known => qty' = base.qty + Net(since')
    BY <1>1, <2>2, <2>3, <2>4, <2>5, <1>5
  <2>8. ~fired /\ ~failed /\ base.known /\ pc = "diff" => recent' \subseteq since'
    BY <1>1, <2>4
  <2>9. pc # "diff" => recent' = {}
    BY <1>1, <2>4
  <2> QED BY <1>2, <2>6, <2>7, <2>8, <2>9 DEF RecordInv, Net
<1> QED BY <1>6, <1>7, <1>8, <1>9 DEF IInv

LEMMA FillCloseKeeps ==
  ASSUME IInv, FillClose
  PROVE  IInv'
<1>1. closing # 0 /\ qty' = qty + closing /\ closing' = 0
  BY DEF FillClose
<1>2. /\ UNCHANGED <<authority, running, order, size, base, pc, fired, failed, seen, late, since, recent>>
      /\ Resting' = Resting /\ Filled' = Filled
  BY DEF FillClose, tickVars, schedVars, ghosts, Resting, Filled
<1>3. TypeInv' /\ RunnerInv' /\ LatchInv'
  BY <1>1, <1>2 DEF IInv, TypeInv, RunnerInv, LatchInv
<1>4. ~failed => fired /\ pc \notin SweepSteps
  BY <1>1 DEF IInv, SweepInv
<1>5. SweepInv'
  BY <1>1, <1>2, <1>4 DEF IInv, TypeInv, SweepInv, SweepSteps
<1>6. RecordInv'
  BY <1>2, <1>4 DEF IInv, RecordInv
<1> QED BY <1>3, <1>5, <1>6 DEF IInv

-----------------------------------------------------------------------------
(* The tick. *)

(* Neither a sweep nor a position read is under way; the baseline may be lost. *)
LEMMA TickMoves ==
  ASSUME IInv, pc \notin SweepSteps \cup {"diff"},
         UNCHANGED <<order, qty, closing, fired, failed, late, since, recent, authority, running>>,
         base' = base \/ base' = NoBase,
         pc' \in Places \ {"diff", "cancel", "close"}, pc' = "sweep" => ~fired,
         pc' # "idle" => running, seen' \subseteq Calls, size' \in Int
  PROVE  IInv'
<1>1. Resting' = Resting /\ Filled' = Filled
  BY DEF Resting, Filled
<1>2. TypeInv' /\ RunnerInv' /\ LatchInv'
  <2>1. base' \in [known : BOOLEAN, orders : SUBSET Calls, qty : Int]
    <3>1. CASE base' = base
      BY <3>1 DEF IInv, TypeInv
    <3>2. CASE base' = NoBase
      <4>1. NoBase \in [known : BOOLEAN, orders : SUBSET Calls, qty : Int]
        BY DEF NoBase
      <4> QED BY ONLY <3>2, <4>1, Zenon
    <3> QED BY <3>1, <3>2
  <2> QED BY <1>1, <2>1 DEF IInv, TypeInv, RunnerInv, LatchInv
<1>3. SweepInv'
  BY <1>1 DEF IInv, SweepInv, SweepSteps
<1>4. RecordInv'
  <2>1. base'.known => base' = base
    BY DEF NoBase
  <2> QED BY <2>1 DEF IInv, RecordInv
<1> QED BY <1>2, <1>3, <1>4 DEF IInv

LEMMA TickKeeps ==
  ASSUME IInv, \/ LoadMandate \/ ReadOrders \/ EndTurn \/ AdvanceAfterFire
               \/ \E j \in Jobs : BeginTick(j)
  PROVE  IInv'
<1>1. TypeInv /\ RunnerInv
  BY DEF IInv
<1>2. UNCHANGED <<order, qty, closing, fired, failed, late, since, recent, authority, running>>
  BY DEF LoadMandate, ReadOrders, EndTurn, AdvanceAfterFire, BeginTick, broker, schedVars, ghosts
<1>5. base' = base \/ base' = NoBase
  BY DEF LoadMandate, ReadOrders, LoadState, EndTurn, AdvanceAfterFire, BeginTick
<1>3. CASE LoadMandate \/ ReadOrders \/ EndTurn \/ AdvanceAfterFire
  <2>1. /\ pc \notin SweepSteps \cup {"diff"} /\ pc # "idle"
        /\ pc' \in Places \ {"diff", "cancel", "close", "sweep"}
    <3>1. /\ pc \in {"mandate", "orders", "turn", "end", "unsafe", "untripped"}
          /\ pc' \in {"orders", "positions", "end", "idle", "untripped"}
      <4>1. CASE LoadMandate
        BY <4>1 DEF LoadMandate
      <4>2. CASE ReadOrders
        BY <4>2 DEF ReadOrders
      <4>3. CASE EndTurn
        BY <4>3 DEF EndTurn
      <4>4. CASE AdvanceAfterFire
        BY <4>4 DEF AdvanceAfterFire
      <4> QED BY <1>3, <4>1, <4>2, <4>3, <4>4
    <3> QED BY <3>1 DEF Places, SweepSteps
  <2>2. seen' \subseteq Calls /\ size' \in Int
    BY <1>1, <1>3 DEF LoadMandate, ReadOrders, EndTurn, AdvanceAfterFire, TypeInv, Resting
  <2> QED BY <1>1, <1>2, <1>5, <2>1, <2>2, TickMoves DEF RunnerInv
<1>4. CASE \E j \in Jobs : BeginTick(j)
  <2>1. /\ running /\ pc = "idle" /\ pc' = AfterHaltCheck /\ seen' = seen /\ size' = size
    BY <1>4 DEF BeginTick
  <2>2. pc' \in {"mandate", "end", "sweep"} /\ (pc' = "sweep" => ~fired)
    BY <2>1 DEF AfterHaltCheck
  <2>3. pc \notin SweepSteps \cup {"diff"} /\ pc' \in Places \ {"diff", "cancel", "close"}
    BY <2>1, <2>2 DEF SweepSteps, Places
  <2> QED BY <1>1, <1>2, <1>5, <2>1, <2>2, <2>3, TickMoves DEF TypeInv
<1> QED BY <1>3, <1>4

(* What is read of the position is what is held at that moment. *)
LEMMA ReadPositionsKeeps ==
  ASSUME IInv, ReadPositions
  PROVE  IInv'
<1>1. TypeInv /\ RunnerInv /\ pc = "positions"
  BY DEF IInv, ReadPositions
<1>2. UNCHANGED <<order, qty, closing, base, fired, failed, late, since, recent, authority, running, seen>>
  BY DEF ReadPositions, broker, schedVars, ghosts
<1>3. CASE pc' = "end" /\ size' = size
  <2>1. /\ pc \notin SweepSteps \cup {"diff"} /\ pc' \in Places \ {"diff", "cancel", "close", "sweep"}
        /\ pc # "idle"
    BY <1>1, <1>3 DEF Places, SweepSteps
  <2> QED BY <1>1, <1>2, <1>3, <2>1, TickMoves DEF RunnerInv, TypeInv
<1>4. CASE pc' = "diff" /\ size' = qty
  <2>1. Resting' = Resting /\ Filled' = Filled
    BY <1>2 DEF Resting, Filled
  <2>2. TypeInv' /\ RunnerInv' /\ LatchInv'
    BY <1>1, <1>2, <1>4, <2>1 DEF IInv, TypeInv, RunnerInv, LatchInv, Places
  <2>3. SweepInv'
    BY <1>1, <1>2, <1>4, <2>1 DEF IInv, SweepInv, SweepSteps
  <2>4. recent = {} /\ Net({}) = 0 /\ qty = qty + 0
    BY <1>1, NetType DEF IInv, RecordInv, TypeInv
  <2>5. RecordInv'
    BY <1>1, <1>2, <1>4, <2>4 DEF IInv, RecordInv
  <2> QED BY <2>2, <2>3, <2>5 DEF IInv
<1> QED BY <1>3, <1>4 DEF ReadPositions

(* The baseline is what was read, and what was filled since then stays on record. *)
LEMMA ReconcileKeeps ==
  ASSUME IInv, Reconcile
  PROVE  IInv'
<1>1. TypeInv /\ RunnerInv /\ pc = "diff" /\ recent' = {}
  BY DEF IInv, Reconcile
<1>2. UNCHANGED <<order, qty, closing, fired, failed, late, authority, running, seen, size>>
  BY DEF Reconcile, broker, schedVars
<1>3. \/ pc' = "unsafe" /\ base' = base /\ since' = since
      \/ pc' = "turn" /\ base' = Baseline /\ since' = recent
      \/ pc' = "end" /\ base' = base /\ since' = since
  BY DEF Reconcile
<1>4. Resting' = Resting /\ Filled' = Filled
  BY <1>2 DEF Resting, Filled
<1>5. TypeInv'
  <2>1. Baseline \in [known : BOOLEAN, orders : SUBSET Calls, qty : Int]
    BY <1>1 DEF TypeInv, Baseline
  <2> QED BY <1>1, <1>2, <1>3, <1>4, <2>1 DEF TypeInv, Places
<1>6. RunnerInv' /\ LatchInv'
  BY <1>1, <1>2, <1>3 DEF IInv, RunnerInv, LatchInv
<1>7. SweepInv'
  BY <1>1, <1>2, <1>3, <1>4 DEF IInv, SweepInv, SweepSteps
<1>8. RecordInv'
  <2>1. Baseline.qty = size
    BY DEF Baseline
  <2> QED BY <1>1, <1>2, <1>3, <2>1 DEF IInv, RecordInv
<1> QED BY <1>5, <1>6, <1>7, <1>8 DEF IInv

-----------------------------------------------------------------------------
(* The sweep. *)

LEMMA SweepReadKeeps ==
  ASSUME IInv, SweepRead
  PROVE  IInv'
<1>1. TypeInv /\ pc = "sweep" /\ pc' = "cancel" /\ fired' = TRUE /\ late' = {} /\ ~fired
  BY DEF IInv, LatchInv, SweepRead
<1>2. /\ UNCHANGED <<order, qty, closing, base, authority, running, size, since, recent>>
      /\ \/ seen' = Resting /\ failed' = failed
         \/ seen' = {} /\ failed' = TRUE
  BY DEF SweepRead, broker, schedVars
<1>3. Resting' = Resting /\ Filled' = Filled /\ Resting \subseteq Calls
  BY <1>2 DEF Resting, Filled
<1>4. TypeInv' /\ RunnerInv' /\ LatchInv'
  <2>1. failed' \in BOOLEAN
    BY <1>1, <1>2, Zenon DEF TypeInv
  <2> QED BY <1>1, <1>2, <1>3, <2>1 DEF IInv, TypeInv, RunnerInv, LatchInv, Places, SweepSteps
<1>5. SweepInv'
  <2> SUFFICES ASSUME ~failed' PROVE SweepInv'
    BY DEF SweepInv
  <2>1. ~failed /\ seen' = Resting
    BY <1>2
  <2>2. closing = 0
    BY <1>1, <2>1 DEF IInv, SweepInv
  <2> QED BY <1>1, <1>2, <1>3, <2>1, <2>2 DEF SweepInv, SweepSteps
<1>6. RecordInv'
  BY <1>1, <1>2 DEF IInv, RecordInv
<1> QED BY <1>4, <1>5, <1>6 DEF IInv

(* A cancel that succeeds takes its order out of the book. *)
LEMMA CancelKeeps ==
  ASSUME IInv, NEW k \in Calls, CancelOne(k)
  PROVE  IInv'
<1>1. /\ TypeInv /\ LatchInv /\ pc = "cancel" /\ fired /\ running
      /\ seen' = seen \ {k} /\ pc' \in {"cancel", "end"}
  BY DEF IInv, LatchInv, RunnerInv, CancelOne
<1>2. UNCHANGED <<qty, closing, base, authority, running, size, fired, late, since, recent>>
  BY DEF CancelOne, schedVars
<1>3. \/ order' = order
      \/ order' = [order EXCEPT ![k] = IF order[k] = "resting" THEN "over" ELSE order[k]]
  BY DEF CancelOne
<1>4. /\ order' \in [Calls -> Stages] /\ Filled' = Filled /\ Resting' \subseteq Resting
      /\ order' # order => Resting' \subseteq Resting \ {k}
  BY <1>1, <1>3 DEF TypeInv, Stages, Resting, Filled
<1>5. failed' \in BOOLEAN /\ (~failed' => ~failed /\ pc' = "cancel" /\ k \notin Resting')
  <2>1. CASE failed' = failed
    <3>1. pc' = "cancel" \/ failed
      BY <1>1, <2>1 DEF CancelOne
    <3>2. failed \/ order' = [order EXCEPT ![k] = IF order[k] = "resting" THEN "over" ELSE order[k]]
      BY <2>1 DEF CancelOne
    <3>3. failed \/ k \notin Resting'
      BY <1>1, <3>2 DEF TypeInv, Resting
    <3> QED BY <1>1, <2>1, <3>1, <3>3 DEF TypeInv
  <2>2. CASE failed' = TRUE
    BY <2>2
  <2> QED BY <2>1, <2>2 DEF CancelOne
<1>6. TypeInv' /\ RunnerInv' /\ LatchInv'
  BY <1>1, <1>2, <1>4, <1>5 DEF IInv, TypeInv, RunnerInv, LatchInv, Places, SweepSteps
<1>7. SweepInv'
  BY <1>1, <1>2, <1>4, <1>5 DEF IInv, SweepInv, SweepSteps
<1>8. RecordInv'
  BY <1>1, <1>2 DEF IInv, RecordInv
<1> QED BY <1>6, <1>7, <1>8 DEF IInv

(* The whole position is read, or nothing is closed. *)
LEMMA FlattenReadKeeps ==
  ASSUME IInv, FlattenRead
  PROVE  IInv'
<1>1. /\ TypeInv /\ pc = "cancel" /\ seen = {} /\ fired /\ running /\ authority # "none"
  BY DEF IInv, LatchInv, RunnerInv, FlattenRead
<1>2. /\ UNCHANGED <<order, qty, closing, base, authority, running, seen, fired, late, since, recent>>
      /\ Resting' = Resting /\ Filled' = Filled
  BY DEF FlattenRead, broker, schedVars, Resting, Filled
<1>3. \/ /\ FlattenOnHalt /\ failed' = failed /\ size' = qty
         /\ pc' = IF qty = 0 THEN "end" ELSE "close"
      \/ size' = 0 /\ pc' = "end" /\ failed' = TRUE
      \/ ~FlattenOnHalt /\ pc' = "end" /\ size' = size /\ failed' = failed
  BY <1>1 DEF FlattenRead, AllowFlatten
<1>4. TypeInv' /\ RunnerInv' /\ LatchInv'
  <2>1. pc' \in {"end", "close"} /\ size' \in Int
    BY <1>1, <1>3 DEF TypeInv
  <2>2. failed' \in BOOLEAN
    BY <1>1, <1>3, Zenon DEF TypeInv
  <2>3. pc' = "close" => FlattenOnHalt
    BY <1>3
  <2> QED BY <1>1, <1>2, <2>1, <2>2, <2>3 DEF IInv, TypeInv, RunnerInv, LatchInv, Places, SweepSteps
<1>5. SweepInv'
  <2> SUFFICES ASSUME ~failed' PROVE SweepInv'
    BY DEF SweepInv
  <2>1. ~failed /\ closing = 0 /\ Resting \subseteq late
    BY <1>1, <1>3 DEF IInv, SweepInv, SweepSteps
  <2> QED BY <1>1, <1>2, <1>3, <2>1 DEF TypeInv, SweepInv, SweepSteps
<1>6. RecordInv'
  BY <1>1, <1>2, <1>3 DEF IInv, RecordInv
<1> QED BY <1>4, <1>5, <1>6 DEF IInv

(* The closing order is for what is held, unless something came late. *)
LEMMA CloseKeeps ==
  ASSUME IInv, CloseOne
  PROVE  IInv'
<1>1. TypeInv /\ pc = "close" /\ pc' = "end" /\ fired /\ running /\ FlattenOnHalt
  BY DEF IInv, LatchInv, RunnerInv, CloseOne
<1>2. /\ UNCHANGED <<order, qty, size, base, authority, running, seen, fired, late, since, recent>>
      /\ Resting' = Resting /\ Filled' = Filled
  BY DEF CloseOne, schedVars, Resting, Filled
<1>3. \/ closing' = closing - size /\ failed' = failed
      \/ failed' = TRUE /\ closing' = closing
  BY DEF CloseOne
<1>4. TypeInv' /\ RunnerInv' /\ LatchInv'
  <2>1. failed' \in BOOLEAN
    BY <1>1, <1>3, Zenon DEF TypeInv
  <2>2. closing' \in Int
    BY <1>1, <1>3 DEF TypeInv
  <2> QED BY <1>1, <1>2, <2>1, <2>2 DEF IInv, TypeInv, RunnerInv, LatchInv, Places
<1>5. SweepInv'
  <2> SUFFICES ASSUME ~failed' PROVE SweepInv'
    BY DEF SweepInv
  <2>1. /\ ~failed /\ closing = 0 /\ Resting \subseteq late /\ closing' = closing - size
        /\ late \cap Filled = {} => size = qty
    BY <1>1, <1>3 DEF IInv, SweepInv, SweepSteps
  <2> QED BY <1>1, <1>2, <2>1 DEF TypeInv, SweepInv, SweepSteps
<1>6. RecordInv'
  BY <1>1, <1>2 DEF IInv, RecordInv
<1> QED BY <1>4, <1>5, <1>6 DEF IInv

(* A crash loses the latch, so it counts as a failure of the sweep. *)
LEMMA CrashKeeps ==
  ASSUME IInv, Crash
  PROVE  IInv'
<1>1. /\ TypeInv /\ pc' = "idle" /\ seen' = {} /\ size' = 0 /\ fired' = FALSE /\ running' = FALSE
      /\ recent' = {} /\ failed' = (failed \/ fired)
      /\ UNCHANGED <<authority, order, qty, closing, base, late, since>>
  BY DEF IInv, Crash, broker
<1>3. order' \in [Calls -> Stages] /\ Resting' = Resting /\ Filled' = Filled
  BY <1>1 DEF TypeInv, Resting, Filled
<1>4. failed' \in BOOLEAN /\ (~failed' => ~failed /\ ~fired)
  BY <1>1 DEF TypeInv
<1>5. TypeInv' /\ RunnerInv' /\ LatchInv'
  <2>1. /\ pc' \in Places /\ size' \in Int /\ seen' \subseteq Calls /\ recent' \subseteq Filled'
    BY <1>1 DEF Places
  <2>2. fired' \in BOOLEAN /\ running' \in BOOLEAN
    BY <1>1, Zenon
  <2>4. TypeInv'
    BY <1>1, <1>3, <1>4, <2>1, <2>2 DEF TypeInv
  <2>3. RunnerInv' /\ LatchInv'
    BY <1>1 DEF RunnerInv, LatchInv
  <2> QED BY <2>3, <2>4
<1>6. SweepInv'
  BY <1>1, <1>4 DEF IInv, SweepInv, SweepSteps
<1>7. RecordInv'
  BY <1>1, <1>4 DEF IInv, RecordInv
<1> QED BY <1>5, <1>6, <1>7 DEF IInv

-----------------------------------------------------------------------------
LEMMA RuntimeGoesOn == IInv /\ [RuntimeNext]_runtimeVars => IInv'
<1> SUFFICES ASSUME IInv, [RuntimeNext]_runtimeVars PROVE IInv'
  OBVIOUS
<1>1. CASE TickStep
  BY <1>1, SchedulerKeeps, TickKeeps, ReadPositionsKeeps, ReconcileKeeps, SweepReadKeeps,
     CancelKeeps, FlattenReadKeeps, CloseKeeps, Zenon DEF TickStep
<1>6. CASE EndTurn
  BY <1>6, TickKeeps, Zenon
<1>2. CASE \/ \E j \in Jobs : Elapse(j) \/ RemoveJob(j)
           \/ \E given \in {{}, OneShot} : RunLoop(given)
           \/ Outside \/ Age
  BY <1>2, SchedulerKeeps, Zenon
<1>3. CASE \E k \in Calls : AdmitOrder(k) \/ LandOrder(k) \/ ForeignOrder(k) \/ Fill(k) \/ DropOrder(k)
  BY <1>3, AdmitKeeps, RestKeeps, FillKeeps, DropKeeps, Zenon
<1>4. CASE FillClose \/ Crash
  BY <1>4, FillCloseKeeps, CrashKeeps
<1>5. CASE UNCHANGED runtimeVars
  <2>1. UNCHANGED <<authority, running>> /\ Untouched
    BY <1>5 DEF runtimeVars, broker, tickVars, schedVars, ghosts, Untouched
  <2> QED BY <2>1, Bystanders DEF IInv, TypeInv, RunnerInv
<1> QED BY <1>1, <1>2, <1>3, <1>4, <1>5, <1>6, Zenon DEF RuntimeNext

LEMMA RuntimeInvHolds == RuntimeSpec => []IInv
<1> QED BY RuntimeBegins, RuntimeGoesOn, PTL DEF RuntimeSpec

(* For any number of calls, jobs and crashes and whatever may fail: a sweep of  *)
(* the kill switch that met no failure leaves nothing at rest that was there    *)
(* when it read the book, holds nothing once its closing order has filled, and  *)
(* never closes more than is held (flatten_and_cancel).                         *)
THEOREM ThoroughSweep == RuntimeSpec => []SweepIsThorough
<1>1. IInv => SweepIsThorough
  <2> SUFFICES ASSUME IInv PROVE SweepIsThorough
    OBVIOUS
  <2>1. SweepClearsBook
    BY DEF IInv, SweepInv, SweepClearsBook, SweepSteps
  <2>2. SweepFlattens
    BY DEF IInv, TypeInv, SweepInv, SweepFlattens
  <2>3. NeverOverClosed
    BY DEF IInv, SweepInv, NeverOverClosed
  <2> QED BY <2>1, <2>2, <2>3 DEF SweepIsThorough
<1> QED BY <1>1, RuntimeInvHolds, PTL

(* Until the first sweep of its life, and while it has a baseline, the runner   *)
(* opens no turn over fills that moved the position since, whoever placed them, *)
(* unless it holds nothing (LiveRunner.run_once, _report_is_unsafe).            *)
THEOREM NoUnrecordedFill == RuntimeSpec => NoTurnOverUnrecordedFill
<1> DEFINE Watched == (pc = "diff" /\ pc' = "turn" /\ base.known /\ ~fired /\ ~failed)
                        => (Net(since \ recent) = 0 \/ size = 0)
<1>1. IInv /\ [RuntimeNext]_runtimeVars => [Watched]_runtimeVars
  <2> SUFFICES ASSUME IInv, RuntimeNext, pc = "diff", pc' = "turn", base.known, ~fired, ~failed
               PROVE  Net(since \ recent) = 0 \/ size = 0
    OBVIOUS
  <2>1. Reconcile
    <3>1. pc' # pc /\ pc \notin {"sweep", "cancel", "close"}
      OBVIOUS
    <3>2. TickStep
      BY <3>1 DEF RuntimeNext, EndTurn, Elapse, RemoveJob, RunLoop, AdmitOrder, LandOrder, ForeignOrder,
                  Fill, DropOrder, FillClose, Outside, Age, Crash, tickVars
    <3> QED BY <3>2 DEF TickStep, FireDue, BeginTick, LoadMandate, ReadOrders, ReadPositions,
                        EndTurn, SweepRead, CancelOne, FlattenRead, CloseOne, AdvanceAfterFire,
                        tickVars
  <2>2. size = 0 \/ size = base.qty
    BY <2>1 DEF Reconcile, ReportIsUnsafe, UnknownFill
  <2>3. /\ since \in SUBSET Calls /\ recent \in SUBSET since
        /\ qty = size + Net(recent) /\ qty = base.qty + Net(since)
        /\ size \in Int /\ base.qty \in Int
    BY DEF IInv, TypeInv, RecordInv, Filled
  <2>4. Net(since \ recent) = Net(since) - Net(recent) /\ Net(since) \in Int /\ Net(recent) \in Int
    BY <2>3, NetWithout, NetType
  <2> QED BY <2>2, <2>3, <2>4
<1> QED BY <1>1, RuntimeInvHolds, PTL DEF RuntimeSpec, NoTurnOverUnrecordedFill
=============================================================================

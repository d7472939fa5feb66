------------------------- MODULE SwarmRuntimeProofs -------------------------
(***************************************************************************)
(* Proofs about a run of the swarm, for every task graph that              *)
(* validate_dag accepts and every interleaving of the run's thread, its    *)
(* workers, the poll loop and the sweep: nothing runs or is published      *)
(* without what it builds on (GroundedResults), whoever ends a run ends it *)
(* the same way (RecoveriesAgree), and a completed task stays completed    *)
(* (CompletedTasksStay).                                                   *)
(*                                                                         *)
(* The key is ReaderInv: nothing locks the files, but a reader writes only *)
(* what it found when every task had ended, or when the thread was dead;   *)
(* so while the thread lives the files are still what the reader holds,    *)
(* and a write changes nothing, and once it is dead all readers hold the   *)
(* same.  For that, the thread must not touch a file of a run whose tasks  *)
(* have all ended (PlanInv), and what the statuses say must be what the    *)
(* thread's own flag says (SuccessInv, FailureInv), unless it broke off    *)
(* with every task completed (BrokeOff).                                   *)
(***************************************************************************)
EXTENDS SwarmRuntime, WellFoundedInduction, TLAPS

TaskType == [status : TaskStatus, summary : BOOLEAN, blocked_by : SUBSET Tasks]
TasksType == [Tasks -> TaskType]
ViewType == [status : {"pending", "running"} \cup TerminalRun, tasks : TasksType,
             order : {"yaml", "file"}, report : 0..N]
HostType == [pc : {"start", "prefetch", "boundary", "dispatch", "collect", "process",
                   "finalize", "done", "dead"},
             layer : Nat, tasks : TasksType, order : {"yaml", "file"},
             summaries : SUBSET Tasks, succeeded : BOOLEAN, results : SUBSET Tasks]
WorkerType == [state : {"none", "running"} \cup Results, attempt : Nat]
ReaderType == [pc : {"idle", "tasks", "run", "gone"}, view : ViewType]

TypeInv ==
    /\ run \in ViewType
    /\ file \in TasksType
    /\ host \in HostType
    /\ worker \in [Tasks -> WorkerType]
    /\ cancel \in BOOLEAN /\ silent \in BOOLEAN
    /\ reader \in [Readers -> ReaderType]

(* Every task has ended; no task has completed that has not a summary. *)
Ended(tasks) == \A t \in Tasks : tasks[t].status \in TerminalTask
Told(tasks) == \A t \in Tasks :
    tasks[t].status = "completed" => tasks[t].summary /\ t \in host.summaries

(* The reader holds a recovered run that it has not written yet. *)
Active(r) == reader[r].pc \in {"tasks", "run"}

QuietInv == silent => host.pc = "dead"

Untouched(t) == file[t].status \in {"pending", "blocked"} /\ worker[t].state = "none"

PlanInv ==
    /\ host.pc \in {"start", "prefetch", "boundary"} => host.tasks = file
    /\ host.pc \in {"dispatch", "collect", "process"} => host.layer <= LastLayer
    /\ host.pc \in {"start", "prefetch", "boundary", "dispatch"} =>
         \A t \in Tasks : LayerOf[t] >= host.layer => Untouched(t)
    /\ host.pc \in {"collect", "process"} =>
         \A t \in Tasks : LayerOf[t] > host.layer => Untouched(t)
    /\ host.pc = "collect" =>
         \A t \in Layer(host.layer) :
             file[t].status = IF worker[t].state = "none" THEN "blocked" ELSE "in_progress"
    /\ host.pc = "process" =>
         /\ host.results \subseteq Futures
         /\ \A t \in host.results : file[t].status = "in_progress"
         /\ \A t \in Layer(host.layer) \ Futures : file[t].status \in {"pending", "blocked"}

SummaryInv == Told(file) /\ GatedByCompletion

(* A task after the reaper. *)
ReapedTask(task) ==
    IF task.status \in TerminalTask THEN task ELSE [task EXCEPT !.status = "failed"]

HoldsTheEnd(r) ==
    /\ Ended(reader[r].view.tasks) /\ Told(reader[r].view.tasks)
    /\ reader[r].view.status = StatusFrom(reader[r].view.tasks)
    /\ reader[r].view.status = "completed" => reader[r].view.report # 0
    /\ \A t \in Tasks : reader[r].view.tasks[t] = ReapedTask(file[t])
    /\ host.pc # "dead" \/ reader[r].pc = "run" => file = reader[r].view.tasks

ReaderInv == \A r \in Readers : Active(r) => HoldsTheEnd(r)

SuccessInv ==
    host.succeeded =>
        /\ host.pc \notin {"finalize", "done", "dead"} =>
             \A t \in Tasks : LayerOf[t] < host.layer => file[t].status = "completed"
        /\ host.pc = "process" =>
             \A t \in Futures \ host.results : file[t].status = "completed"
        /\ host.pc = "finalize" => \A t \in Tasks : file[t].status = "completed"

FailureInv ==
    ~host.succeeded =>
        /\ host.pc \notin {"start", "prefetch"}
        /\ host.pc \in {"boundary", "dispatch", "collect", "process"} =>
             \E t \in Tasks : \/ file[t].status = "failed"
                              \/ LayerOf[t] < host.layer /\ file[t].status # "completed"

CancelInv ==
    ~cancel =>
        /\ \A t \in Tasks : file[t].status # "cancelled"
        /\ \A r \in Readers : Active(r) => \A t \in Tasks : reader[r].view.tasks[t].status # "cancelled"

(* Before the thread is done, only a reader has ended the run, and it read  *)
(* the end from the files; afterwards what the files say is what the thread *)
(* said, unless it broke off.                                               *)
EndInv ==
    /\ host.pc # "done" =>
         /\ run.status \in TerminalRun => Ended(file) /\ run.status = StatusFrom(file)
         /\ answer.status \in TerminalRun => Ended(file) /\ answer.status = StatusFrom(file)
    /\ host.pc = "done" =>
         /\ run.status \in TerminalRun
         /\ ~cancel /\ ~BrokeOff =>
              /\ Ended(file) => run.status = StatusFrom(file)
              /\ answer.status \in TerminalRun => answer.status = run.status

IInv ==
    /\ TypeInv /\ QuietInv /\ PlanInv /\ SummaryInv /\ ReaderInv
    /\ SuccessInv /\ FailureInv /\ CancelInv /\ EndInv /\ CompletedIsComplete
-----------------------------------------------------------------------------
(* The task graph. *)

(* Every nonempty set of naturals has a least element. *)
LEMMA LeastNat ==
    ASSUME NEW S \in SUBSET Nat, S # {}
    PROVE  \E m \in S : \A k \in S : m <= k
<1> DEFINE R == OpToRel(<, Nat)
<1>1. IsWellFoundedOn(R, Nat)
  BY NatLessThanWellFounded
<1>2. PICK x \in S : \A y \in S : ~ (<<y, x>> \in R)
  BY <1>1, WFMin, Zenon
<1>3. ASSUME NEW y \in S PROVE x <= y
  <2>1. x \in Nat /\ y \in Nat
    OBVIOUS
  <2>2. ~ (y < x)
    BY <1>2, <2>1 DEF OpToRel
  <2> QED BY <2>1, <2>2
<1> QED BY <1>3

(* Naturals indexed by a nonempty set of tasks have a largest one. *)
LEMMA LargestExists ==
    ASSUME N \in Nat, NEW D \in SUBSET Tasks, D # {}, NEW f, \A d \in D : f[d] \in Nat
    PROVE  \E m \in D : \A d \in D : f[d] <= f[m]
<1> DEFINE Bounds == {b \in Nat : \A d \in D : f[d] <= b}
           Bad == {n \in 0..N : ~ \E b \in Nat : \A d \in D : d <= n => f[d] <= b}
<1>1. Bad = {}
  <2>1. SUFFICES ASSUME Bad # {} PROVE FALSE
    OBVIOUS
  <2>2. PICK n \in Bad : \A k \in Bad : n <= k
    BY <2>1, LeastNat, Bad \in SUBSET Nat
  <2>3. n # 0
    BY <2>2, \A d \in D : ~ (d <= 0), 0 \in Nat DEF Tasks
  <2>4. n - 1 \in 0..N /\ n - 1 \notin Bad
    BY <2>2, <2>3
  <2>5. PICK b \in Nat : \A d \in D : d <= n - 1 => f[d] <= b
    BY <2>4
  <2>6. PICK c \in Nat : c >= b /\ (n \in D => c >= f[n])
    <3>1. CASE n \in D
      <4>1. PICK x \in Nat : x = f[n]
        BY <3>1
      <4>2. CASE x >= b
        BY <4>1, <4>2
      <4>3. CASE ~ (x >= b)
        BY <4>1, <4>3
      <4> QED BY <4>2, <4>3
    <3> QED BY <3>1
  <2>7. ASSUME NEW d \in D, d <= n PROVE f[d] <= c
    <3>1. d \in Nat /\ n \in Nat /\ (d = n \/ d <= n - 1)
      BY <2>7, <2>2 DEF Tasks
    <3>2. f[d] \in Nat
      OBVIOUS
    <3> QED BY <3>1, <3>2, <2>5, <2>6
  <2> QED BY <2>2, <2>7
<1>2. Bounds # {}
  <2>1. N \in 0..N /\ N \notin Bad
    BY <1>1
  <2>2. PICK b \in Nat : \A d \in D : d <= N => f[d] <= b
    BY <2>1
  <2>3. \A d \in D : d <= N
    BY DEF Tasks
  <2> QED BY <2>2, <2>3
<1>3. PICK b \in Bounds : \A c \in Bounds : b <= c
  BY <1>2, LeastNat, Bounds \in SUBSET Nat
<1>4. \E m \in D : f[m] = b
  <2>1. SUFFICES ASSUME \A d \in D : f[d] # b PROVE FALSE
    OBVIOUS
  <2>2. \A d \in D : f[d] <= b - 1
    BY <2>1
  <2>3. b # 0
    BY <2>2
  <2>4. b - 1 \in Bounds
    BY <2>2, <2>3
  <2> QED BY <2>4, <1>3
<1> QED BY <1>3, <1>4

LEMMA MaxOfImage ==
    ASSUME N \in Nat, NEW D \in SUBSET Tasks, D # {}, NEW f, \A d \in D : f[d] \in Nat
    PROVE  /\ Max({f[d] : d \in D}) \in {f[d] : d \in D}
           /\ \A d \in D : f[d] <= Max({f[d_1] : d_1 \in D})
<1> DEFINE S == {f[d] : d \in D}
<1>1. PICK m \in D : \A d \in D : f[d] <= f[m]
  BY LargestExists
<1>2. \E x \in S : \A y \in S : x >= y
  <2>1. f[m] \in S /\ \A y \in S : f[m] >= y
    BY <1>1
  <2> QED BY <2>1
<1>3. Max(S) \in S /\ \A y \in S : Max(S) >= y
  BY <1>2, Zenon DEF Max
<1>4. \A d \in D : f[d] \in S /\ f[d] <= Max(S)
  <2>1. \A d \in D : f[d] \in S
    OBVIOUS
  <2>2. Max(S) \in Nat
    BY <1>3
  <2> HIDE DEF S
  <2> QED BY <2>1, <2>2, <1>3
<1> QED BY <1>3, <1>4

(* The equation of LayerOf, for one task. *)
Length(f, t) == IF DependsOn[t] = {} THEN 1 ELSE 1 + Max({f[d] : d \in DependsOn[t]})

LEMMA LengthType ==
    ASSUME SwarmAssumption, NEW t \in Tasks, NEW f, \A d \in DependsOn[t] : f[d] \in Nat
    PROVE  Length(f, t) \in Nat \ {0}
<1>1. N \in Nat /\ DependsOn[t] \in SUBSET Tasks
  BY DEF SwarmAssumption, ValidateDag
<1>2. CASE DependsOn[t] # {}
  <2>1. Max({f[d] : d \in DependsOn[t]}) \in {f[d] : d \in DependsOn[t]}
    BY <1>1, <1>2, MaxOfImage
  <2>2. Max({f[d] : d \in DependsOn[t]}) \in Nat
    BY <2>1
  <2> QED BY <2>2, <1>2 DEF Length
<1>3. CASE DependsOn[t] = {}
  BY <1>3 DEF Length
<1> QED BY <1>2, <1>3

(* An acyclic graph has layers. *)
LEMMA LayersExist ==
    ASSUME SwarmAssumption
    PROVE  \E f \in [Tasks -> Nat] : \A t \in Tasks : f[t] = Length(f, t)
<1>0. N \in Nat /\ DependsOn \in [Tasks -> SUBSET Tasks]
  BY DEF SwarmAssumption, ValidateDag
<1>1. PICK rank \in [Tasks -> Tasks] : \A t \in Tasks : \A d \in DependsOn[t] : rank[d] < rank[t]
  BY DEF SwarmAssumption, ValidateDag
<1>2. \A t \in Tasks : rank[t] \in Nat
  <2>1. Tasks \subseteq Nat
    BY <1>0 DEF Tasks
  <2> QED BY <2>1
<1> DEFINE Good(n) == \E f \in [Tasks -> Nat] : \A t \in Tasks : rank[t] <= n => f[t] = Length(f, t)
           Bad == {n \in 0..N : ~ Good(n)}
<1>3. Good(0)
  <2>1. [t \in Tasks |-> 0] \in [Tasks -> Nat]
    OBVIOUS
  <2>2. \A t \in Tasks : ~ (rank[t] <= 0)
    BY <1>0, <1>1 DEF Tasks
  <2> QED BY <2>1, <2>2
<1>4. ASSUME NEW n \in Nat, n # 0, Good(n-1) PROVE Good(n)
  <2>1. PICK f \in [Tasks -> Nat] : \A t \in Tasks : rank[t] <= n-1 => f[t] = Length(f, t)
    BY <1>4
  <2> DEFINE g == [t \in Tasks |-> Length(f, t)]
  <2>2. \A t \in Tasks : Length(f, t) \in Nat
    BY LengthType, <1>0
  <2>3. g \in [Tasks -> Nat]
    BY <2>2
  <2>4. ASSUME NEW t \in Tasks, rank[t] <= n PROVE g[t] = Length(g, t)
    <3>1. ASSUME NEW d \in DependsOn[t] PROVE g[d] = f[d]
      <4>0. d \in Tasks
        BY <1>0
      <4>1. d \in Tasks /\ rank[d] \in Nat /\ rank[t] \in Nat /\ rank[d] < rank[t]
        BY <4>0, <1>2, <1>1
      <4>2. f[d] = Length(f, d)
        BY <4>1, <2>1, <2>4
      <4> QED BY <4>1, <4>2
    <3>2. {g[d] : d \in DependsOn[t]} = {f[d] : d \in DependsOn[t]}
      <4> HIDE DEF g
      <4>1. \A d \in DependsOn[t] : g[d] = f[d]
        BY <3>1
      <4> QED BY <4>1
    <3>3. Length(g, t) = Length(f, t)
      BY <3>2 DEF Length
    <3> QED BY <3>3
  <2> HIDE DEF g
  <2> QED BY <2>3, <2>4
<1> HIDE DEF Good
<1>5. Bad = {}
  <2>1. SUFFICES ASSUME Bad # {} PROVE FALSE
    OBVIOUS
  <2>2. PICK n \in Bad : \A k \in Bad : n <= k
    BY <2>1, LeastNat, Bad \in SUBSET Nat
  <2>3. n # 0 /\ n \in Nat
    BY <2>2, <1>3, <1>0
  <2>4. n-1 \in 0..N /\ n-1 \notin Bad
    BY <2>2, <2>3, <1>0
  <2> QED BY <2>2, <2>3, <2>4, <1>4
<1>6. Good(N)
  BY <1>5, <1>0
<1>7. PICK f \in [Tasks -> Nat] : \A t \in Tasks : rank[t] <= N => f[t] = Length(f, t)
  BY <1>6 DEF Good
<1>8. \A t \in Tasks : rank[t] <= N
  BY <1>0, <1>1 DEF Tasks
<1> QED BY <1>7, <1>8

LEMMA LayerType ==
    ASSUME SwarmAssumption
    PROVE  \A t \in Tasks : LayerOf[t] \in Nat \ {0}
<1>0. N \in Nat /\ DependsOn \in [Tasks -> SUBSET Tasks]
  BY DEF SwarmAssumption, ValidateDag
<1>1. PICK f \in [Tasks -> Nat] : \A t \in Tasks : f[t] = Length(f, t)
  BY LayersExist
<1> DEFINE IsLayerOf(g) == g = [t \in Tasks |-> Length(g, t)]
<1>2. f = [t \in Tasks |-> Length(f, t)]
  BY <1>1
<1>3. LayerOf = CHOOSE g : g = [t \in Tasks |->
                   IF DependsOn[t] = {} THEN 1 ELSE 1 + Max({g[d] : d \in DependsOn[t]})]
  BY DEF LayerOf
<1>4. LayerOf = CHOOSE g : IsLayerOf(g)
  BY <1>3 DEF Length
<1>5. IsLayerOf(LayerOf)
  <2> HIDE DEF LayerOf
  <2> QED BY <1>2, <1>4
<1>6. \A t \in Tasks : LayerOf[t] = Length(LayerOf, t)
  BY <1>5
<1> DEFINE Bad == {t \in Tasks : LayerOf[t] \notin Nat \ {0}}
<1>7. PICK rank \in [Tasks -> Tasks] : \A t \in Tasks : \A d \in DependsOn[t] : rank[d] < rank[t]
  BY DEF SwarmAssumption, ValidateDag
<1>8. \A t \in Tasks : rank[t] \in Nat
  <2>1. Tasks \subseteq Nat
    BY <1>0 DEF Tasks
  <2> QED BY <2>1
<1>9. Bad = {}
  <2>1. SUFFICES ASSUME Bad # {} PROVE FALSE
    OBVIOUS
  <2> DEFINE R == {rank[t] : t \in Bad}
  <2>2. R \in SUBSET Nat /\ R # {}
    <3>1. \A t \in Bad : t \in Tasks
      OBVIOUS
    <3> HIDE DEF Bad
    <3> QED BY <2>1, <1>8, <3>1
  <2>3. PICK n \in R : \A k \in R : n <= k
    BY <2>2, LeastNat
  <2>4. PICK t \in Bad : rank[t] = n
    BY <2>3
  <2>5. ASSUME NEW d \in DependsOn[t] PROVE LayerOf[d] \in Nat
    <3>0. t \in Tasks /\ d \in Tasks
      BY <1>0, Zenon
    <3>1. rank[d] \in Nat /\ rank[t] \in Nat /\ rank[d] < rank[t]
      BY <3>0, <1>8, <1>7
    <3>2. d \notin Bad
      <4>1. SUFFICES ASSUME d \in Bad PROVE FALSE
        OBVIOUS
      <4>2. rank[d] \in R
        BY <4>1, Zenon
      <4> HIDE DEF R
      <4> QED BY <3>1, <2>3, <2>4, <4>2
    <3> QED BY <3>0, <3>2
  <2>6. Length(LayerOf, t) \in Nat \ {0}
    BY <2>5, LengthType
  <2> QED BY <2>4, <2>6, <1>6
<1> QED BY <1>9

LEMMA LastLayerFacts ==
    ASSUME SwarmAssumption
    PROVE  /\ LastLayer \in Nat
           /\ \A t \in Tasks : LayerOf[t] \in Nat \ {0} /\ LayerOf[t] <= LastLayer
           /\ \E t \in Tasks : LayerOf[t] = LastLayer
<1>0. N \in Nat /\ Tasks # {} /\ Tasks \in SUBSET Tasks
  <2>1. N \in Nat /\ 1 \in 1..N
    BY DEF SwarmAssumption
  <2> QED BY <2>1 DEF Tasks
<1>1. \A t \in Tasks : LayerOf[t] \in Nat \ {0}
  BY LayerType
<1>2. /\ Max({LayerOf[t] : t \in Tasks}) \in {LayerOf[t] : t \in Tasks}
      /\ \A t \in Tasks : LayerOf[t] <= Max({LayerOf[t_1] : t_1 \in Tasks})
  <2> HIDE DEF LayerOf, Tasks
  <2> QED BY <1>0, <1>1, MaxOfImage
<1> QED BY <1>1, <1>2 DEF LastLayer

-----------------------------------------------------------------------------
(* What a reader makes of the task files. *)

LEMMA StatusFromFacts ==
    ASSUME NEW tasks \in TasksType
    PROVE  /\ StatusFrom(tasks) \in TerminalRun
           /\ StatusFrom(tasks) = "completed" <=> \A t \in Tasks : tasks[t].status = "completed"
           /\ /\ Ended(tasks)
              /\ \A t \in Tasks : tasks[t].status # "cancelled"
              /\ \E t \in Tasks : tasks[t].status # "completed"
              => StatusFrom(tasks) = "failed"
<1> DEFINE S == {tasks[t].status : t \in Tasks}
<1>1. \A t \in Tasks : tasks[t].status \in S
  OBVIOUS
<1>2. \A s \in S : \E t \in Tasks : s = tasks[t].status
  OBVIOUS
<1>3. StatusFrom(tasks) = IF S \subseteq {"completed"} THEN "completed"
                          ELSE IF "failed" \in S THEN "failed"
                          ELSE IF S \subseteq {"cancelled", "completed"} THEN "cancelled" ELSE "failed"
  BY DEF StatusFrom
<1> HIDE DEF S
<1>4. S \subseteq {"completed"} <=> \A t \in Tasks : tasks[t].status = "completed"
  BY <1>1, <1>2
<1>5. ASSUME Ended(tasks), \A t \in Tasks : tasks[t].status # "cancelled",
             \E t \in Tasks : tasks[t].status # "completed"
      PROVE  "failed" \in S
  BY <1>1, <1>5 DEF Ended, TerminalTask
<1> QED BY <1>3, <1>4, <1>5 DEF TerminalRun

(* A run of which some task has a summary has a last one. *)
LEMMA LastSummaryFacts ==
    ASSUME SwarmAssumption, NEW view \in ViewType
    PROVE  /\ LastSummary(view) \in 0..N
           /\ (\E t \in Tasks : view.tasks[t].summary) => LastSummary(view) # 0
<1> DEFINE D == {t \in Tasks : view.tasks[t].summary}
           f == [t \in Tasks |-> PlaceIn(view.order, t)]
<1>0. N \in Nat /\ FileRank \in [Tasks -> Tasks]
  BY DEF SwarmAssumption
<1>1. \A t \in Tasks : t \in Nat \ {0} /\ t \in 0..N
  BY <1>0 DEF Tasks
<1>2. \A t \in Tasks : f[t] \in Nat /\ f[t] = PlaceIn(view.order, t)
  BY <1>0, <1>1 DEF PlaceIn
<1> HIDE DEF f
<1>3. CASE D = {}
  BY <1>3, <1>0 DEF LastSummary
<1>4. CASE D # {}
  <2>1. PICK m \in D : \A d \in D : f[d] <= f[m]
    BY <1>0, <1>2, <1>4, LargestExists, D \in SUBSET Tasks
  <2>2. \E t \in D : \A u \in D : PlaceIn(view.order, u) <= PlaceIn(view.order, t)
    BY <2>1, <1>2
  <2>3. LastSummary(view) = CHOOSE t \in D : \A u \in D : PlaceIn(view.order, u) <= PlaceIn(view.order, t)
    BY <1>4 DEF LastSummary
  <2>4. LastSummary(view) \in D
    <3> HIDE DEF D
    <3> QED BY <2>2, <2>3
  <2> QED BY <2>4, <1>1
<1> QED BY <1>3, <1>4

(* What a reader takes for the end of a run, from the tasks it has. *)
RecoveredFrom(view, tasks) ==
    /\ view \in ViewType
    /\ view.tasks = tasks
    /\ view.status = StatusFrom(tasks)
    /\ view.status = "completed" /\ Told(tasks) => view.report # 0

LEMMA RecoverTerminalFacts ==
    ASSUME SwarmAssumption, NEW view \in ViewType
    PROVE  RecoveredFrom(RecoverTerminal(view), view.tasks)
<1> DEFINE s == StatusFrom(view.tasks)
           out == RecoverTerminal(view)
           p == IF s = "completed" /\ view.report = 0 THEN LastSummary(view) ELSE view.report
<1>1. view.tasks \in TasksType /\ view.report \in 0..N
  BY DEF ViewType
<1>2. s \in TerminalRun /\ (s = "completed" => \A t \in Tasks : view.tasks[t].status = "completed")
  BY <1>1, StatusFromFacts
<1>3. p \in 0..N
  BY <1>1, LastSummaryFacts
<1>4. ASSUME NEW a \in TerminalRun, NEW b \in 0..N
      PROVE  [view EXCEPT !.status = a, !.report = b] \in ViewType
  BY DEF ViewType
<1>5. out = [view EXCEPT !.status = s, !.report = p]
  BY DEF RecoverTerminal, ViewType
<1>6. out \in ViewType
  <2> HIDE DEF s, p, out
  <2> QED BY <1>2, <1>3, <1>4, <1>5
<1>7. out.tasks = view.tasks /\ out.status = s /\ out.report = p
  <2> HIDE DEF s, p, out
  <2> QED BY <1>5 DEF ViewType
<1>8. ASSUME s = "completed", Told(view.tasks) PROVE p # 0
  <2>1. 1 \in Tasks
    BY DEF Tasks, SwarmAssumption
  <2>2. view.tasks[1].summary
    BY <2>1, <1>2, <1>8 DEF Told
  <2> QED BY <2>1, <2>2, <1>8, LastSummaryFacts
<1> QED BY <1>6, <1>7, <1>8 DEF RecoveredFrom

(* The task files after the reaper. *)
Reaped(tasks) == [t \in Tasks |-> IF tasks[t].status \in TerminalTask THEN tasks[t]
                                  ELSE [tasks[t] EXCEPT !.status = "failed"]]

LEMMA ReapStaleFacts ==
    ASSUME SwarmAssumption, NEW view \in ViewType
    PROVE  /\ RecoveredFrom(ReapStale(view), Reaped(view.tasks))
           /\ Ended(Reaped(view.tasks))
<1> DEFINE reaped == Reaped(view.tasks)
<1>0. view.tasks \in TasksType
  BY DEF ViewType
<1>1. reaped \in TasksType
  BY <1>0 DEF Reaped, TasksType, TaskType, TaskStatus
<1>2. ASSUME NEW a \in TasksType PROVE [view EXCEPT !.tasks = a] \in ViewType
  BY DEF ViewType
<1>3. [view EXCEPT !.tasks = reaped] \in ViewType /\ [view EXCEPT !.tasks = reaped].tasks = reaped
  <2> HIDE DEF reaped
  <2> QED BY <1>1, <1>2 DEF ViewType
<1>4. ReapStale(view) = RecoverTerminal([view EXCEPT !.tasks = reaped])
  BY DEF ReapStale, Reaped
<1>5. RecoveredFrom(ReapStale(view), reaped)
  <2> HIDE DEF reaped
  <2> QED BY <1>3, <1>4, RecoverTerminalFacts
<1>6. Ended(reaped)
  BY <1>0 DEF Reaped, Ended, TasksType, TaskType, TerminalTask
<1> QED BY <1>5, <1>6

-----------------------------------------------------------------------------
(* The initial state, and the steps of the run's thread. *)

(* What every step must preserve: the invariant, and what has completed. *)
Kept == \A t \in Tasks : file[t].status = "completed" => file'[t].status = "completed"

LEMMA InitIsSound ==
    ASSUME SwarmAssumption, Init
    PROVE  IInv
<1>0. N \in Nat /\ 1 \in Tasks /\ DependsOn \in [Tasks -> SUBSET Tasks]
  BY DEF SwarmAssumption, ValidateDag, Tasks
<1>1. NewTasks \in TasksType /\ \A t \in Tasks : NewTasks[t].status \in {"pending", "blocked"}
  BY <1>0 DEF NewTasks, TasksType, TaskType, TaskStatus
<1>2. NoView \in ViewType
  BY <1>0, <1>1 DEF NoView, ViewType
<1>3. file = NewTasks /\ host.tasks = NewTasks /\ run.status = "pending"
  BY DEF Init, NoView
<1>4. TypeInv
  <2>1. host \in HostType
    BY <1>1 DEF Init, HostType
  <2>2. worker \in [Tasks -> WorkerType]
    BY DEF Init, WorkerType
  <2>3. reader \in [Readers -> ReaderType]
    BY <1>2 DEF Init, ReaderType
  <2> QED BY <2>1, <2>2, <2>3, <1>1, <1>2 DEF Init, TypeInv
<1>5. /\ host.pc = "start" /\ host.layer = 1 /\ host.succeeded = TRUE /\ ~silent
      /\ answer.status = "none" /\ \A t \in Tasks : worker[t].state = "none"
      /\ \A r \in Readers : reader[r].pc = "idle"
  BY DEF Init
<1>6. QuietInv /\ ReaderInv /\ FailureInv
  BY <1>5 DEF QuietInv, ReaderInv, Active, FailureInv
<1>7. PlanInv
  BY <1>1, <1>3, <1>5 DEF PlanInv, Untouched
<1>8. SummaryInv /\ CancelInv /\ EndInv /\ CompletedIsComplete
  BY <1>1, <1>3, <1>5 DEF SummaryInv, Told, GatedByCompletion, CancelInv, Active, EndInv, BrokeOff,
     TerminalRun, CompletedIsComplete
<1>9. SuccessInv
  <2>1. \A t \in Tasks : ~ (LayerOf[t] < 1)
    BY LastLayerFacts
  <2> QED BY <2>1, <1>5 DEF SuccessInv
<1> QED BY <1>4, <1>6, <1>7, <1>8, <1>9 DEF IInv

(* While the thread has a layer left to run, nobody has ended the run. *)
LEMMA LiveRunIsOpen ==
    ASSUME SwarmAssumption, IInv,
           \/ host.pc \in {"dispatch", "collect"}
           \/ host.pc = "boundary" /\ host.layer <= LastLayer
           \/ host.pc = "process" /\ host.results # {}
    PROVE  /\ \E t \in Tasks : file[t].status \notin TerminalTask
           /\ \A r \in Readers : ~ Active(r)
           /\ run.status \notin TerminalRun /\ answer.status \notin TerminalRun
<1> USE DEF IInv
<1>1. \E t \in Tasks : file[t].status \notin TerminalTask
  <2>1. PICK t \in Tasks : LayerOf[t] = LastLayer
    BY LastLayerFacts
  <2>2. CASE host.pc = "process" /\ host.results # {}
    <3>1. PICK u \in host.results : TRUE
      BY <2>2
    <3>2. u \in Tasks /\ file[u].status = "in_progress"
      BY <2>2 DEF PlanInv, TypeInv, HostType
    <3> QED BY <3>2 DEF TerminalTask
  <2>3. CASE host.pc # "process"
    <3>1. host.layer <= LastLayer /\ host.layer \in Nat /\ LastLayer \in Nat
      BY <2>3, LastLayerFacts DEF PlanInv, TypeInv, HostType
    <3>2. CASE host.pc = "collect" /\ host.layer = LastLayer
      BY <2>1, <3>2 DEF PlanInv, Layer, TerminalTask
    <3>3. CASE ~ (host.pc = "collect" /\ host.layer = LastLayer)
      <4>1. Untouched(t)
        BY <2>1, <2>3, <3>1, <3>3 DEF PlanInv
      <4> QED BY <4>1 DEF Untouched, TerminalTask
    <3> QED BY <3>2, <3>3
  <2> QED BY <2>2, <2>3
<1>2. ~ Ended(file) /\ host.pc # "dead" /\ host.pc # "done"
  BY <1>1 DEF Ended
<1>3. \A r \in Readers : ~ Active(r)
  BY <1>2 DEF ReaderInv, HoldsTheEnd
<1> QED BY <1>1, <1>2, <1>3 DEF EndInv, BrokeOff

LEMMA BeginIsSound ==
    ASSUME SwarmAssumption, IInv, Begin
    PROVE  IInv' /\ Kept
<1> USE DEF Begin, UpdateRun, EmitEvent, RunFileOf
<1>1. /\ host \in HostType /\ host' \in HostType
      /\ host'.pc = "prefetch" /\ host.pc = "start"
      /\ host'.tasks = host.tasks /\ host'.layer = host.layer
      /\ host'.summaries = host.summaries /\ host'.succeeded = host.succeeded
  BY DEF IInv, TypeInv, HostType
<1>2. run'.status = "running" /\ run' \in ViewType
  BY <1>1 DEF ViewType, HostType, SwarmAssumption
<1> HIDE DEF RunFileOf
<1>3. TypeInv'
  BY <1>1, <1>2 DEF IInv, TypeInv
<1>4. QuietInv' /\ PlanInv'
  BY <1>1 DEF IInv, QuietInv, PlanInv, Untouched
<1>5. SummaryInv' /\ ReaderInv'
  BY <1>1 DEF IInv, SummaryInv, Told, GatedByCompletion, ReaderInv, HoldsTheEnd, Active
<1>6. SuccessInv' /\ FailureInv' /\ CancelInv'
  BY <1>1 DEF IInv, SuccessInv, FailureInv, CancelInv, Active
<1>7. EndInv' /\ CompletedIsComplete'
  BY <1>1, <1>2 DEF IInv, EndInv, BrokeOff, CompletedIsComplete, TerminalRun
<1> QED BY <1>3, <1>4, <1>5, <1>6, <1>7 DEF IInv, Kept

LEMMA SaveTasksIsSound ==
    ASSUME SwarmAssumption, IInv, SaveTasks
    PROVE  IInv' /\ Kept
<1> USE DEF SaveTasks
<1>1. /\ host \in HostType /\ host' \in HostType
      /\ host'.pc = "boundary" /\ host.pc = "prefetch"
      /\ host'.tasks = host.tasks /\ host'.layer = host.layer
      /\ host'.summaries = host.summaries /\ host'.succeeded = host.succeeded
  BY DEF IInv, TypeInv, HostType
<1>2. file' = file /\ host.tasks = file
  BY <1>1 DEF IInv, PlanInv
<1>3. run' = run \/ (run'.status = "running" /\ run' \in ViewType)
  <2>1. N \in Nat
    BY DEF SwarmAssumption
  <2>2. ASSUME run' = RunFileOf("running", 0) PROVE run'.status = "running" /\ run' \in ViewType
    BY <1>1, <2>1, <2>2 DEF ViewType, HostType, RunFileOf
  <2>3. run' = RunFileOf("running", 0) \/ run' = run
    BY Zenon DEF PrefetchGroundingData, UpdateRun
  <2> QED BY <2>2, <2>3
<1>4. TypeInv'
  BY <1>1, <1>2, <1>3 DEF IInv, TypeInv
<1>5. QuietInv' /\ PlanInv'
  BY <1>1, <1>2 DEF IInv, QuietInv, PlanInv, Untouched
<1>6. SummaryInv' /\ ReaderInv'
  BY <1>1, <1>2 DEF IInv, SummaryInv, Told, GatedByCompletion, ReaderInv, HoldsTheEnd, Active
<1>7. FailureInv' /\ CancelInv'
  BY <1>1, <1>2 DEF IInv, FailureInv, CancelInv, Active
<1>8. SuccessInv'
  BY <1>1, <1>2 DEF IInv, SuccessInv
<1>9. EndInv' /\ CompletedIsComplete'
  BY <1>1, <1>2, <1>3 DEF IInv, EndInv, BrokeOff, CompletedIsComplete, TerminalRun
<1> QED BY <1>2, <1>4, <1>5, <1>6, <1>7, <1>8, <1>9 DEF IInv, Kept

(* At the end of the loop, or to the next layer. *)
LEMMA BoundaryGoesOn ==
    ASSUME SwarmAssumption, IInv, LayerBoundary, file' = file, host'.succeeded = host.succeeded,
           \/ host.layer > LastLayer /\ host'.pc = "finalize" /\ silent' = silent
           \/ host.layer <= LastLayer /\ host'.pc = "dispatch" /\ silent' = FALSE
    PROVE  IInv' /\ Kept
<1> USE DEF LayerBoundary
<1>1. /\ host \in HostType /\ host' \in HostType /\ host.pc = "boundary"
      /\ host'.tasks = host.tasks /\ host'.layer = host.layer
      /\ host'.summaries = host.summaries /\ host'.results = host.results
  <2>1. host \in HostType /\ host.pc = "boundary"
    BY DEF IInv, TypeInv
  <2>2. host' = [host EXCEPT !.pc = "finalize"] \/ host' = [host EXCEPT !.pc = "dispatch"]
        \/ host' = [host EXCEPT !.pc = "finalize", !.succeeded = FALSE]
    OBVIOUS
  <2>3. CASE host' = [host EXCEPT !.pc = "finalize"]
    BY <2>1, <2>3 DEF HostType
  <2>4. CASE host' = [host EXCEPT !.pc = "dispatch"]
    BY <2>1, <2>4 DEF HostType
  <2>5. CASE host' = [host EXCEPT !.pc = "finalize", !.succeeded = FALSE]
    BY <2>1, <2>5 DEF HostType
  <2> QED BY <2>2, <2>3, <2>4, <2>5
<1>2. LastLayer \in Nat /\ \A t \in Tasks : LayerOf[t] \in Nat \ {0} /\ LayerOf[t] <= LastLayer
  BY LastLayerFacts
<1>3. TypeInv'
  BY <1>1 DEF IInv, TypeInv
<1>4. QuietInv' /\ PlanInv'
  BY <1>1 DEF IInv, QuietInv, PlanInv, Untouched
<1>5. SummaryInv' /\ ReaderInv'
  BY <1>1 DEF IInv, SummaryInv, Told, GatedByCompletion, ReaderInv, HoldsTheEnd, Active
<1>6. SuccessInv'
  BY <1>1, <1>2 DEF IInv, SuccessInv, HostType
<1>7. FailureInv' /\ CancelInv'
  BY <1>1 DEF IInv, FailureInv, CancelInv, Active
<1>8. EndInv' /\ CompletedIsComplete'
  BY <1>1 DEF IInv, EndInv, BrokeOff, CompletedIsComplete
<1> QED BY <1>3, <1>4, <1>5, <1>6, <1>7, <1>8 DEF IInv, Kept

(* A cancellation found between two layers. *)
LEMMA BoundaryCancels ==
    ASSUME SwarmAssumption, IInv, LayerBoundary, host.layer <= LastLayer, cancel,
           host' = [host EXCEPT !.pc = "finalize", !.succeeded = FALSE],
           file' = CancelRemaining(file), silent' = silent
    PROVE  IInv' /\ Kept
<1> USE DEF LayerBoundary
<1>1. /\ host \in HostType /\ host' \in HostType /\ host.pc = "boundary"
      /\ host'.pc = "finalize" /\ host'.succeeded = FALSE /\ host'.summaries = host.summaries
  BY DEF IInv, TypeInv, HostType
<1>2. /\ host.tasks = file /\ file \in TasksType
      /\ \A r \in Readers : ~ Active(r)
      /\ run.status \notin TerminalRun /\ answer.status \notin TerminalRun
  BY <1>1, LiveRunIsOpen DEF IInv, TypeInv, PlanInv
<1>3. /\ file' \in TasksType
      /\ \A t \in Tasks :
           /\ file[t].status \in {"completed", "failed"} => file'[t] = file[t]
           /\ file[t].status \notin {"completed", "failed"} => file'[t].status = "cancelled"
  <2>1. ASSUME NEW t \in Tasks
        PROVE  /\ file[t] \in TaskType
               /\ [file[t] EXCEPT !.status = "cancelled"] \in TaskType
               /\ [file[t] EXCEPT !.status = "cancelled"].status = "cancelled"
    <3> HIDE DEF LayerBoundary
    <3>1. file[t] \in TaskType
      BY <1>2 DEF TasksType
    <3> QED BY <3>1 DEF TaskType, TaskStatus
  <2>2. file' = [t \in Tasks |-> IF file[t].status \in {"completed", "failed"} THEN file[t]
                                 ELSE [file[t] EXCEPT !.status = "cancelled"]]
    BY <1>2 DEF CancelRemaining, UpdateStatus, TasksType
  <2> HIDE DEF LayerBoundary
  <2> QED BY <2>1, <2>2 DEF TasksType
<1>4. \E t \in Tasks : file'[t].status # "completed"
  <2>1. PICK t \in Tasks : LayerOf[t] = LastLayer
    BY LastLayerFacts
  <2>2. LastLayer \in Nat /\ host.layer \in Nat
    BY <1>1, LastLayerFacts DEF HostType
  <2>3. Untouched(t)
    BY <1>1, <2>1, <2>2 DEF IInv, PlanInv
  <2> QED BY <1>3, <2>3 DEF Untouched
<1>5. TypeInv'
  BY <1>1, <1>3 DEF IInv, TypeInv
<1>6. QuietInv' /\ PlanInv' /\ SuccessInv'
  BY <1>1 DEF IInv, QuietInv, PlanInv, SuccessInv
<1>7. SummaryInv'
  BY <1>1, <1>3 DEF IInv, SummaryInv, Told, GatedByCompletion
<1>8. ReaderInv' /\ FailureInv' /\ CancelInv'
  BY <1>1, <1>2, <1>4 DEF ReaderInv, Active, FailureInv, CancelInv
<1>9. EndInv' /\ CompletedIsComplete'
  BY <1>1, <1>2 DEF EndInv, BrokeOff, CompletedIsComplete, TerminalRun
<1>10. Kept
  BY <1>3 DEF Kept
<1> QED BY <1>5, <1>6, <1>7, <1>8, <1>9, <1>10 DEF IInv

LEMMA LayerBoundaryIsSound ==
    ASSUME SwarmAssumption, IInv, LayerBoundary
    PROVE  IInv' /\ Kept
<1>1. host \in HostType
  BY DEF IInv, TypeInv
<1>2. CASE host.layer > LastLayer /\ host' = [host EXCEPT !.pc = "finalize"] /\ UNCHANGED <<file, silent>>
  <2>1. host'.pc = "finalize" /\ host'.succeeded = host.succeeded
    BY <1>1, <1>2 DEF HostType
  <2> QED BY <1>2, <2>1, BoundaryGoesOn
<1>3. CASE /\ host.layer <= LastLayer /\ host' = [host EXCEPT !.pc = "dispatch"]
           /\ EmitEvent /\ UNCHANGED file
  <2>1. host'.pc = "dispatch" /\ host'.succeeded = host.succeeded
    BY <1>1, <1>3 DEF HostType
  <2> QED BY <1>3, <2>1, BoundaryGoesOn DEF EmitEvent
<1>4. CASE /\ host.layer <= LastLayer /\ cancel
           /\ host' = [host EXCEPT !.pc = "finalize", !.succeeded = FALSE]
           /\ file' = CancelRemaining(file) /\ UNCHANGED silent
  BY <1>4, BoundaryCancels
<1> QED BY <1>2, <1>3, <1>4 DEF LayerBoundary

LEMMA DispatchIsSound ==
    ASSUME SwarmAssumption, IInv, DispatchLayer
    PROVE  IInv' /\ Kept
<1> USE DEF DispatchLayer, EmitEvent
<1>1. /\ host \in HostType /\ host' \in HostType /\ host.pc = "dispatch"
      /\ host'.pc = "collect" /\ host'.succeeded = host.succeeded
      /\ host'.summaries = host.summaries /\ host'.layer = host.layer
  BY DEF IInv, TypeInv, HostType
<1>2. /\ file \in TasksType /\ worker \in [Tasks -> WorkerType]
      /\ \A r \in Readers : ~ Active(r)
      /\ run.status \notin TerminalRun /\ answer.status \notin TerminalRun
  BY <1>1, LiveRunIsOpen DEF IInv, TypeInv
<1> DEFINE L == Layer(host.layer)
           Runs(t) == t \in L /\ BlockedUpstreams(t) = {}
<1>3. /\ DependsOn \in [Tasks -> SUBSET Tasks]
      /\ \A t \in L : t \in Tasks /\ LayerOf[t] = host.layer
      /\ \A t \in Tasks \ L : LayerOf[t] # host.layer
      /\ \A t \in Tasks : BlockedUpstreams(t) \subseteq Tasks
  BY DEF SwarmAssumption, ValidateDag, Layer, BlockedUpstreams
<1>4. /\ file' \in TasksType
      /\ \A t \in Tasks : /\ t \notin L => file'[t] = file[t]
                          /\ t \in L => file'[t].status = IF Runs(t) THEN "in_progress" ELSE "blocked"
  <2> HIDE DEF L
  <2>1. ASSUME NEW t \in Tasks
        PROVE  /\ file'[t] \in TaskType
               /\ t \notin L => file'[t] = file[t]
               /\ t \in L => file'[t].status = IF Runs(t) THEN "in_progress" ELSE "blocked"
    <3>1. file[t] \in TaskType /\ BlockedUpstreams(t) \subseteq Tasks
      BY <1>2, <1>3 DEF TasksType
    <3>2. file'[t] = IF t \notin L THEN file[t]
                     ELSE IF BlockedUpstreams(t) = {} THEN UpdateStatus(file, t, "in_progress")[t]
                     ELSE [file[t] EXCEPT !.status = "blocked", !.blocked_by = BlockedUpstreams(t)]
      BY DEF L
    <3>3. UpdateStatus(file, t, "in_progress")[t] = [file[t] EXCEPT !.status = "in_progress"]
      BY <1>2 DEF UpdateStatus, TasksType
    <3> HIDE DEF DispatchLayer
    <3>4. CASE t \notin L
      BY <3>1, <3>2, <3>4
    <3>5. CASE t \in L /\ BlockedUpstreams(t) = {}
      BY <3>1, <3>2, <3>3, <3>5 DEF TaskType, TaskStatus
    <3>6. CASE t \in L /\ BlockedUpstreams(t) # {}
      <4>1. ASSUME NEW b \in SUBSET Tasks
            PROVE  /\ [file[t] EXCEPT !.status = "blocked", !.blocked_by = b] \in TaskType
                   /\ [file[t] EXCEPT !.status = "blocked", !.blocked_by = b].status = "blocked"
        BY <3>1 DEF TaskType, TaskStatus
      <4>2. file'[t] = [file[t] EXCEPT !.status = "blocked", !.blocked_by = BlockedUpstreams(t)]
        BY <3>2, <3>6
      <4>3. BlockedUpstreams(t) \in SUBSET Tasks
        BY <3>1
      <4> DEFINE after == [file[t] EXCEPT !.status = "blocked", !.blocked_by = BlockedUpstreams(t)]
      <4>4. after \in TaskType /\ after.status = "blocked"
        BY <4>1, <4>3
      <4> HIDE DEF after
      <4>5. file'[t] = after
        BY <4>2 DEF after
      <4> QED BY <4>4, <4>5, <3>6
    <3> QED BY <3>4, <3>5, <3>6
  <2> QED BY <2>1 DEF TasksType
<1>5. /\ worker' \in [Tasks -> WorkerType]
      /\ \A t \in Tasks : worker'[t] = IF Runs(t) THEN [state |-> "running", attempt |-> 1] ELSE worker[t]
  BY <1>2 DEF WorkerType
<1>6. UNCHANGED <<run, cancel, reader, answer>> /\ silent' = FALSE
  OBVIOUS
<1>7. L' = L
  BY <1>1 DEF Layer
<1> HIDE DEF L, DispatchLayer
<1>8. \A t \in Tasks : LayerOf[t] >= host.layer => Untouched(t)
  BY <1>1 DEF IInv, PlanInv
<1>9. host.layer \in Nat /\ \A t \in Tasks : LayerOf[t] \in Nat
  BY <1>1, LastLayerFacts DEF HostType
<1>10. \A t \in L : Untouched(t)
  BY <1>3, <1>8, <1>9
<1>11. L = Layer(host.layer) /\ Layer(host.layer)' = L
  BY <1>7 DEF L
<1>12. TypeInv'
  BY <1>1, <1>6, <1>4, <1>5 DEF IInv, TypeInv
<1>13. PlanInv'
  <2>1. host.layer <= LastLayer
    BY <1>1 DEF IInv, PlanInv
  <2>2. ASSUME NEW t \in Tasks, LayerOf[t] > host.layer
        PROVE  file'[t] = file[t] /\ worker'[t] = worker[t] /\ Untouched(t)
    BY <2>2, <1>3, <1>4, <1>5, <1>8, <1>9
  <2>3. ASSUME NEW t \in L
        PROVE  file'[t].status = IF worker'[t].state = "none" THEN "blocked" ELSE "in_progress"
    BY <2>3, <1>3, <1>4, <1>5, <1>10 DEF Untouched
  <2> QED BY <1>1, <1>11, <2>1, <2>2, <2>3 DEF PlanInv, Untouched
<1>14. Told(file)'
  BY <1>1, <1>4 DEF IInv, SummaryInv, Told
<1>15. GatedByCompletion'
  <2>1. ASSUME NEW t \in Tasks, Runs(t) PROVE DependsOn[t] \subseteq host.summaries
    BY <1>3, <2>1 DEF IInv, SummaryInv, Told, BlockedUpstreams
  <2> QED BY <1>1, <1>5, <2>1 DEF IInv, SummaryInv, GatedByCompletion
<1>16. QuietInv' /\ ReaderInv'
  BY <1>1, <1>2, <1>6 DEF IInv, QuietInv, ReaderInv, Active
<1>17. SuccessInv'
  <2>1. \A t \in Tasks : LayerOf[t] < host.layer => file'[t] = file[t]
    BY <1>3, <1>4, <1>9
  <2> QED BY <1>1, <2>1 DEF IInv, SuccessInv
<1>18. FailureInv'
  <2>1. \A t \in Tasks : LayerOf[t] < host.layer \/ file[t].status = "failed" => file'[t] = file[t]
    BY <1>3, <1>4, <1>9, <1>10 DEF Untouched
  <2> QED BY <1>1, <2>1 DEF IInv, FailureInv
<1>19. CancelInv'
  BY <1>2, <1>4, <1>6 DEF IInv, CancelInv, Active
<1>20. EndInv' /\ CompletedIsComplete'
  BY <1>1, <1>2, <1>6 DEF EndInv, BrokeOff, CompletedIsComplete, TerminalRun
<1>21. Kept
  BY <1>3, <1>4, <1>10 DEF Kept, Untouched
<1> QED BY <1>12, <1>13, <1>14, <1>15, <1>16, <1>17, <1>18, <1>19, <1>20, <1>21 DEF IInv, SummaryInv

(* What a worker's return does to the invariant: nothing, as long as which   *)
(* tasks have a worker, and everything but the workers and the clock, stays. *)
LEMMA WorkersOnly ==
    ASSUME SwarmAssumption, IInv, host.pc = "collect",
           UNCHANGED <<run, file, cancel, reader, answer>>,
           worker' \in [Tasks -> WorkerType], silent' = silent \/ silent' = FALSE,
           \A t \in Tasks : worker'[t].state = "none" <=> worker[t].state = "none",
           host' \in HostType, host'.layer = host.layer,
           host'.summaries = host.summaries, host'.succeeded = host.succeeded,
           \/ host' = host
           \/ host'.pc = "process" /\ host'.results = Futures
    PROVE  IInv' /\ Kept
<1>1. TypeInv'
  BY DEF IInv, TypeInv
<1>2. /\ Futures' = Futures /\ Layer(host.layer)' = Layer(host.layer)
      /\ Futures = {t \in Layer(host.layer) : worker[t].state # "none"}
      /\ \A t \in Layer(host.layer) : t \in Tasks
  BY DEF Futures, Layer
<1>3. PlanInv'
  <2>1. host.layer <= LastLayer
    BY DEF IInv, PlanInv
  <2>2. \A t \in Tasks : LayerOf[t] > host.layer =>
           /\ file'[t].status \in {"pending", "blocked"} /\ worker'[t].state = "none"
    BY DEF IInv, PlanInv, Untouched
  <2>3. \A t \in Layer(host.layer) :
           file[t].status = IF worker[t].state = "none" THEN "blocked" ELSE "in_progress"
    BY DEF IInv, PlanInv
  <2>4. host'.pc = "collect" => \A t \in Layer(host.layer) :
           file'[t].status = IF worker'[t].state = "none" THEN "blocked" ELSE "in_progress"
    BY <1>2, <2>3
  <2>5. host'.pc = "process" =>
           /\ host'.results = Futures
           /\ \A t \in Futures : file'[t].status = "in_progress"
           /\ \A t \in Layer(host.layer) \ Futures : file'[t].status = "blocked"
    BY <1>2, <2>3
  <2> QED BY <1>2, <2>1, <2>2, <2>4, <2>5 DEF PlanInv, Untouched
<1>4. QuietInv' /\ SummaryInv'
  <2>1. host'.pc \in {"collect", "process"}
    OBVIOUS
  <2>4. ~silent'
    BY DEF IInv, QuietInv
  <2>2. Told(file)' /\ GatedByCompletion'
    BY DEF IInv, SummaryInv, Told, GatedByCompletion
  <2> QED BY <2>1, <2>4, <2>2 DEF QuietInv, SummaryInv
<1>5. ReaderInv' /\ CancelInv'
  BY DEF IInv, ReaderInv, HoldsTheEnd, Ended, Told, Active, CancelInv
<1>6. SuccessInv'
  BY <1>2 DEF IInv, SuccessInv
<1>7. FailureInv'
  BY DEF IInv, FailureInv
<1>8. EndInv' /\ CompletedIsComplete'
  BY DEF IInv, EndInv, BrokeOff, Ended, CompletedIsComplete
<1> QED BY <1>1, <1>3, <1>4, <1>5, <1>6, <1>7, <1>8 DEF IInv, Kept

LEMMA WorkerReturnsIsSound ==
    ASSUME SwarmAssumption, IInv, NEW t \in Tasks, WorkerReturns(t)
    PROVE  IInv' /\ Kept
<1> USE DEF WorkerReturns, EmitEvent
<1>1. worker \in [Tasks -> WorkerType] /\ host \in HostType
  BY DEF IInv, TypeInv
<1>2. PICK w : /\ worker' = [worker EXCEPT ![t] = w]
               /\ \/ w = [worker[t] EXCEPT !.attempt = @ + 1]
                  \/ w \in {[worker[t] EXCEPT !.state = r] : r \in Results}
  <2>1. PICK r \in Results : worker' = [worker EXCEPT ![t] =
              IF r = "failed" /\ worker[t].attempt <= MaxRetries
              THEN [worker[t] EXCEPT !.attempt = @ + 1] ELSE [worker[t] EXCEPT !.state = r]]
    OBVIOUS
  <2> DEFINE w == IF r = "failed" /\ worker[t].attempt <= MaxRetries
                  THEN [worker[t] EXCEPT !.attempt = @ + 1] ELSE [worker[t] EXCEPT !.state = r]
  <2>2. \/ w = [worker[t] EXCEPT !.attempt = @ + 1]
        \/ w \in {[worker[t] EXCEPT !.state = r_1] : r_1 \in Results}
    OBVIOUS
  <2>3. worker' = [worker EXCEPT ![t] = w]
    BY <2>1
  <2> HIDE DEF w
  <2> QED BY <2>2, <2>3
<1>3. w \in WorkerType /\ w.state # "none" /\ worker[t].state = "running"
  <2>1. worker[t] \in WorkerType /\ worker[t].state = "running"
    BY <1>1
  <2>2. CASE w = [worker[t] EXCEPT !.attempt = @ + 1]
    BY <2>1, <2>2 DEF WorkerType
  <2>3. CASE w \in {[worker[t] EXCEPT !.state = r] : r \in Results}
    BY <2>1, <2>3 DEF WorkerType, Results
  <2> QED BY <1>2, <2>1, <2>2, <2>3
<1>4. /\ worker' \in [Tasks -> WorkerType]
      /\ \A u \in Tasks : worker'[u].state = "none" <=> worker[u].state = "none"
  BY <1>1, <1>2, <1>3
<1> QED BY <1>1, <1>4, WorkersOnly

LEMMA CollectedIsSound ==
    ASSUME SwarmAssumption, IInv, Collected
    PROVE  IInv' /\ Kept
<1>1. worker \in [Tasks -> WorkerType] /\ host \in HostType /\ Futures \in SUBSET Tasks
  BY DEF IInv, TypeInv, Futures, Layer
<1>2. /\ host' \in HostType /\ host'.pc = "process" /\ host'.results = Futures
      /\ host'.layer = host.layer /\ host'.summaries = host.summaries
      /\ host'.succeeded = host.succeeded
  BY <1>1 DEF Collected, HostType
<1> QED BY <1>1, <1>2, WorkersOnly DEF Collected

LEMMA DeadlineIsSound ==
    ASSUME SwarmAssumption, IInv, LayerDeadline
    PROVE  IInv' /\ Kept
<1>1. worker \in [Tasks -> WorkerType] /\ host \in HostType /\ Futures \in SUBSET Tasks
  BY DEF IInv, TypeInv, Futures, Layer
<1>2. /\ host' \in HostType /\ host'.pc = "process" /\ host'.results = Futures
      /\ host'.layer = host.layer /\ host'.summaries = host.summaries
      /\ host'.succeeded = host.succeeded
  BY <1>1 DEF LayerDeadline, HostType
<1>3. \A t \in Tasks : worker'[t] = IF t \in Futures /\ worker[t].state = "running"
                                    THEN [worker[t] EXCEPT !.state = "other"] ELSE worker[t]
  BY DEF LayerDeadline
<1>4. /\ worker' \in [Tasks -> WorkerType]
      /\ \A t \in Tasks : worker'[t].state = "none" <=> worker[t].state = "none"
  BY <1>1 DEF LayerDeadline, WorkerType, Results
<1> QED BY <1>2, <1>4, WorkersOnly DEF LayerDeadline

(* What the result of task t makes of the task files: t has ended, and at    *)
(* most a blocked task is pending now.                                       *)
(* A completed task on file, with its dependents resolved as far as it got. *)
LEMMA CompletedFacts ==
    ASSUME IInv, NEW t \in Tasks, NEW reached \in SUBSET Tasks,
           file' = ResolveDependencies(Completed(t), t, reached)
    PROVE  /\ file' \in TasksType
           /\ file'[t].status = "completed"
           /\ file'[t].summary
           /\ \A u \in Tasks \ {t} :
                /\ file'[u].summary = file[u].summary
                /\ \/ file'[u].status = file[u].status
                   \/ file[u].status = "blocked" /\ file'[u].status = "pending"
<1>0. file \in TasksType
  BY DEF IInv, TypeInv
<1> DEFINE done == Completed(t)
<1>1. file' = ResolveDependencies(done, t, reached)
  OBVIOUS
<1>2. \A u \in Tasks : UpdateStatus(file, t, "completed")[u] =
         IF u = t THEN [file[t] EXCEPT !.status = "completed"] ELSE file[u]
  BY <1>0 DEF UpdateStatus, TasksType
<1>3. UpdateStatus(file, t, "completed") \in TasksType
  BY <1>0 DEF UpdateStatus, TasksType, TaskType, TaskStatus
<1>4. /\ done \in TasksType
      /\ done[t].status = "completed" /\ done[t].summary
      /\ \A u \in Tasks \ {t} : done[u] = file[u]
  <2> DEFINE U == UpdateStatus(file, t, "completed")
  <2>1. U \in TasksType /\ U[t].status = "completed" /\ \A u \in Tasks \ {t} : U[u] = file[u]
    BY <1>0, <1>2, <1>3 DEF TasksType, TaskType
  <2>2. done = [U EXCEPT ![t].summary = TRUE]
    BY DEF Completed
  <2> HIDE DEF U, done
  <2>3. done = [u \in Tasks |-> IF u = t THEN [U[t] EXCEPT !.summary = TRUE] ELSE U[u]]
    BY <2>1, <2>2 DEF TasksType
  <2>4. /\ [U[t] EXCEPT !.summary = TRUE] \in TaskType
        /\ [U[t] EXCEPT !.summary = TRUE].status = "completed"
        /\ [U[t] EXCEPT !.summary = TRUE].summary
    <3>1. U[t] \in TaskType /\ U[t].status = "completed"
      BY <2>1 DEF TasksType
    <3> QED BY <3>1 DEF TaskType
  <2>5. done \in TasksType
    BY <2>1, <2>3, <2>4 DEF TasksType
  <2> QED BY <2>1, <2>3, <2>4, <2>5
<1> HIDE DEF done
<1>5. ASSUME NEW u \in Tasks
      PROVE  /\ file'[u] \in TaskType
             /\ file'[u].summary = done[u].summary
             /\ \/ file'[u].status = done[u].status
                \/ done[u].status = "blocked" /\ file'[u].status = "pending"
  <2>1. done[u] \in TaskType
    BY <1>4 DEF TasksType
  <2> DEFINE left == done[u].blocked_by \ {t}
             s == IF left = {} /\ done[u].status = "blocked" THEN "pending" ELSE done[u].status
  <2>2. file'[u] = IF u \notin reached \/ t \notin done[u].blocked_by THEN done[u]
                   ELSE [done[u] EXCEPT !.blocked_by = left, !.status = s]
    BY <1>1 DEF ResolveDependencies
  <2>3. \A b \in SUBSET Tasks, x \in TaskStatus :
          /\ [done[u] EXCEPT !.blocked_by = b, !.status = x] \in TaskType
          /\ [done[u] EXCEPT !.blocked_by = b, !.status = x].status = x
          /\ [done[u] EXCEPT !.blocked_by = b, !.status = x].summary = done[u].summary
    BY <2>1 DEF TaskType
  <2>4. left \in SUBSET Tasks /\ s \in TaskStatus
    BY <2>1 DEF TaskType, TaskStatus
  <2>5. s = done[u].status \/ (done[u].status = "blocked" /\ s = "pending")
    OBVIOUS
  <2> HIDE DEF left, s
  <2>6. CASE u \notin reached \/ t \notin done[u].blocked_by
    BY <2>1, <2>2, <2>6
  <2>7. CASE u \in reached /\ t \in done[u].blocked_by
    <3>1. file'[u] = [done[u] EXCEPT !.blocked_by = left, !.status = s]
      BY <2>2, <2>7
    <3> DEFINE after == [done[u] EXCEPT !.blocked_by = left, !.status = s]
    <3>2. after \in TaskType /\ after.status = s /\ after.summary = done[u].summary
      BY <2>3, <2>4
    <3> HIDE DEF after
    <3>3. file'[u] = after
      BY <3>1 DEF after
    <3> QED BY <3>2, <3>3, <2>5
  <2> QED BY <2>6, <2>7
<1>6. file' \in TasksType
  <2>1. file' = [u \in Tasks |-> file'[u]]
    BY <1>1 DEF ResolveDependencies
  <2> QED BY <2>1, <1>5 DEF TasksType
<1>7. file'[t].status = "completed" /\ file'[t].summary
  BY <1>4, <1>5
<1>8. ASSUME NEW u \in Tasks \ {t}
      PROVE  /\ file'[u].summary = file[u].summary
             /\ \/ file'[u].status = file[u].status
                \/ file[u].status = "blocked" /\ file'[u].status = "pending"
  BY <1>4, <1>5
<1> QED BY <1>6, <1>7, <1>8

LEMMA ResultFacts ==
    ASSUME SwarmAssumption, IInv, NEW t \in Tasks, ProcessResult(t)
    PROVE  /\ file' \in TasksType
           /\ file'[t].status = IF worker[t].state = "completed" THEN "completed" ELSE "failed"
           /\ worker[t].state = "completed" => file'[t].summary
           /\ \A u \in Tasks \ {t} :
                /\ file'[u].summary = file[u].summary
                /\ \/ file'[u].status = file[u].status
                   \/ file[u].status = "blocked" /\ file'[u].status = "pending"
<1>1. file \in TasksType
  BY DEF IInv, TypeInv
<1>2. CASE worker[t].state # "completed"
  <2>1. file' = [file EXCEPT ![t].status = "failed"]
    BY <1>2 DEF ProcessResult, UpdateStatus
  <2>2. /\ file' = [u \in Tasks |-> IF u = t THEN [file[t] EXCEPT !.status = "failed"] ELSE file[u]]
        /\ file[t] \in TaskType
    BY <1>1, <2>1 DEF TasksType
  <2>3. [file[t] EXCEPT !.status = "failed"] \in TaskType
    BY <2>2 DEF TaskType, TaskStatus
  <2>4. file' \in TasksType /\ file'[t].status = "failed"
    BY <1>1, <2>2, <2>3 DEF TasksType, TaskType
  <2>5. \A u \in Tasks \ {t} : file'[u] = file[u]
    BY <2>2
  <2> QED BY <1>2, <2>4, <2>5
<1>3. CASE worker[t].state = "completed"
  <2>1. file' = ResolveDependencies(Completed(t), t, Tasks)
    BY <1>3 DEF ProcessResult
  <2> QED BY <1>3, <2>1, CompletedFacts
<1> QED BY <1>2, <1>3

LEMMA ProcessResultIsSound ==
    ASSUME SwarmAssumption, IInv, NEW t \in Tasks, ProcessResult(t)
    PROVE  IInv' /\ Kept
<1>1. /\ host \in HostType /\ host' \in HostType
      /\ host.pc = "process" /\ host'.pc = "process" /\ host'.layer = host.layer
      /\ t \in host.results /\ host'.results = host.results \ {t}
  <2>1. host \in HostType /\ host.pc = "process" /\ t \in host.results
    BY DEF ProcessResult, IInv, TypeInv
  <2>2. CASE host' = [host EXCEPT !.results = @ \ {t}, !.summaries = @ \cup {t}]
    BY <2>1, <2>2 DEF HostType
  <2>3. CASE host' = [host EXCEPT !.results = @ \ {t}, !.succeeded = FALSE]
    BY <2>1, <2>3 DEF HostType
  <2> QED BY <2>1, <2>2, <2>3 DEF ProcessResult
<1>2. IF worker[t].state = "completed"
      THEN host'.summaries = host.summaries \cup {t} /\ host'.succeeded = host.succeeded
      ELSE host'.summaries = host.summaries /\ host'.succeeded = FALSE
  BY <1>1 DEF ProcessResult, HostType
<1>3. UNCHANGED <<run, worker, cancel, reader, answer>> /\ silent' = FALSE
  BY DEF ProcessResult, EmitEvent
<1>4. /\ \A r \in Readers : ~ Active(r)
      /\ run.status \notin TerminalRun /\ answer.status \notin TerminalRun
  BY <1>1, LiveRunIsOpen
<1>5. /\ host.results \subseteq Futures /\ file[t].status = "in_progress"
      /\ \A u \in host.results : file[u].status = "in_progress"
      /\ \A u \in Layer(host.layer) \ Futures : file[u].status \in {"pending", "blocked"}
      /\ \A u \in Tasks : LayerOf[u] > host.layer => Untouched(u)
      /\ host.layer <= LastLayer
  BY <1>1 DEF IInv, PlanInv
<1>6. /\ Futures' = Futures /\ Futures \subseteq Layer(host.layer)
      /\ Layer(host.layer)' = Layer(host.layer)
      /\ \A u \in Layer(host.layer) : u \in Tasks /\ LayerOf[u] = host.layer
  BY <1>1, <1>3 DEF Futures, Layer
<1>7. /\ file' \in TasksType
      /\ file'[t].status = IF worker[t].state = "completed" THEN "completed" ELSE "failed"
      /\ worker[t].state = "completed" => file'[t].summary
      /\ \A u \in Tasks \ {t} :
           /\ file'[u].summary = file[u].summary
           /\ \/ file'[u].status = file[u].status
              \/ file[u].status = "blocked" /\ file'[u].status = "pending"
  BY ResultFacts
<1>8. t \in Layer(host.layer) /\ LayerOf[t] = host.layer /\ host.layer \in Nat
  BY <1>1, <1>5, <1>6 DEF HostType
<1>9. TypeInv'
  BY <1>1, <1>3, <1>7 DEF IInv, TypeInv
<1>10. PlanInv'
  <2>1. \A u \in Tasks : LayerOf[u] > host.layer => u # t /\ file'[u].status \in {"pending", "blocked"} /\ worker'[u].state = "none"
    BY <1>3, <1>5, <1>7, <1>8 DEF Untouched
  <2>2. \A u \in host'.results : u \in Tasks /\ u # t /\ u \in Futures /\ file'[u].status = "in_progress"
    BY <1>1, <1>5, <1>6, <1>7
  <2>3. \A u \in Layer(host.layer) \ Futures : u # t /\ file'[u].status \in {"pending", "blocked"}
    BY <1>1, <1>5, <1>6, <1>7
  <2>4. host'.results \subseteq Futures'
    BY <1>6, <2>2
  <2> QED BY <1>1, <1>5, <1>6, <2>1, <2>2, <2>3, <2>4 DEF PlanInv, Untouched
<1>11. SummaryInv'
  <2>1. Told(file)'
    BY <1>2, <1>7 DEF IInv, SummaryInv, Told
  <2>2. GatedByCompletion'
    BY <1>2, <1>3 DEF IInv, SummaryInv, GatedByCompletion
  <2> QED BY <2>1, <2>2 DEF SummaryInv
<1>12. QuietInv' /\ ReaderInv'
  BY <1>1, <1>3, <1>4 DEF QuietInv, ReaderInv, Active
<1>13. SuccessInv'
  <2>1. SUFFICES ASSUME host'.succeeded PROVE SuccessInv'
    BY DEF SuccessInv
  <2>2. worker[t].state = "completed" /\ host.succeeded
    BY <2>1, <1>2
  <2>3. \A u \in Tasks : LayerOf[u] < host.layer => file'[u].status = "completed"
    BY <1>1, <1>7, <1>8, <2>2 DEF IInv, SuccessInv
  <2>4. \A u \in Futures \ host'.results : file'[u].status = "completed"
    BY <1>1, <1>6, <1>7, <2>2 DEF IInv, SuccessInv
  <2> QED BY <1>1, <1>6, <2>3, <2>4 DEF SuccessInv
<1>14. FailureInv'
  <2>1. SUFFICES ASSUME ~ host'.succeeded
                 PROVE  \E u \in Tasks : \/ file'[u].status = "failed"
                                         \/ LayerOf[u] < host.layer /\ file'[u].status # "completed"
    BY <1>1 DEF FailureInv
  <2>2. CASE worker[t].state # "completed"
    BY <1>7, <2>2
  <2>3. CASE worker[t].state = "completed"
    <3>1. PICK u \in Tasks : \/ file[u].status = "failed"
                             \/ LayerOf[u] < host.layer /\ file[u].status # "completed"
      BY <1>1, <1>2, <2>1, <2>3 DEF IInv, FailureInv
    <3>2. u # t
      BY <3>1, <1>5, <1>8
    <3> QED BY <3>1, <3>2, <1>7
  <2> QED BY <2>2, <2>3
<1>15. CancelInv'
  BY <1>3, <1>4, <1>7 DEF IInv, CancelInv, Active
<1>16. EndInv' /\ CompletedIsComplete'
  BY <1>1, <1>3, <1>4 DEF EndInv, BrokeOff, CompletedIsComplete, TerminalRun
<1>17. Kept
  BY <1>5, <1>7 DEF Kept
<1> QED BY <1>9, <1>10, <1>11, <1>12, <1>13, <1>14, <1>15, <1>16, <1>17 DEF IInv

LEMMA LayerEndIsSound ==
    ASSUME SwarmAssumption, IInv, LayerEnd
    PROVE  IInv' /\ Kept
<1>1. /\ host \in HostType /\ file \in TasksType /\ host' \in HostType
      /\ host.pc = "process" /\ host'.pc = "boundary" /\ host'.layer = host.layer + 1
      /\ host.results = {} /\ host'.tasks = file /\ host'.summaries = host.summaries
      /\ host'.succeeded <=> (host.succeeded /\ Futures = Layer(host.layer))
  <2>1. host \in HostType /\ file \in TasksType /\ host.pc = "process" /\ host.results = {}
    BY DEF LayerEnd, IInv, TypeInv
  <2> DEFINE s == host.succeeded /\ Futures = Layer(host.layer)
  <2>2. host' = [host EXCEPT !.pc = "boundary", !.layer = @ + 1,
                   !.tasks = file, !.order = "file", !.succeeded = s]
    BY DEF LayerEnd
  <2>3. s \in BOOLEAN
    OBVIOUS
  <2> HIDE DEF s
  <2>4. /\ host'.pc = "boundary" /\ host'.layer = host.layer + 1
        /\ host'.tasks = file /\ host'.summaries = host.summaries /\ host'.succeeded = s
    BY <2>1, <2>2 DEF HostType
  <2>5. host' \in HostType
    <3>1. host.layer + 1 \in Nat
      BY <2>1 DEF HostType
    <3>2. ASSUME NEW n \in Nat, NEW b \in BOOLEAN
          PROVE  [host EXCEPT !.pc = "boundary", !.layer = n, !.tasks = file,
                              !.order = "file", !.succeeded = b] \in HostType
      BY <2>1 DEF HostType
    <3> QED BY <2>2, <2>3, <3>1, <3>2
  <2> QED BY <2>1, <2>4, <2>5 DEF s
<1>2. UNCHANGED <<file, worker, cancel, silent, reader, answer>>
  BY DEF LayerEnd
<1>3. run'.status = "running" /\ run' \in ViewType
  <2>1. run' = RunFileOf("running", 0) /\ N \in Nat
    BY DEF LayerEnd, UpdateRun, SwarmAssumption
  <2> QED BY <1>1, <2>1 DEF RunFileOf, ViewType, HostType
<1>4. host.layer \in Nat /\ \A t \in Tasks : LayerOf[t] \in Nat
  BY <1>1, LastLayerFacts DEF HostType
<1>5. \A t \in Tasks : LayerOf[t] = host.layer => t \in Layer(host.layer)
  BY DEF Layer
<1>6. TypeInv'
  BY <1>1, <1>2, <1>3 DEF IInv, TypeInv
<1>7. PlanInv'
  <2>1. \A t \in Tasks : LayerOf[t] >= host.layer + 1 => Untouched(t)
    BY <1>1, <1>4 DEF IInv, PlanInv
  <2> QED BY <1>1, <1>2, <2>1 DEF PlanInv, Untouched
<1>8. QuietInv' /\ SummaryInv'
  BY <1>1, <1>2 DEF IInv, QuietInv, SummaryInv, Told, GatedByCompletion
<1>9. ReaderInv' /\ CancelInv'
  BY <1>1, <1>2 DEF IInv, ReaderInv, HoldsTheEnd, Ended, Told, Active, CancelInv
<1>10. SuccessInv'
  <2>1. SUFFICES ASSUME host'.succeeded, NEW t \in Tasks, LayerOf[t] < host.layer + 1
                 PROVE  file'[t].status = "completed"
    BY <1>1 DEF SuccessInv
  <2>2. CASE LayerOf[t] = host.layer
    BY <1>1, <1>2, <1>5, <2>1, <2>2 DEF IInv, SuccessInv
  <2>3. CASE LayerOf[t] < host.layer
    BY <1>1, <1>2, <2>1, <2>3 DEF IInv, SuccessInv
  <2> QED BY <2>1, <2>2, <2>3, <1>4
<1>11. FailureInv'
  <2>1. SUFFICES ASSUME ~ host'.succeeded
                 PROVE  \E t \in Tasks : \/ file[t].status = "failed"
                                         \/ LayerOf[t] < host.layer + 1 /\ file[t].status # "completed"
    BY <1>1, <1>2 DEF FailureInv
  <2>2. CASE ~ host.succeeded
    <3>1. PICK t \in Tasks : \/ file[t].status = "failed"
                             \/ LayerOf[t] < host.layer /\ file[t].status # "completed"
      BY <1>1, <2>2 DEF IInv, FailureInv
    <3> QED BY <3>1, <1>4
  <2>3. CASE Futures # Layer(host.layer)
    <3>1. PICK t \in Layer(host.layer) : t \notin Futures
      BY <2>3 DEF Futures
    <3>2. t \in Tasks /\ LayerOf[t] = host.layer /\ file[t].status \in {"pending", "blocked"}
      BY <3>1, <1>1 DEF IInv, PlanInv, Layer
    <3> QED BY <3>2, <1>4
  <2> QED BY <1>1, <2>1, <2>2, <2>3
<1>12. EndInv' /\ CompletedIsComplete'
  BY <1>1, <1>2, <1>3 DEF IInv, EndInv, BrokeOff, Ended, CompletedIsComplete, TerminalRun
<1> QED BY <1>2, <1>6, <1>7, <1>8, <1>9, <1>10, <1>11, <1>12 DEF IInv, Kept

LEMMA HostRaisesIsSound ==
    ASSUME SwarmAssumption, IInv, HostRaises
    PROVE  IInv' /\ Kept
<1>1. /\ host \in HostType /\ host' \in HostType
      /\ host'.pc = "finalize" /\ host.pc # "dead" /\ host.pc # "done"
      /\ host'.summaries = host.summaries /\ host'.succeeded = FALSE
  BY DEF HostRaises, IInv, TypeInv, HostType
<1>2. UNCHANGED <<run, file, worker, cancel, reader, answer>> /\ silent' = FALSE
  BY DEF HostRaises, EmitEvent
<1>3. /\ \E t \in Tasks : file[t].status # "completed"
      /\ \A r \in Readers : ~ Active(r)
      /\ run.status \notin TerminalRun /\ answer.status \notin TerminalRun
  BY LiveRunIsOpen DEF HostRaises, TerminalTask
<1>4. TypeInv'
  BY <1>1, <1>2 DEF IInv, TypeInv
<1>5. QuietInv' /\ PlanInv' /\ SuccessInv'
  BY <1>1, <1>2 DEF QuietInv, PlanInv, SuccessInv
<1>6. SummaryInv' /\ CancelInv'
  BY <1>1, <1>2 DEF IInv, SummaryInv, Told, GatedByCompletion, CancelInv, Active
<1>7. ReaderInv' /\ FailureInv'
  BY <1>1, <1>2, <1>3 DEF ReaderInv, Active, FailureInv
<1>8. EndInv' /\ CompletedIsComplete'
  BY <1>1, <1>2, <1>3 DEF EndInv, BrokeOff, CompletedIsComplete, TerminalRun
<1> QED BY <1>2, <1>4, <1>5, <1>6, <1>7, <1>8 DEF IInv, Kept

(* The task is on file as completed, and the thread goes to the end. *)
LEMMA ResolveRaisesIsSound ==
    ASSUME SwarmAssumption, IInv, NEW t \in Tasks, ResolveRaises(t)
    PROVE  IInv' /\ Kept
<1>1. /\ host \in HostType /\ host' \in HostType
      /\ host.pc = "process" /\ host'.pc = "finalize" /\ t \in host.results
      /\ host'.summaries = host.summaries \cup {t} /\ host'.succeeded = FALSE
  BY DEF ResolveRaises, IInv, TypeInv, HostType
<1>2. UNCHANGED <<run, worker, cancel, reader, answer>> /\ silent' = FALSE
  BY DEF ResolveRaises, EmitEvent
<1>3. /\ \A r \in Readers : ~ Active(r)
      /\ run.status \notin TerminalRun /\ answer.status \notin TerminalRun
  BY <1>1, LiveRunIsOpen
<1>4. file[t].status = "in_progress"
  BY <1>1 DEF IInv, PlanInv
<1>5. /\ file' \in TasksType
      /\ file'[t].status = "completed" /\ file'[t].summary
      /\ \A u \in Tasks \ {t} :
           /\ file'[u].summary = file[u].summary
           /\ \/ file'[u].status = file[u].status
              \/ file[u].status = "blocked" /\ file'[u].status = "pending"
  BY CompletedFacts DEF ResolveRaises
<1>6. TypeInv'
  BY <1>1, <1>2, <1>5 DEF IInv, TypeInv
<1>7. QuietInv' /\ PlanInv' /\ SuccessInv' /\ FailureInv'
  BY <1>1, <1>2 DEF QuietInv, PlanInv, SuccessInv, FailureInv
<1>8. SummaryInv'
  <2>1. Told(file)'
    BY <1>1, <1>5 DEF IInv, SummaryInv, Told
  <2>2. GatedByCompletion'
    BY <1>1, <1>2 DEF IInv, SummaryInv, GatedByCompletion
  <2> QED BY <2>1, <2>2 DEF SummaryInv
<1>9. ReaderInv' /\ CancelInv'
  BY <1>2, <1>3, <1>5 DEF IInv, ReaderInv, CancelInv, Active
<1>10. EndInv' /\ CompletedIsComplete'
  BY <1>1, <1>2, <1>3 DEF EndInv, CompletedIsComplete, TerminalRun
<1>11. Kept
  BY <1>4, <1>5 DEF Kept
<1> QED BY <1>6, <1>7, <1>8, <1>9, <1>10, <1>11 DEF IInv

(* The thread ends the run by its own flag, and that is what the files say. *)
LEMMA FinalizeIsSound ==
    ASSUME SwarmAssumption, IInv, Finalize
    PROVE  IInv' /\ Kept
<1>1. /\ host \in HostType /\ file \in TasksType /\ host' \in HostType
      /\ host.pc = "finalize" /\ host'.pc = "done" /\ host'.tasks = file /\ host'.order = "file"
      /\ host'.summaries = host.summaries /\ host'.succeeded = host.succeeded
  BY DEF Finalize, IInv, TypeInv, HostType
<1>2. UNCHANGED <<file, worker, cancel, reader, answer>> /\ silent' = FALSE
  BY DEF Finalize, EmitEvent
<1>3. PICK report \in FinalReports : run' = RunFileOf(FinalStatus, report)
  BY DEF Finalize, UpdateRun
<1>4. run'.status = FinalStatus /\ run'.report = report
  BY <1>3 DEF RunFileOf
<1>5. report \in 0..N /\ FinalStatus \in TerminalRun
  <2>1. N \in Nat
    BY DEF SwarmAssumption
  <2>2. FinalReports \subseteq 0..N
    BY <2>1 DEF FinalReports, Layer, Tasks
  <2> QED BY <2>2 DEF FinalStatus, TerminalRun
<1>6. run' \in ViewType
  BY <1>1, <1>3, <1>5 DEF RunFileOf, ViewType
<1>7. ASSUME ~ cancel
      PROVE  /\ FinalStatus = "completed" => \A t \in Tasks : file[t].status = "completed"
             /\ ~ BrokeOff /\ Ended(file) => FinalStatus = StatusFrom(file)
  <2>1. CASE host.succeeded
    BY <1>1, <1>7, <2>1, StatusFromFacts DEF IInv, SuccessInv, FinalStatus
  <2>2. CASE ~ host.succeeded
    <3>1. FinalStatus = "failed" /\ (~ BrokeOff => \E t \in Tasks : file[t].status # "completed")
      BY <1>7, <2>2 DEF FinalStatus, BrokeOff
    <3>2. \A t \in Tasks : file[t].status # "cancelled"
      BY <1>7 DEF IInv, CancelInv
    <3> QED BY <1>1, <3>1, <3>2, StatusFromFacts
  <2> QED BY <2>1, <2>2
<1>8. TypeInv'
  BY <1>1, <1>2, <1>6 DEF IInv, TypeInv
<1>9. QuietInv' /\ PlanInv' /\ SuccessInv' /\ FailureInv'
  BY <1>1, <1>2 DEF IInv, QuietInv, PlanInv, SuccessInv, FailureInv
<1>10. SummaryInv' /\ CancelInv'
  BY <1>1, <1>2 DEF IInv, SummaryInv, Told, GatedByCompletion, CancelInv, Active
<1>11. ReaderInv'
  BY <1>1, <1>2 DEF IInv, ReaderInv, HoldsTheEnd, Ended, Told, Active
<1>12. EndInv'
  BY <1>1, <1>2, <1>4, <1>5, <1>7 DEF IInv, EndInv, BrokeOff, Ended
<1>13. CompletedIsComplete'
  <2>1. SUFFICES ASSUME FinalStatus = "completed"
                 PROVE  /\ \A t \in Tasks : file[t].status = "completed" /\ file[t].summary
                        /\ report # 0
    BY <1>2, <1>4 DEF CompletedIsComplete
  <2>2. \A t \in Tasks : file[t].status = "completed"
    BY <1>7, <2>1 DEF FinalStatus
  <2>3. \A t \in Tasks : file[t].summary /\ t \in host.summaries
    BY <2>2 DEF IInv, SummaryInv, Told
  <2>4. PICK t \in Tasks : LayerOf[t] = LastLayer
    BY LastLayerFacts
  <2>5. t \in Layer(LastLayer) \cap host.summaries
    BY <2>3, <2>4 DEF Layer
  <2>6. FinalReports = Layer(LastLayer) \cap host.summaries
    BY <2>5 DEF FinalReports
  <2>7. report \in Tasks /\ N \in Nat
    BY <1>3, <2>6 DEF Layer, SwarmAssumption
  <2> QED BY <2>2, <2>3, <2>7 DEF Tasks
<1> QED BY <1>2, <1>8, <1>9, <1>10, <1>11, <1>12, <1>13 DEF IInv, Kept

-----------------------------------------------------------------------------
(* The environment. *)

LEMMA CancelRunIsSound ==
    ASSUME SwarmAssumption, IInv, CancelRun
    PROVE  IInv' /\ Kept
<1> USE DEF CancelRun
<1>1. TypeInv' /\ QuietInv' /\ CancelInv'
  BY DEF IInv, TypeInv, QuietInv, CancelInv
<1>2. PlanInv' /\ SummaryInv'
  BY DEF IInv, PlanInv, Untouched, Futures, SummaryInv, Told, GatedByCompletion
<1>3. ReaderInv' /\ SuccessInv' /\ FailureInv'
  BY DEF IInv, ReaderInv, HoldsTheEnd, Ended, Told, Active, SuccessInv, Futures, FailureInv
<1>4. EndInv' /\ CompletedIsComplete'
  BY DEF IInv, EndInv, BrokeOff, Ended, CompletedIsComplete
<1> QED BY <1>1, <1>2, <1>3, <1>4 DEF IInv, Kept

LEMMA ThreadDiesIsSound ==
    ASSUME SwarmAssumption, IInv, ThreadDies
    PROVE  IInv' /\ Kept
<1>1. /\ host \in HostType /\ host' \in HostType
      /\ host'.pc = "dead" /\ host.pc # "dead" /\ host.pc # "done"
      /\ host'.summaries = host.summaries /\ host'.succeeded = host.succeeded
  BY DEF ThreadDies, IInv, TypeInv, HostType
<1>2. UNCHANGED <<run, file, worker, cancel, silent, reader, answer>>
  BY DEF ThreadDies
<1>3. TypeInv' /\ QuietInv'
  BY <1>1, <1>2 DEF IInv, TypeInv, QuietInv
<1>4. PlanInv' /\ SuccessInv'
  BY <1>1 DEF PlanInv, SuccessInv
<1>5. FailureInv'
  BY <1>1 DEF FailureInv
<1>6. SummaryInv' /\ CancelInv'
  BY <1>1, <1>2 DEF IInv, SummaryInv, Told, GatedByCompletion, CancelInv, Active
<1>7. ReaderInv'
  BY <1>1, <1>2 DEF IInv, ReaderInv, HoldsTheEnd, Ended, Told, Active
<1>8. EndInv' /\ CompletedIsComplete'
  BY <1>1, <1>2 DEF IInv, EndInv, Ended, CompletedIsComplete
<1> QED BY <1>2, <1>3, <1>4, <1>5, <1>6, <1>7, <1>8 DEF IInv, Kept

LEMMA CrashIsSound ==
    ASSUME SwarmAssumption, IInv, Crash
    PROVE  IInv' /\ Kept
<1>1. /\ host \in HostType /\ host' \in HostType
      /\ host'.pc = "dead" /\ host.pc # "done"
      /\ host'.summaries = host.summaries /\ host'.succeeded = host.succeeded
  BY DEF Crash, IInv, TypeInv, HostType
<1>2. UNCHANGED <<run, file, worker, cancel, silent, answer>>
  BY DEF Crash
<1>3. /\ reader' \in [Readers -> ReaderType] /\ reader'["poll"].pc = "gone"
      /\ reader'["sweep"] = reader["sweep"]
  BY DEF Crash, IInv, TypeInv, ReaderType, Readers
<1>4. \A r \in Readers : r = "sweep" \/ ~ Active(r)'
  BY <1>3 DEF Active, Readers
<1>5. TypeInv' /\ QuietInv'
  BY <1>1, <1>2, <1>3 DEF IInv, TypeInv, QuietInv
<1>6. PlanInv' /\ SuccessInv' /\ FailureInv'
  BY <1>1 DEF PlanInv, SuccessInv, FailureInv
<1>7. SummaryInv' /\ CancelInv'
  BY <1>1, <1>2, <1>3, <1>4 DEF IInv, SummaryInv, Told, GatedByCompletion, CancelInv, Active
<1>8. ReaderInv'
  BY <1>1, <1>2, <1>3, <1>4 DEF IInv, ReaderInv, HoldsTheEnd, Ended, Told, Active
<1>9. EndInv' /\ CompletedIsComplete'
  BY <1>1, <1>2 DEF IInv, EndInv, BrokeOff, Ended, CompletedIsComplete
<1> QED BY <1>2, <1>5, <1>6, <1>7, <1>8, <1>9 DEF IInv, Kept

LEMMA FallsSilentIsSound ==
    ASSUME SwarmAssumption, IInv, FallsSilent
    PROVE  IInv' /\ Kept
<1> USE DEF FallsSilent
<1>1. TypeInv' /\ QuietInv' /\ CancelInv'
  BY DEF IInv, TypeInv, QuietInv, CancelInv, Active
<1>2. PlanInv' /\ SummaryInv'
  BY DEF IInv, PlanInv, Untouched, Futures, SummaryInv, Told, GatedByCompletion
<1>3. ReaderInv' /\ SuccessInv' /\ FailureInv'
  BY DEF IInv, ReaderInv, HoldsTheEnd, Ended, Told, Active, SuccessInv, Futures, FailureInv
<1>4. EndInv' /\ CompletedIsComplete'
  BY DEF IInv, EndInv, BrokeOff, Ended, CompletedIsComplete
<1> QED BY <1>1, <1>2, <1>3, <1>4 DEF IInv, Kept

-----------------------------------------------------------------------------
(* The readers. *)

(* A step of a reader that leaves the files alone keeps all of the invariant *)
(* that is not about readers or the answer.                                  *)
LEMMA ReadingChangesNothing ==
    ASSUME IInv, UNCHANGED <<run, file, host, worker, cancel, silent>>,
           reader' \in [Readers -> ReaderType],
           reader["poll"].pc = "gone" => reader'["poll"].pc = "gone"
    PROVE  /\ TypeInv' /\ QuietInv' /\ PlanInv' /\ SummaryInv' /\ SuccessInv' /\ FailureInv'
           /\ CompletedIsComplete' /\ Kept
<1>1. TypeInv' /\ QuietInv'
  BY DEF IInv, TypeInv, QuietInv
<1>2. PlanInv' /\ SummaryInv'
  BY DEF IInv, PlanInv, Untouched, Futures, SummaryInv, Told, GatedByCompletion
<1>3. SuccessInv' /\ FailureInv' /\ CompletedIsComplete' /\ Kept
  BY DEF IInv, SuccessInv, Futures, FailureInv, CompletedIsComplete, Kept
<1> QED BY <1>1, <1>2, <1>3

(* A reader that finds the run ended by its tasks, or abandoned. *)
LEMMA RecoveryFacts ==
    ASSUME SwarmAssumption, IInv, Recovers
    PROVE  /\ Reconciled \in ViewType
           /\ Ended(Reconciled.tasks) /\ Told(Reconciled.tasks)
           /\ Reconciled.status = StatusFrom(Reconciled.tasks)
           /\ Reconciled.status = "completed" => Reconciled.report # 0
           /\ \A t \in Tasks :
                /\ Reconciled.tasks[t] = ReapedTask(file[t])
                /\ file[t].status # "cancelled" => Reconciled.tasks[t].status # "cancelled"
           /\ host.pc # "dead" => Reconciled.tasks = file
<1>1. Hydrated \in ViewType /\ Hydrated.tasks = file /\ Hydrated.status = run.status
  BY DEF Hydrated, IInv, TypeInv, ViewType
<1>2. Told(file) /\ file \in TasksType
  BY DEF IInv, SummaryInv, TypeInv
<1>3. CASE AllTerminal(Hydrated)
  <2>1. Reconciled = RecoverTerminal(Hydrated)
    BY <1>3 DEF Reconciled, Recovers
  <2>2. RecoveredFrom(Reconciled, file)
    BY <1>1, <2>1, RecoverTerminalFacts
  <2>3. Ended(file)
    BY <1>1, <1>3 DEF AllTerminal, Ended
  <2>4. \A t \in Tasks : file[t] = ReapedTask(file[t])
    BY <2>3 DEF Ended, ReapedTask
  <2> QED BY <1>2, <2>2, <2>3, <2>4 DEF RecoveredFrom
<1>4. CASE ~ AllTerminal(Hydrated)
  <2>1. Reconciled = ReapStale(Hydrated) /\ silent
    <3>1. Reconciled # Hydrated
      BY DEF Recovers
    <3> QED BY <1>4, <3>1 DEF Reconciled, IsRunStale, Recovers
  <2>2. RecoveredFrom(Reconciled, Reaped(file)) /\ Ended(Reaped(file))
    BY <1>1, <2>1, ReapStaleFacts
  <2>3. host.pc = "dead"
    BY <2>1 DEF IInv, QuietInv
  <2>4. \A t \in Tasks :
          /\ file[t].status \in TerminalTask => Reaped(file)[t] = file[t]
          /\ file[t].status \notin TerminalTask => Reaped(file)[t].status = "failed"
    BY <1>2 DEF Reaped, TasksType, TaskType
  <2>8. \A t \in Tasks : Reaped(file)[t] = ReapedTask(file[t])
    BY DEF Reaped, ReapedTask
  <2>5. Told(Reaped(file))
    BY <1>2, <2>4 DEF Told, TerminalTask
  <2>6. Reconciled.tasks = Reaped(file)
    BY <2>2 DEF RecoveredFrom
  <2> HIDE DEF Reaped
  <2>7. \A t \in Tasks : file[t].status # "cancelled" => Reaped(file)[t].status # "cancelled"
    BY <2>4
  <2> QED BY <2>2, <2>3, <2>4, <2>5, <2>6, <2>7, <2>8 DEF RecoveredFrom
<1> QED BY <1>3, <1>4

LEMMA RecoveryIsSound ==
    ASSUME SwarmAssumption, IInv, NEW r \in Readers, NEW last \in BOOLEAN,
           Reconcile(r, last), Recovers
    PROVE  IInv' /\ Kept
<1>1. /\ reader \in [Readers -> ReaderType] /\ reader[r].pc = "idle"
      /\ reader' = [reader EXCEPT ![r] = [pc |-> "tasks", view |-> Reconciled]]
      /\ UNCHANGED <<run, file, host, worker, cancel, silent, answer>>
  BY DEF Reconcile, IInv, TypeInv
<1>2. /\ Reconciled \in ViewType
      /\ Ended(Reconciled.tasks) /\ Told(Reconciled.tasks)
      /\ Reconciled.status = StatusFrom(Reconciled.tasks)
      /\ Reconciled.status = "completed" => Reconciled.report # 0
      /\ \A t \in Tasks :
           /\ Reconciled.tasks[t] = ReapedTask(file[t])
           /\ file[t].status # "cancelled" => Reconciled.tasks[t].status # "cancelled"
      /\ host.pc # "dead" => Reconciled.tasks = file
  BY RecoveryFacts
<1> DEFINE v == Reconciled
<1>3. /\ reader' \in [Readers -> ReaderType]
      /\ reader'[r].pc = "tasks" /\ reader'[r].view = v
      /\ \A q \in Readers \ {r} : reader'[q] = reader[q]
  <2> HIDE DEF v
  <2>1. v \in ViewType
    BY <1>2 DEF v
  <2>2. [pc |-> "tasks", view |-> v] \in ReaderType
    BY <2>1 DEF ReaderType
  <2>3. reader' = [reader EXCEPT ![r] = [pc |-> "tasks", view |-> v]]
    BY <1>1 DEF v
  <2> QED BY <1>1, <2>2, <2>3
<1> HIDE DEF v
<1>4. reader["poll"].pc = "gone" => reader'["poll"].pc = "gone"
  BY <1>1, <1>3 DEF Readers
<1>5. /\ Ended(v.tasks) /\ Told(v.tasks) /\ v.status = StatusFrom(v.tasks)
      /\ v.status = "completed" => v.report # 0
      /\ \A t \in Tasks :
           /\ v.tasks[t] = ReapedTask(file[t])
           /\ file[t].status # "cancelled" => v.tasks[t].status # "cancelled"
      /\ host.pc # "dead" => v.tasks = file
  BY <1>2 DEF v
<1>6. ReaderInv'
  <2>1. SUFFICES ASSUME NEW q \in Readers, Active(q)' PROVE HoldsTheEnd(q)'
    BY DEF ReaderInv
  <2>2. CASE q = r
    BY <1>1, <1>3, <1>5, <2>2 DEF HoldsTheEnd, Ended, Told
  <2>3. CASE q # r
    <3>1. reader'[q] = reader[q] /\ Active(q)
      BY <1>3, <2>1, <2>3 DEF Active
    <3> QED BY <1>1, <3>1 DEF IInv, ReaderInv, HoldsTheEnd, Ended, Told
  <2> QED BY <2>2, <2>3
<1>7. CancelInv'
  <2>1. SUFFICES ASSUME ~ cancel
                 PROVE  /\ \A t \in Tasks : file[t].status # "cancelled"
                        /\ \A q \in Readers : Active(q)' =>
                             \A t \in Tasks : reader'[q].view.tasks[t].status # "cancelled"
    BY <1>1 DEF CancelInv
  <2>2. \A t \in Tasks : file[t].status # "cancelled"
    BY <2>1 DEF IInv, CancelInv
  <2>3. ASSUME NEW q \in Readers, Active(q)', NEW t \in Tasks
        PROVE  reader'[q].view.tasks[t].status # "cancelled"
    <3>1. CASE q = r
      BY <1>3, <1>5, <2>2, <3>1
    <3>2. CASE q # r
      BY <1>3, <2>1, <2>3, <3>2 DEF Active, IInv, CancelInv
    <3> QED BY <3>1, <3>2
  <2> QED BY <2>2, <2>3
<1>8. EndInv'
  BY <1>1 DEF IInv, EndInv, BrokeOff, Ended
<1> QED BY <1>1, <1>3, <1>4, <1>6, <1>7, <1>8, ReadingChangesNothing DEF IInv

(* A reader that leaves the run as it is, and answers if the run has ended. *)
LEMMA ReadingIsSound ==
    ASSUME SwarmAssumption, IInv, NEW r \in Readers, NEW last \in BOOLEAN,
           Reconcile(r, last), ~ Recovers
    PROVE  IInv' /\ Kept
<1>1. /\ reader \in [Readers -> ReaderType] /\ reader[r].pc = "idle"
      /\ reader' = [reader EXCEPT ![r].pc = After(r, Reconciled, last)]
      /\ Answers(r, Reconciled, last)
      /\ UNCHANGED <<run, file, host, worker, cancel, silent>>
  BY DEF Reconcile, IInv, TypeInv
<1>2. Hydrated.status = run.status
  BY DEF Hydrated, IInv, TypeInv, ViewType
<1>3. Reconciled.status \in TerminalRun => Reconciled.status = run.status
  BY <1>2 DEF Recovers, Reconciled
<1>4. After(r, Reconciled, last) \in {"idle", "gone"}
  BY DEF After
<1>5. /\ reader' \in [Readers -> ReaderType]
      /\ ~ Active(r)' /\ reader'[r].view = reader[r].view
      /\ \A q \in Readers \ {r} : reader'[q] = reader[q]
  <2>1. ASSUME NEW p \in {"idle", "gone"}, reader' = [reader EXCEPT ![r].pc = p]
        PROVE  /\ reader' \in [Readers -> ReaderType]
               /\ ~ Active(r)' /\ reader'[r].view = reader[r].view
               /\ \A q \in Readers \ {r} : reader'[q] = reader[q]
    BY <1>1, <2>1 DEF ReaderType, Active
  <2> QED BY <1>1, <1>4, <2>1
<1>6. reader["poll"].pc = "gone" => reader'["poll"].pc = "gone"
  BY <1>1, <1>5 DEF Readers
<1>7. \A q \in Readers : Active(q)' => reader'[q] = reader[q] /\ Active(q)
  BY <1>5 DEF Active
<1>8. ReaderInv'
  <2>1. SUFFICES ASSUME NEW q \in Readers, Active(q)' PROVE HoldsTheEnd(q)'
    BY DEF ReaderInv
  <2>2. reader'[q] = reader[q] /\ HoldsTheEnd(q)
    BY <1>7, <2>1 DEF IInv, ReaderInv
  <2>3. UNCHANGED <<file, host>>
    BY <1>1
  <2> QED BY <2>2, <2>3 DEF HoldsTheEnd, Ended, Told
<1>9. CancelInv'
  BY <1>1, <1>7 DEF IInv, CancelInv
<1>10. answer'.status \in TerminalRun => answer' = answer \/ answer'.status = run.status
  BY <1>1, <1>3 DEF Answers
<1>11. EndInv'
  BY <1>1, <1>10 DEF IInv, EndInv, BrokeOff, Ended
<1> QED BY <1>1, <1>5, <1>6, <1>8, <1>9, <1>11, ReadingChangesNothing DEF IInv

(* While the host lives, the files are already what the reader writes; once  *)
(* it is dead only the sweep writes, and only over tasks that had not ended. *)
LEMMA PersistTasksIsSound ==
    ASSUME SwarmAssumption, IInv, NEW r \in Readers, PersistTasks(r)
    PROVE  IInv' /\ Kept
<1> DEFINE v == reader[r].view
<1>1. /\ reader \in [Readers -> ReaderType] /\ reader[r].pc = "tasks"
      /\ reader' = [reader EXCEPT ![r].pc = "run"] /\ file' = v.tasks
      /\ UNCHANGED <<run, host, worker, cancel, silent, answer>>
  BY DEF PersistTasks, IInv, TypeInv
<1>2. /\ v.tasks \in TasksType /\ Ended(v.tasks) /\ Told(v.tasks)
      /\ v.status = StatusFrom(v.tasks)
      /\ v.status = "completed" => v.report # 0
      /\ \A t \in Tasks : v.tasks[t] = ReapedTask(file[t])
      /\ host.pc # "dead" => file = v.tasks
  <2>1. v \in ViewType
    BY <1>1 DEF ReaderType
  <2> QED BY <1>1, <2>1 DEF IInv, ReaderInv, HoldsTheEnd, Active, ViewType
<1>13. \A t \in Tasks : file[t].status \in TerminalTask => v.tasks[t] = file[t]
  BY <1>2 DEF ReapedTask
<1>14. \A t \in Tasks : v.tasks[t] = ReapedTask(v.tasks[t])
  BY <1>2 DEF Ended, ReapedTask
<1>3. /\ reader' \in [Readers -> ReaderType]
      /\ reader'[r].pc = "run" /\ reader'[r].view = v
      /\ \A q \in Readers \ {r} : reader'[q] = reader[q]
  BY <1>1 DEF ReaderType
<1>4. \A q \in Readers : Active(q)' => Active(q) /\ reader'[q].view = reader[q].view
  BY <1>1, <1>3 DEF Active
<1> HIDE DEF v
<1>5. ASSUME Ended(file) PROVE file' = file
  <2>1. \A t \in Tasks : v.tasks[t] = file[t]
    BY <1>13, <1>5 DEF Ended
  <2>2. file \in TasksType
    BY DEF IInv, TypeInv
  <2> QED BY <1>1, <1>2, <2>1, <2>2 DEF TasksType
<1>6. TypeInv' /\ QuietInv'
  BY <1>1, <1>2, <1>3 DEF IInv, TypeInv, QuietInv, Readers
<1>7. PlanInv' /\ SuccessInv' /\ FailureInv'
  <2>1. CASE host.pc = "dead"
    BY <1>1, <2>1 DEF PlanInv, SuccessInv, FailureInv
  <2>2. CASE file' = file
    <3>1. PlanInv'
      BY <1>1, <2>2 DEF IInv, PlanInv, Untouched, Futures
    <3>2. SuccessInv' /\ FailureInv'
      BY <1>1, <2>2 DEF IInv, SuccessInv, Futures, FailureInv
    <3> QED BY <3>1, <3>2
  <2> QED BY <1>1, <1>2, <2>1, <2>2
<1>8. SummaryInv'
  BY <1>1, <1>2 DEF IInv, SummaryInv, Told, GatedByCompletion
<1>9. ReaderInv'
  <2>1. SUFFICES ASSUME NEW q \in Readers, Active(q)' PROVE HoldsTheEnd(q)'
    BY DEF ReaderInv
  <2>2. CASE q = r
    BY <1>1, <1>2, <1>3, <1>14, <2>2 DEF HoldsTheEnd, Ended, Told
  <2>3. CASE q # r
    <3>1. reader'[q] = reader[q] /\ Active(q) /\ HoldsTheEnd(q)
      BY <1>3, <1>4, <2>1, <2>3 DEF IInv, ReaderInv
    <3>2. reader[q].view.tasks = v.tasks
      <4>1. reader[q].view.tasks \in TasksType
        <5>1. reader[q] \in ReaderType
          BY <1>1
        <5> QED BY <5>1 DEF ReaderType, ViewType
      <4>2. \A t \in Tasks : reader[q].view.tasks[t] = v.tasks[t]
        BY <1>2, <3>1 DEF HoldsTheEnd
      <4> QED BY <1>2, <4>1, <4>2 DEF TasksType
    <3>3. file' = reader'[q].view.tasks
      BY <1>1, <3>1, <3>2
    <3> QED BY <1>1, <1>14, <3>1, <3>2, <3>3 DEF HoldsTheEnd, Ended, Told
  <2> QED BY <2>2, <2>3
<1>10. CancelInv'
  BY <1>1, <1>4 DEF IInv, CancelInv, Active, v
<1>11. EndInv' /\ CompletedIsComplete'
  <2>1. CASE Ended(file)
    BY <1>1, <1>5, <2>1 DEF IInv, EndInv, BrokeOff, Ended, CompletedIsComplete
  <2>2. CASE ~ Ended(file)
    <3>1. host.pc # "dead" => file' = file
      BY <1>1, <1>2
    <3>2. ~ (\A t \in Tasks : file[t].status = "completed")
      BY <2>2 DEF Ended, TerminalTask
    <3> QED BY <1>1, <2>2, <3>1, <3>2 DEF IInv, EndInv, BrokeOff, Ended, CompletedIsComplete
  <2> QED BY <2>1, <2>2
<1>12. Kept
  BY <1>1, <1>13 DEF Kept, TerminalTask
<1> QED BY <1>6, <1>7, <1>8, <1>9, <1>10, <1>11, <1>12 DEF IInv

LEMMA PersistRunIsSound ==
    ASSUME SwarmAssumption, IInv, NEW r \in Readers, PersistRun(r)
    PROVE  IInv' /\ Kept
<1> DEFINE v == reader[r].view
<1>1. /\ reader \in [Readers -> ReaderType] /\ reader[r].pc = "run"
      /\ reader' = [reader EXCEPT ![r] = [pc |-> After(r, v, FALSE), view |-> NoView]]
      /\ run' = v /\ silent' = FALSE /\ Answers(r, v, FALSE)
      /\ UNCHANGED <<file, host, worker, cancel>>
  BY DEF PersistRun, UpdateRun, EmitEvent, IInv, TypeInv
<1>2. /\ v \in ViewType /\ Ended(file) /\ Told(file) /\ v.status = StatusFrom(file)
      /\ v.status = "completed" => v.report # 0
      /\ file \in TasksType
  <2>1. v \in ViewType
    BY <1>1 DEF ReaderType
  <2> QED BY <1>1, <2>1 DEF IInv, TypeInv, ReaderInv, HoldsTheEnd, Active
<1>3. NoView \in ViewType
  <2>1. NewTasks \in TasksType /\ N \in Nat
    BY DEF SwarmAssumption, ValidateDag, NewTasks, TasksType, TaskType, TaskStatus
  <2> QED BY <2>1 DEF NoView, ViewType
<1> HIDE DEF v
<1>4. /\ reader' \in [Readers -> ReaderType] /\ ~ Active(r)'
      /\ \A q \in Readers \ {r} : reader'[q] = reader[q]
      /\ reader["poll"].pc = "gone" => reader'["poll"].pc = "gone"
  <2>1. After(r, v, FALSE) \in {"idle", "gone"}
    BY DEF After
  <2>2. [pc |-> After(r, v, FALSE), view |-> NoView] \in ReaderType
    BY <1>3, <2>1 DEF ReaderType
  <2>3. /\ reader' \in [Readers -> ReaderType] /\ reader'[r].pc \in {"idle", "gone"}
        /\ \A q \in Readers \ {r} : reader'[q] = reader[q]
    <3> HIDE DEF After, NoView
    <3> QED BY <1>1, <2>1, <2>2
  <2> QED BY <1>1, <2>3 DEF Active, Readers
<1>5. \A q \in Readers : Active(q)' => reader'[q] = reader[q] /\ Active(q)
  BY <1>4 DEF Active
<1>6. TypeInv' /\ QuietInv'
  BY <1>1, <1>2, <1>4 DEF IInv, TypeInv, QuietInv
<1>7. PlanInv' /\ SummaryInv'
  BY <1>1 DEF IInv, PlanInv, Untouched, Futures, SummaryInv, Told, GatedByCompletion
<1>8. SuccessInv' /\ FailureInv'
  BY <1>1 DEF IInv, SuccessInv, Futures, FailureInv
<1>9. CancelInv'
  <2>1. \A q \in Readers : Active(q)' => Active(q) /\ reader'[q].view = reader[q].view
    BY <1>5
  <2>2. UNCHANGED <<file, cancel>>
    BY <1>1
  <2> QED BY <2>1, <2>2 DEF IInv, CancelInv
<1>10. ReaderInv'
  <2>1. SUFFICES ASSUME NEW q \in Readers, Active(q)' PROVE HoldsTheEnd(q)'
    BY DEF ReaderInv
  <2>2. reader'[q] = reader[q] /\ HoldsTheEnd(q)
    BY <1>5, <2>1 DEF IInv, ReaderInv
  <2>3. UNCHANGED <<file, host>>
    BY <1>1
  <2> QED BY <2>2, <2>3 DEF HoldsTheEnd, Ended, Told
<1>11. v.status \in TerminalRun /\ (answer' = answer \/ answer'.status = v.status)
  BY <1>1, <1>2, StatusFromFacts DEF Answers
<1>12. EndInv'
  <2>1. run'.status = StatusFrom(file') /\ Ended(file') /\ run'.status \in TerminalRun
    BY <1>1, <1>2, <1>11
  <2>2. answer'.status \in TerminalRun /\ (host.pc = "done" => ~ cancel /\ ~ BrokeOff)
          => answer'.status = StatusFrom(file')
    BY <1>1, <1>2, <1>11 DEF IInv, EndInv, BrokeOff
  <2>3. BrokeOff' = BrokeOff
    BY <1>1 DEF BrokeOff
  <2> QED BY <1>1, <2>1, <2>2, <2>3 DEF EndInv
<1>13. CompletedIsComplete'
  BY <1>1, <1>2, StatusFromFacts DEF CompletedIsComplete, Told
<1> QED BY <1>1, <1>6, <1>7, <1>8, <1>9, <1>12, <1>13, <1>10 DEF IInv, Kept

-----------------------------------------------------------------------------
(* Together. *)

LEMMA StepIsSound ==
    ASSUME SwarmAssumption, IInv, [Next]_vars
    PROVE  IInv' /\ Kept
<1>1. CASE HostStep
  BY <1>1, BeginIsSound, SaveTasksIsSound, LayerBoundaryIsSound, DispatchIsSound,
     CollectedIsSound, LayerEndIsSound, FinalizeIsSound, ProcessResultIsSound DEF HostStep
<1>2. CASE \/ LayerDeadline \/ HostRaises \/ ThreadDies
           \/ \E t \in Tasks : WorkerReturns(t) \/ ResolveRaises(t)
  BY <1>2, DeadlineIsSound, HostRaisesIsSound, ThreadDiesIsSound, WorkerReturnsIsSound,
     ResolveRaisesIsSound
<1>3. CASE CancelRun \/ Crash \/ FallsSilent
  BY <1>3, CancelRunIsSound, CrashIsSound, FallsSilentIsSound
<1>4. CASE \E r \in Readers : Persists(r)
  BY <1>4, PersistTasksIsSound, PersistRunIsSound DEF Persists
<1>5. CASE \E r \in Readers, last \in BOOLEAN : Reconcile(r, last)
  BY <1>5, RecoveryIsSound, ReadingIsSound
<1>6. CASE UNCHANGED vars
  <2>1. UNCHANGED <<run, file, host, worker, cancel, silent, reader, answer>>
    BY <1>6 DEF vars
  <2>2. TypeInv' /\ QuietInv' /\ CancelInv'
    BY <2>1 DEF IInv, TypeInv, QuietInv, CancelInv, Active
  <2>3. PlanInv' /\ SummaryInv'
    BY <2>1 DEF IInv, PlanInv, Untouched, Futures, SummaryInv, Told, GatedByCompletion
  <2>4. ReaderInv' /\ SuccessInv' /\ FailureInv'
    BY <2>1 DEF IInv, ReaderInv, HoldsTheEnd, Ended, Told, Active, SuccessInv, Futures, FailureInv
  <2>5. EndInv' /\ CompletedIsComplete' /\ Kept
    BY <2>1 DEF IInv, EndInv, BrokeOff, Ended, CompletedIsComplete, Kept
  <2> QED BY <2>2, <2>3, <2>4, <2>5 DEF IInv
<1> QED BY <1>1, <1>2, <1>3, <1>4, <1>5, <1>6 DEF Next, Rest

LEMMA SwarmIsSound ==
    Spec => []IInv
<1>1. Init => IInv
  BY SwarmAssumption, InitIsSound
<1>2. IInv /\ [Next]_vars => IInv'
  BY SwarmAssumption, StepIsSound
<1> QED BY <1>1, <1>2, PTL DEF Spec

(* No worker starts without the summaries of its upstream tasks, and no run  *)
(* is published as completed, by its thread or by a reader that recovered    *)
(* it, unless every task is completed and there is a report.                 *)
THEOREM GroundedResults == Spec => []ResultsAreGrounded
<1>1. IInv => ResultsAreGrounded
  BY DEF IInv, SummaryInv, ResultsAreGrounded
<1> QED BY <1>1, SwarmIsSound, PTL

(* What execute answered is what run.json says, unless the run was cancelled *)
(* meanwhile or its thread broke off with every task completed, and a run    *)
(* that a reader ended for a dead thread leaves no task open, whatever the   *)
(* interleaving of the unlocked file writes.                                 *)
THEOREM RecoveriesAgree == Spec => []RecoveryAgrees
<1>1. IInv => RecoveryAgrees
  BY DEF IInv, EndInv, Ended, RecoveryAgrees, AnswerStands, AnswerIsFinal, RecoveredLeavesNothingOpen
<1> QED BY <1>1, SwarmIsSound, PTL

(* No cancellation, late result or recovery undoes a completed task. *)
THEOREM CompletedTasksStay == Spec => CompletedStays
<1>1. IInv /\ [Next]_vars => [\A t \in Tasks :
          file[t].status = "completed" => file'[t].status = "completed"]_vars
  BY SwarmAssumption, StepIsSound DEF Kept
<1> QED BY <1>1, SwarmIsSound, PTL DEF Spec, CompletedStays
=============================================================================

---------------------------- MODULE SwarmRuntime ----------------------------
(* One run of the agent swarm: SwarmRuntime._execute_run drives a task graph *)
(* layer by layer in a daemon thread, its workers run in a thread pool, and  *)
(* the state lives in files that two other parties read AND write: the poll  *)
(* loop of SwarmTool.execute in the same process, and the sweep a later      *)
(* start_run makes, possibly in another process.  Nothing locks the files.   *)
(*                                                                           *)
(* A write of one file is atomic (write to .tmp, rename).  A summary is      *)
(* reduced to the task it summarises, elapsed time to the flag `silent': the *)
(* last line of events.jsonl is older than the stale threshold.              *)
EXTENDS Naturals, FiniteSets, FiniteSetsExt

CONSTANTS
    N,            \* tasks, numbered in the order of the preset's YAML
    DependsOn,    \* DependsOn[t]: depends_on
    FileRank,     \* FileRank[t]: place of task-<id>.json in sorted(glob)
    MaxRetries,   \* max_retries of every agent
    Faults        \* what may go wrong: "crash", "raise", "cancel"

Tasks == 1..N

(* validate_dag: start_run creates no run whose dependencies are unknown or *)
(* go round in a circle.                                                    *)
ValidateDag ==
    /\ DependsOn \in [Tasks -> SUBSET Tasks]
    /\ \E rank \in [Tasks -> Tasks] :
          \A t \in Tasks : \A d \in DependsOn[t] : rank[d] < rank[t]

ASSUME SwarmAssumption ==
    /\ N \in Nat \ {0} /\ MaxRetries \in Nat
    /\ ValidateDag
    /\ FileRank \in [Tasks -> Tasks] /\ \A t, u \in Tasks : FileRank[t] = FileRank[u] => t = u
    /\ Faults \subseteq {"crash", "raise", "cancel"}

VARIABLES
    run,          \* run.json
    file,         \* tasks/task-*.json
    host,         \* the thread of _execute_run: its place and its locals
    worker,       \* worker[t]: the future of the task, its result once it has one
    cancel,       \* the run's cancel_event
    silent,       \* no event for longer than the stale threshold
    reader,       \* the two callers of reconcile_run(write=True)
    answer        \* what SwarmTool.execute returned

vars == <<run, file, host, worker, cancel, silent, reader, answer>>

TaskStatus == {"pending", "blocked", "in_progress", "completed", "failed", "cancelled"}
TerminalTask == {"completed", "failed", "cancelled"}
TerminalRun == {"completed", "failed", "cancelled"}
Readers == {"poll", "sweep"}

(* "other" stands for timeout, token_limit and incomplete: never retried. *)
Results == {"completed", "failed", "other"}

-----------------------------------------------------------------------------
(* The task graph. *)

(* topological_layers: Kahn's layers are the lengths of the longest paths. *)
LayerOf[t \in Tasks] ==
    IF DependsOn[t] = {} THEN 1 ELSE 1 + Max({LayerOf[d] : d \in DependsOn[t]})

Layer(i) == {t \in Tasks : LayerOf[t] = i}
LastLayer == Max({LayerOf[t] : t \in Tasks})

(* build_run_from_preset *)
NewTasks == [t \in Tasks |->
    [status |-> IF DependsOn[t] = {} THEN "pending" ELSE "blocked",
     summary |-> FALSE, blocked_by |-> DependsOn[t]]]

(* run.tasks is a list: in YAML order until a load_all replaced it, then in *)
(* the order of the file names.                                             *)
PlaceIn(order, t) == IF order = "yaml" THEN t ELSE FileRank[t]

NoView == [status |-> "pending", tasks |-> NewTasks, order |-> "yaml", report |-> 0]

Init ==
    /\ run = NoView
    /\ file = NewTasks
    /\ host = [pc |-> "start", layer |-> 1, tasks |-> NewTasks, order |-> "yaml",
               summaries |-> {}, succeeded |-> TRUE, results |-> {}]
    /\ worker = [t \in Tasks |-> [state |-> "none", attempt |-> 0]]
    /\ cancel = FALSE
    /\ silent = FALSE
    /\ reader = [r \in Readers |-> [pc |-> "idle", view |-> NoView]]
    /\ answer = [status |-> "none", report |-> 0]

-----------------------------------------------------------------------------
(* The run's thread. *)

(* update_run and append_event of the store; update_status of the task      *)
(* store, which loads one task, changes it and saves it.                    *)
UpdateRun(view) == run' = view
EmitEvent == silent' = FALSE
UpdateStatus(tasks, t, status) == [tasks EXCEPT ![t].status = status]

(* The thread's own copy of the run, as update_run writes it. *)
RunFileOf(status, report) ==
    [status |-> status, tasks |-> host'.tasks, order |-> host'.order, report |-> report]

(* Mark as running. *)
Begin ==
    /\ host.pc = "start"
    /\ host' = [host EXCEPT !.pc = "prefetch"]
    /\ UpdateRun(RunFileOf("running", 0))
    /\ EmitEvent
    /\ UNCHANGED <<file, worker, cancel, reader, answer>>

(* Prices for the symbols among the user's variables: run.json is written   *)
(* again if there are any and some were fetched; a failed fetch is logged.  *)
PrefetchGroundingData == UpdateRun(RunFileOf("running", 0)) \/ UNCHANGED run

(* After the prefetch, save_task for every task. *)
SaveTasks ==
    /\ host.pc = "prefetch"
    /\ host' = [host EXCEPT !.pc = "boundary"]
    /\ PrefetchGroundingData
    /\ file' = host.tasks
    /\ UNCHANGED <<worker, cancel, silent, reader, answer>>

(* Mutant: what has completed is cancelled with the rest. *)
CancelEverything(tasks) == [t \in Tasks |-> [tasks[t] EXCEPT !.status = "cancelled"]]

(* _cancel_remaining_tasks decides by the thread's copy of the statuses. *)
CancelRemaining(tasks) ==
    [t \in Tasks |-> IF host.tasks[t].status \in {"completed", "failed"} THEN tasks[t]
                     ELSE UpdateStatus(tasks, t, "cancelled")[t]]

(* The loop over the layers: its end, and the cancellation check. *)
LayerBoundary ==
    /\ host.pc = "boundary"
    /\ \/ /\ host.layer > LastLayer
          /\ host' = [host EXCEPT !.pc = "finalize"]
          /\ UNCHANGED <<file, silent>>
       \/ /\ host.layer <= LastLayer /\ cancel
          /\ host' = [host EXCEPT !.pc = "finalize", !.succeeded = FALSE]
          /\ file' = CancelRemaining(file)
          /\ UNCHANGED silent
       \/ /\ host.layer <= LastLayer /\ ~cancel
          /\ host' = [host EXCEPT !.pc = "dispatch"]
          /\ EmitEvent
          /\ UNCHANGED file
    /\ UNCHANGED <<run, worker, cancel, reader, answer>>

(* Mutant: only a failed upstream blocks. *)
BlockedUpstreamsFailed(t) == {d \in DependsOn[t] : file[d].status = "failed"}

BlockedUpstreams(t) == {d \in DependsOn[t] : file[d].status # "completed"}

(* _execute_layer up to its last submit: every task of the layer is blocked *)
(* or marked in_progress and given to the pool.                             *)
DispatchLayer ==
    /\ host.pc = "dispatch"
    /\ file' = [t \in Tasks |->
          IF t \notin Layer(host.layer) THEN file[t]
          ELSE IF BlockedUpstreams(t) = {} THEN UpdateStatus(file, t, "in_progress")[t]
          ELSE [file[t] EXCEPT !.status = "blocked", !.blocked_by = BlockedUpstreams(t)]]
    /\ worker' = [t \in Tasks |->
          IF t \in Layer(host.layer) /\ BlockedUpstreams(t) = {}
          THEN [state |-> "running", attempt |-> 1] ELSE worker[t]]
    /\ host' = [host EXCEPT !.pc = "collect"]
    /\ EmitEvent
    /\ UNCHANGED <<run, cancel, reader, answer>>

(* run_worker returns; _run_worker_with_retries retries a "failed" result.  *)
(* A worker whose layer is over is no longer listened to.                   *)
WorkerReturns(t) ==
    /\ host.pc = "collect" /\ worker[t].state = "running"
    /\ \E r \in Results :
         worker' = [worker EXCEPT ![t] =
            IF r = "failed" /\ @.attempt <= MaxRetries
            THEN [worker[t] EXCEPT !.attempt = @ + 1] ELSE [worker[t] EXCEPT !.state = r]]
    /\ EmitEvent
    /\ UNCHANGED <<run, file, host, cancel, reader, answer>>

Futures == {t \in Layer(host.layer) : worker[t].state # "none"}

(* Every future is done. *)
Collected ==
    /\ host.pc = "collect"
    /\ \A t \in Futures : worker[t].state # "running"
    /\ host' = [host EXCEPT !.pc = "process", !.results = Futures]
    /\ UNCHANGED <<run, file, worker, cancel, silent, reader, answer>>

(* The layer's deadline: whatever still runs counts as a timeout. *)
LayerDeadline ==
    /\ host.pc = "collect"
    /\ \E t \in Futures : worker[t].state = "running"
    /\ worker' = [t \in Tasks |-> IF t \in Futures /\ worker[t].state = "running"
                                  THEN [worker[t] EXCEPT !.state = "other"] ELSE worker[t]]
    /\ host' = [host EXCEPT !.pc = "process", !.results = Futures]
    /\ UNCHANGED <<run, file, cancel, silent, reader, answer>>

(* resolve_dependencies, as far as it gets: it reads and writes the files   *)
(* one by one.                                                              *)
ResolveDependencies(tasks, done, reached) ==
    [t \in Tasks |->
       IF t \notin reached \/ done \notin tasks[t].blocked_by THEN tasks[t]
       ELSE LET left == tasks[t].blocked_by \ {done} IN
            [tasks[t] EXCEPT !.blocked_by = left,
               !.status = IF left = {} /\ @ = "blocked" THEN "pending" ELSE @]]

Completed(t) == [UpdateStatus(file, t, "completed") EXCEPT ![t].summary = TRUE]

(* The loop over layer_results, one task a step. *)
ProcessResult(t) ==
    /\ host.pc = "process" /\ t \in host.results
    /\ IF worker[t].state = "completed"
       THEN /\ file' = ResolveDependencies(Completed(t), t, Tasks)
            /\ host' = [host EXCEPT !.results = @ \ {t}, !.summaries = @ \cup {t}]
       ELSE /\ file' = UpdateStatus(file, t, "failed")
            /\ host' = [host EXCEPT !.results = @ \ {t}, !.succeeded = FALSE]
    /\ EmitEvent
    /\ UNCHANGED <<run, worker, cancel, reader, answer>>

(* Tasks with no result were blocked; _sync_run_tasks_snapshot reads the    *)
(* files back and writes run.json with the thread's status, "running".      *)
LayerEnd ==
    /\ host.pc = "process" /\ host.results = {}
    /\ host' = [host EXCEPT !.pc = "boundary", !.layer = @ + 1,
                  !.tasks = file, !.order = "file",
                  !.succeeded = @ /\ Futures = Layer(host.layer)]
    /\ UpdateRun(RunFileOf("running", 0))
    /\ UNCHANGED <<file, worker, cancel, silent, reader, answer>>

(* resolve_dependencies raises, with the task already on file as completed. *)
ResolveRaises(t) ==
    /\ "raise" \in Faults
    /\ host.pc = "process" /\ t \in host.results /\ worker[t].state = "completed"
    /\ \E reached \in SUBSET Tasks : file' = ResolveDependencies(Completed(t), t, reached)
    /\ host' = [host EXCEPT !.pc = "finalize", !.succeeded = FALSE, !.summaries = @ \cup {t}]
    /\ EmitEvent
    /\ UNCHANGED <<run, worker, cancel, reader, answer>>

(* Any other exception inside the try: the rest of the graph is not run. *)
HostRaises ==
    /\ "raise" \in Faults
    /\ \/ host.pc \in {"dispatch", "collect"}
       \/ host.pc = "process" /\ host.results # {}
    /\ host' = [host EXCEPT !.pc = "finalize", !.succeeded = FALSE]
    /\ EmitEvent
    /\ UNCHANGED <<run, file, worker, cancel, reader, answer>>

FinalStatus == IF cancel THEN "cancelled" ELSE IF host.succeeded THEN "completed" ELSE "failed"

(* The first task of the last layer with a summary; the order inside the    *)
(* last layer is left open.                                                 *)
FinalReports ==
    LET told == Layer(LastLayer) \cap host.summaries IN IF told = {} THEN {0} ELSE told

Finalize ==
    /\ host.pc = "finalize"
    /\ host' = [host EXCEPT !.pc = "done", !.tasks = file, !.order = "file"]
    /\ \E report \in FinalReports : UpdateRun(RunFileOf(FinalStatus, report))
    /\ EmitEvent
    /\ UNCHANGED <<file, worker, cancel, reader, answer>>

(* cancel_run, while the run is registered. *)
CancelRun ==
    /\ "cancel" \in Faults /\ ~cancel
    /\ host.pc \notin {"done", "dead"}
    /\ cancel' = TRUE
    /\ UNCHANGED <<run, file, host, worker, silent, reader, answer>>

(* An exception outside the try: the thread ends and leaves the run as it   *)
(* is; the process, with the poll loop, goes on.                            *)
ThreadDies ==
    /\ "raise" \in Faults /\ host.pc \in {"start", "prefetch", "finalize"}
    /\ host' = [host EXCEPT !.pc = "dead"]
    /\ UNCHANGED <<run, file, worker, cancel, silent, reader, answer>>

(* The process ends: with it the run's thread, the workers and the poller.  *)
Crash ==
    /\ "crash" \in Faults /\ host.pc # "done"
    /\ host.pc = "dead" => reader["poll"].pc # "gone"
    /\ host' = [host EXCEPT !.pc = "dead"]
    /\ reader' = [reader EXCEPT !["poll"].pc = "gone"]
    /\ UNCHANGED <<run, file, worker, cancel, silent, answer>>

(* Time passes with no event, once the host is dead: while it lives, the    *)
(* HeartbeatTimer around every fetch, LLM call and tool call writes one.    *)
FallsSilent ==
    /\ ~silent /\ run.status = "running" /\ host.pc = "dead"
    /\ silent' = TRUE
    /\ UNCHANGED <<run, file, host, worker, cancel, reader, answer>>

-----------------------------------------------------------------------------
(* SwarmStore.reconcile_run(write=True). *)

(* hydrate_run: the order of run.json, the contents of the task files. *)
Hydrated == [run EXCEPT !.tasks = file]

AllTerminal(view) == \A t \in Tasks : view.tasks[t].status \in TerminalTask

(* Mutant: a run with no task in progress is not taken for abandoned. *)
IsRunStaleBusy(view) ==
    /\ view.status = "running" /\ silent
    /\ \E t \in Tasks : view.tasks[t].status = "in_progress"

IsRunStale(view) == view.status = "running" /\ silent

(* Mutant: tasks that ended badly make the run cancelled. *)
StatusFromLenient(tasks) ==
    IF \A t \in Tasks : tasks[t].status = "completed" THEN "completed" ELSE "cancelled"

StatusFrom(tasks) ==
    LET statuses == {tasks[t].status : t \in Tasks} IN
    IF statuses \subseteq {"completed"} THEN "completed"
    ELSE IF "failed" \in statuses THEN "failed"
    ELSE IF statuses \subseteq {"cancelled", "completed"} THEN "cancelled" ELSE "failed"

(* The summary of the last task in the list that has one. *)
LastSummary(view) ==
    LET told == {t \in Tasks : view.tasks[t].summary} IN
    IF told = {} THEN 0
    ELSE CHOOSE t \in told : \A u \in told : PlaceIn(view.order, u) <= PlaceIn(view.order, t)

RecoverTerminal(view) ==
    [view EXCEPT !.status = StatusFrom(view.tasks),
       !.report = IF StatusFrom(view.tasks) = "completed" /\ @ = 0 THEN LastSummary(view) ELSE @]

ReapStale(view) ==
    RecoverTerminal([view EXCEPT !.tasks = [t \in Tasks |->
        IF view.tasks[t].status \in TerminalTask THEN view.tasks[t]
        ELSE [view.tasks[t] EXCEPT !.status = "failed"]]])

Reconciled ==
    IF Hydrated.status \in TerminalRun THEN Hydrated
    ELSE IF AllTerminal(Hydrated) THEN RecoverTerminal(Hydrated)
    ELSE IF IsRunStale(Hydrated) THEN ReapStale(Hydrated)
    ELSE Hydrated

Recovers == Hydrated.status \notin TerminalRun /\ Reconciled.status \in TerminalRun

(* What execute does with the reconciled run: return it if it is terminal,  *)
(* poll on otherwise, unless its waiting time is over.                      *)
Answers(r, view, last) ==
    answer' = IF r = "poll" /\ (view.status \in TerminalRun \/ last)
              THEN [status |-> view.status, report |-> view.report] ELSE answer

After(r, view, last) ==
    IF r = "poll" /\ (view.status \in TerminalRun \/ last) THEN "gone" ELSE "idle"

(* load_run and the reconciliation in memory.  The sweep of start_run skips *)
(* runs that are not "running".                                             *)
Reconcile(r, last) ==
    /\ reader[r].pc = "idle"
    /\ r = "sweep" => run.status = "running" /\ ~last
    /\ IF Recovers
       THEN /\ reader' = [reader EXCEPT ![r] = [pc |-> "tasks", view |-> Reconciled]]
            /\ UNCHANGED answer
       ELSE /\ reader' = [reader EXCEPT ![r].pc = After(r, Reconciled, last)]
            /\ Answers(r, Reconciled, last)
    /\ UNCHANGED <<run, file, host, worker, cancel, silent>>

(* _persist_recovery: save_task for every task, *)
PersistTasks(r) ==
    /\ reader[r].pc = "tasks"
    /\ file' = reader[r].view.tasks
    /\ reader' = [reader EXCEPT ![r].pc = "run"]
    /\ UNCHANGED <<run, host, worker, cancel, silent, answer>>

(* then update_run and the recovery event. *)
PersistRun(r) ==
    /\ reader[r].pc = "run"
    /\ UpdateRun(reader[r].view)
    /\ EmitEvent
    /\ reader' = [reader EXCEPT ![r] = [pc |-> After(r, @.view, FALSE), view |-> NoView]]
    /\ Answers(r, reader[r].view, FALSE)
    /\ UNCHANGED <<file, host, worker, cancel>>

-----------------------------------------------------------------------------
HostStep ==
    \/ Begin \/ SaveTasks \/ LayerBoundary \/ DispatchLayer \/ Collected \/ LayerEnd
    \/ Finalize
    \/ \E t \in Tasks : ProcessResult(t)

Persists(r) == PersistTasks(r) \/ PersistRun(r)

(* Nothing is left to do: the program has answered and no start_run need    *)
(* ever come, or the sweep has nothing to sweep.                            *)
Rest ==
    /\ host.pc \in {"done", "dead"} /\ reader["poll"].pc = "gone"
    /\ reader["sweep"].pc = "idle" /\ run.status # "running"
    /\ UNCHANGED vars

Next ==
    \/ HostStep
    \/ LayerDeadline \/ HostRaises \/ ThreadDies
    \/ \E t \in Tasks : WorkerReturns(t) \/ ResolveRaises(t)
    \/ CancelRun \/ Crash \/ FallsSilent
    \/ \E r \in Readers : Persists(r)
    \/ \E r \in Readers, last \in BOOLEAN : Reconcile(r, last)
    \/ Rest

(* The thread runs on, a worker returns or the layer's deadline comes; time *)
(* passes; the poll loop reads again, and someone starts another run.       *)
Spec ==
    /\ Init /\ [][Next]_vars
    /\ WF_vars(HostStep) /\ WF_vars(LayerDeadline) /\ WF_vars(FallsSilent)
    /\ \A r \in Readers : WF_vars(Persists(r)) /\ WF_vars(Reconcile(r, FALSE))

-----------------------------------------------------------------------------
(* A worker is only started on a task whose upstream summaries all exist: it *)
(* never runs without the context _execute_layer's gate is there to ensure. *)
GatedByCompletion ==
    \A t \in Tasks : worker[t].state # "none" => DependsOn[t] \subseteq host.summaries

(* A run published as completed, by the run's thread or by a reader that     *)
(* recovered it, has every task completed and a report.                      *)
CompletedIsComplete ==
    run.status = "completed" =>
        /\ \A t \in Tasks : file[t].status = "completed" /\ file[t].summary
        /\ run.report # 0

(* The two parties that derive a final status agree: what execute told the   *)
(* agent is what run.json says whenever it says that the run has ended,      *)
(* unless somebody cancelled the run meanwhile.  reconcile_run calls itself  *)
(* the single source of truth, but the thread does not derive the status     *)
(* from the tasks: it says "failed" if it broke off after the last of them   *)
(* was on file as completed.                                                 *)
AnswerIsFinal ==
    answer.status \in TerminalRun /\ run.status \in TerminalRun /\ ~cancel
        => run.status = answer.status

(* The thread broke off although every task is completed. *)
BrokeOff == ~host.succeeded /\ \A t \in Tasks : file[t].status = "completed"

(* What is left of it: apart from that case the two agree. *)
AnswerStands == BrokeOff \/ AnswerIsFinal

(* A run that has started ends for good, even if its process dies anywhere:  *)
(* terminal recovery and the reaper finish what the thread left.             *)
RunsEnd == run.status = "running" ~> [](run.status \in TerminalRun)

(* A run whose thread died and that a reader ended leaves no task that       *)
(* looks runnable or running: tasks and run are written by separate steps.   *)
RecoveredLeavesNothingOpen ==
    host.pc = "dead" /\ run.status \in TerminalRun =>
        \A t \in Tasks : file[t].status \in TerminalTask

(* What a run builds on and publishes is complete: no worker starts without  *)
(* its upstream summaries and no run is completed with a task that is not    *)
(* (runtime.py, _execute_layer and _execute_run; store.py, reconcile_run).   *)
ResultsAreGrounded == GatedByCompletion /\ CompletedIsComplete

(* Recovery by a reader leaves the same end the run's own thread would, in   *)
(* the answer, in run.json and in the task files, unless the thread broke    *)
(* off with every task completed (store.py, reconcile_run).                  *)
RecoveryAgrees == AnswerStands /\ RecoveredLeavesNothingOpen

(* A task that completed stays completed: neither a cancellation nor a       *)
(* reader that writes back what it read earlier undoes it.                   *)
CompletedStays ==
    [][\A t \in Tasks : file[t].status = "completed" => file'[t].status = "completed"]_vars
=============================================================================

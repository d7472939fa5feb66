---------------------------- MODULE LiveRuntime ----------------------------
(***************************************************************************)
(* The autonomous runner of one broker: the scheduler that wakes it, the   *)
(* tick (kill switch, mandate, reconciliation, agent turn), the sweep that *)
(* follows a trip of the kill switch, the heartbeat and the job store.     *)
(*                                                                         *)
(* Orders are seen through GateContract, which LiveGate implements: the    *)
(* runner's own turn and the chat sessions place them through the gate,    *)
(* and somebody may trade at the broker behind the gate's back.  One       *)
(* symbol, every order for one unit.  A tick is cut at each read of the    *)
(* broker and at each order it sends.                                      *)
(***************************************************************************)
EXTENDS GateContract, Integers, FiniteSets

CONSTANTS
  Own, Chat, Foreign,  \* Calls: of the runner's turns, of chat sessions, behind the gate
  Sells,               \* the calls that sell; the others buy
  Unconfirmed,         \* resting orders the broker lists as pending or submitted
  FlattenOnHalt,       \* the mandate's flatten_on_halt
  Jobs, OneShot,       \* job ids, and those whose schedule is "once"
  Triggers,            \* the jobs the runner's triggers stand for
  Faults,              \* what may fail: a subset of FaultKinds
  MaxCrashes           \* bound on the runner's crashes

FaultKinds == {"read", "submit", "audit", "store", "halt"}

ASSUME RuntimeAssumption ==
  /\ Calls = Own \cup Chat \cup Foreign /\ Sells \cup Unconfirmed \subseteq Calls
  /\ Own \cap Chat = {} /\ (Own \cup Chat) \cap Foreign = {} /\ IsFiniteSet(Calls)
  /\ Triggers \cup OneShot \subseteq Jobs /\ Triggers \cap OneShot = {}
  /\ FlattenOnHalt \in BOOLEAN /\ Faults \subseteq FaultKinds /\ MaxCrashes \in Nat
  /\ "broker" \in Sentinels

VARIABLES
  qty,      \* broker: the signed position
  closing,  \* broker: the signed size of the closing orders still working
  base,     \* runtime_state.json: the last reconciled open orders and position
  pc,       \* where the tick is; "idle" between ticks
  job,      \* the job whose firing is under way
  seen,     \* the open orders a reconciliation or a sweep has read
  size,     \* the position it has read
  fired,    \* _flatten_fired
  running,  \* the scheduler's loop task is alive
  jobs,     \* the scheduler's job set
  due,      \* jobs whose next_run_at has passed
  queue,    \* due jobs of the pass under way
  store,    \* jobs.json: [state |-> "missing", "corrupt" or "saved", jobs |-> ...]
  beat,     \* the heartbeat: "fresh", or "dead" when stale or missing
  crashes,
  adrift,   \* order calls of the runner's earlier lives that were under way when it died
  late,     \* orders that came to rest after the sweep had read the book
  since,    \* orders filled since the position in base was read
  recent,   \* orders filled between the reading of the position and its diff
  failed,   \* something the sweep relied on failed, or two sweeps met
  heeded    \* a sweep has begun since the switch was last tripped

broker  == <<order, qty, closing>>
tickVars == <<pc, job, seen, size, fired>>
lives   == <<crashes, adrift>>
schedVars == <<running, jobs, due, queue, store, beat, lives>>
ghosts  == <<late, since, recent, failed, heeded>>
runtimeVars == <<authority, halted, broker, base, tickVars, schedVars, ghosts>>

NoBase == [known |-> FALSE, orders |-> {}, qty |-> 0]
NoJob  == "none"
Fails(kind) == kind \in Faults

\* trip_halt, by the runner itself when the mandate has expired.
TripBroker == halted' = halted \cup {"broker"} /\ heeded' = (heeded /\ halted # {})

Resting == {k \in Calls : order[k] = "resting"}
Filled  == {k \in Calls : order[k] = "filled"}
Unit(k) == IF k \in Sells THEN -1 ELSE 1
Net(K)  == Cardinality(K \ Sells) - Cardinality(K \cap Sells)

-----------------------------------------------------------------------------
(* The scheduler.  Time is the moment a job becomes due. *)

\* Scheduler._run: the loop wakes when a job's next_run_at has passed.
Elapse(j) ==
  /\ running /\ j \in jobs \ due /\ due' = due \cup {j}
  /\ UNCHANGED <<authority, halted, broker, base, tickVars, running, jobs, queue, store, beat,
                 lives, ghosts>>

\* due_jobs: what is due now, read once for the pass.
DueJobs == due

\* _fire_due: the jobs due now are taken as a list; the set may change while they fire.
FireDue ==
  /\ running /\ pc = "idle" /\ queue = {} /\ DueJobs # {} /\ queue' = DueJobs
  /\ UNCHANGED <<authority, halted, broker, base, tickVars, running, jobs, due, store, beat,
                 lives, ghosts>>

\* advance_after_fire: a recurring job waits again, a one-shot job is popped by its id.
\* An exception out of the tick ends here as well.
AdvanceAfterFire ==
  /\ pc \in {"end", "unsafe", "untripped"} /\ pc' = "idle" /\ job' = NoJob
  /\ queue' = queue \ {job} /\ due' = due \ {job}
  /\ jobs' = IF job \in OneShot THEN jobs \ {job} ELSE jobs
  /\ seen' = {} /\ size' = 0
  /\ UNCHANGED <<authority, halted, broker, base, fired, running, store, beat, lives, ghosts>>

\* Scheduler.remove_job: out of the set at once; a pass under way still fires it.
RemoveJob(j) ==
  /\ running /\ j \in jobs /\ jobs' = jobs \ {j} /\ due' = due \ {j}
  /\ UNCHANGED <<authority, halted, broker, base, tickVars, running, queue, store, beat,
                 lives, ghosts>>

-----------------------------------------------------------------------------
(* LiveRunner.run_loop: resume by recomputing. *)

\* The expiry of the mandate on file has passed.
MandateExpired == authority = "expired"

\* JobStore.load: what was saved; a store that does not parse is renamed aside ...
StoredJobs == IF store.state = "saved" THEN store.jobs ELSE {}
SetAside == IF store.state = "corrupt" THEN [state |-> "missing", jobs |-> {}] ELSE store

\* ... and JobStore.save replaces it, or leaves it missing when the write fails.
SaveJobs(js) ==
  \/ store' = [state |-> "saved", jobs |-> js]
  \/ Fails("store") /\ store' = [state |-> "missing", jobs |-> {}]

\* _resolve_jobs: jobs handed in win; else the stored ones, whose next_run_at is as old as
\* the store; else new ones from the triggers, which are saved.
ResolveJobs(given) ==
  /\ jobs' = jobs \cup (IF given # {} THEN given ELSE IF StoredJobs # {} THEN StoredJobs ELSE Triggers)
  /\ \/ given # {} /\ due' = due \ given /\ UNCHANGED store
     \/ given = {} /\ StoredJobs # {} /\ due' = due \cup StoredJobs /\ UNCHANGED store
     \/ given = {} /\ StoredJobs = {} /\ due' = due \ Triggers
        /\ IF Triggers = {} THEN store' = SetAside ELSE SaveJobs(Triggers)

\* run_loop: without a mandate nothing starts; an expired one trips the broker's switch,
\* and a trip that fails is swallowed.  It is called once in a runner's life.
RunLoop(given) ==
  /\ ~running
  /\ \/ authority = "none" /\ UNCHANGED <<halted, heeded, running, jobs, due, store>>
     \/ MandateExpired /\ TripBroker /\ UNCHANGED <<running, jobs, due, store>>
     \/ /\ MandateExpired /\ Fails("halt")
        /\ UNCHANGED <<halted, heeded, running, jobs, due, store>>
     \/ /\ authority = "live" /\ running' = TRUE /\ ResolveJobs(given)
        /\ UNCHANGED <<halted, heeded>>
  /\ UNCHANGED <<authority, broker, base, tickVars, queue, beat, lives, late, since, recent, failed>>

-----------------------------------------------------------------------------
(* LiveRunner.run_once *)

\* Mutant: a halted tick only refuses.
AfterHaltCheckCooperative == IF halted = {} THEN "mandate" ELSE "end"

\* run_once: the kill switch, and the latch of the sweep.
AfterHaltCheck == IF halted = {} THEN "mandate" ELSE IF fired THEN "end" ELSE "sweep"

\* _write_heartbeat: a failed write is swallowed.
Beats == beat' = "fresh" \/ (Fails("store") /\ UNCHANGED beat)

\* The heartbeat (whose failure is swallowed) and the kill switch.  A halted tick sweeps
\* once in the runner's lifetime.
BeginTick(j) ==
  /\ running /\ pc = "idle" /\ j \in queue /\ job' = j
  /\ Beats /\ pc' = AfterHaltCheck
  /\ UNCHANGED <<authority, halted, broker, base, seen, size, fired, running, jobs, due, queue,
                 store, lives, ghosts>>

\* The mandate: none ends the tick, an expired one trips the broker's switch and ends it,
\* tripped or not: the failure of the trip is swallowed.
LoadMandate ==
  /\ pc = "mandate"
  /\ \/ authority = "live" /\ pc' = "orders" /\ UNCHANGED <<halted, heeded>>
     \/ authority = "none" /\ pc' = "end" /\ UNCHANGED <<halted, heeded>>
     \/ MandateExpired /\ pc' = "end" /\ TripBroker
     \/ MandateExpired /\ Fails("halt") /\ pc' = "untripped" /\ UNCHANGED <<halted, heeded>>
  /\ UNCHANGED <<authority, broker, base, job, seen, size, fired, schedVars, late, since, recent, failed>>

\* _load_state: the baseline, or a cold start; a file that cannot be read or parsed is
\* renamed aside, and makes a cold start too.
LoadState == base' = base \/ (Fails("store") /\ base' = NoBase)

\* reconcile loads the baseline and reads the open orders, then the positions, then the
\* balance; an exception of any of the reads ends the tick.
ReadOrders ==
  /\ pc = "orders" /\ LoadState
  /\ \/ pc' = "positions" /\ seen' = Resting
     \/ Fails("read") /\ pc' = "end" /\ UNCHANGED seen
  /\ UNCHANGED <<authority, halted, broker, job, size, fired, schedVars, ghosts>>

ReadPositions ==
  /\ pc = "positions"
  /\ \/ pc' = "diff" /\ size' = qty
     \/ Fails("read") /\ pc' = "end" /\ UNCHANGED size
  /\ UNCHANGED <<authority, halted, broker, base, job, seen, fired, schedVars, ghosts>>

\* Mutant: only a position that has grown is suspicious.
UnknownFillGrown == base.known /\ size # 0 /\ size > base.qty

\* _diff_positions: the broker shows a position other than the recorded one.  A position
\* that is gone is not in the broker's list and raises nothing.
UnknownFill == base.known /\ size # 0 /\ size # base.qty

\* A status the broker has confirmed.
IsConfirmed(k) == k \notin Unconfirmed

\* _diff_orders: a recorded order without a confirmed status is no longer open; a
\* confirmed one is an orphan, which is harmless.
MidOrderAmbiguous == base.known /\ \E k \in base.orders : ~IsConfirmed(k) /\ k \notin seen

\* _report_is_unsafe: either delta, of the kinds the runner does not trade over.
ReportIsUnsafe == UnknownFill \/ MidOrderAmbiguous

\* _persist_state: what was read becomes the baseline.
Baseline == [known |-> TRUE, orders |-> seen, qty |-> size]

\* The report: unsafe ends the tick and keeps the old baseline; safe makes what was read
\* the new one and lets the turn begin.  A baseline that cannot be written ends the tick.
Reconcile ==
  /\ pc = "diff"
  /\ \/ ReportIsUnsafe /\ pc' = "unsafe" /\ UNCHANGED <<base, since>>
     \/ ~ReportIsUnsafe /\ pc' = "turn" /\ base' = Baseline /\ since' = recent
     \/ ~ReportIsUnsafe /\ Fails("store") /\ pc' = "end" /\ UNCHANGED <<base, since>>
  /\ recent' = {}
  /\ UNCHANGED <<authority, halted, broker, job, seen, size, fired, schedVars, late, failed, heeded>>

\* _invoke_and_audit: the turn ends, well or with an exception, when its order calls have.
\* Nothing bounds the time the agent takes.
EndTurn ==
  /\ pc = "turn" /\ pc' = "end" /\ \A k \in Own \ adrift : order[k] # "admitted"
  /\ UNCHANGED <<authority, halted, broker, base, job, seen, size, fired, schedVars, ghosts>>

-----------------------------------------------------------------------------
(* flatten_and_cancel *)

\* The latch is set first; then the book is read.  A failed read skips the cancels only.
SweepRead ==
  /\ pc = "sweep" /\ pc' = "cancel" /\ fired' = TRUE /\ late' = {} /\ heeded' = TRUE
  /\ \/ seen' = Resting /\ UNCHANGED failed
     \/ Fails("read") /\ seen' = {} /\ failed' = TRUE
  /\ UNCHANGED <<authority, halted, broker, base, job, size, schedVars, since, recent>>

\* Mutant: orders without a confirmed status are passed over.
CancelOneConfirmed(k) ==
  /\ pc = "cancel" /\ k \in seen /\ seen' = seen \ {k}
  /\ order' = [order EXCEPT ![k] = IF @ = "resting" /\ k \notin Unconfirmed THEN "over" ELSE @]
  /\ UNCHANGED <<authority, halted, qty, closing, base, pc, job, size, fired, schedVars, ghosts>>

\* One cancel.  Any answer that is not an exception counts as a success, so the order may
\* stay; a ledger that cannot be written ends the sweep.
CancelOne(k) ==
  /\ pc = "cancel" /\ k \in seen /\ seen' = seen \ {k}
  /\ \/ /\ order' = [order EXCEPT ![k] = IF @ = "resting" THEN "over" ELSE @]
        /\ pc' = pc /\ UNCHANGED failed
     \/ Fails("submit") /\ failed' = TRUE /\ pc' = pc /\ UNCHANGED order
     \/ /\ Fails("audit") /\ failed' = TRUE /\ pc' = "end"
        /\ order' = [order EXCEPT ![k] = IF @ = "resting" THEN "over" ELSE @]
  /\ UNCHANGED <<authority, halted, qty, closing, base, job, size, fired, schedVars, late, since, recent, heeded>>

\* _resolve_allow_flatten: the mandate's flag; without a mandate nothing is closed.
AllowFlatten == authority # "none" /\ FlattenOnHalt

\* The position to close.
FlattenRead ==
  /\ pc = "cancel" /\ seen = {}
  /\ \/ /\ AllowFlatten
        /\ \/ size' = qty /\ pc' = (IF qty = 0 THEN "end" ELSE "close") /\ UNCHANGED failed
           \/ Fails("read") /\ size' = 0 /\ pc' = "end" /\ failed' = TRUE
     \/ ~AllowFlatten /\ pc' = "end" /\ UNCHANGED <<size, failed>>
  /\ UNCHANGED <<authority, halted, broker, base, job, seen, fired, schedVars, late, since, recent, heeded>>

\* _flatten_open_positions: one market order for the whole position, never sent again.
CloseOne ==
  /\ pc = "close" /\ pc' = "end"
  /\ \/ closing' = closing - size /\ UNCHANGED failed
     \/ Fails("submit") /\ failed' = TRUE /\ UNCHANGED closing
  /\ UNCHANGED <<authority, halted, order, qty, base, job, seen, size, fired, schedVars, late, since, recent, heeded>>

-----------------------------------------------------------------------------
(* The surroundings *)

\* Orders through the gate: the runner's during its turn, a chat session's at any time.
AdmitOrder(k) ==
  /\ Admit(k) /\ k \notin Foreign /\ (k \in Own => pc = "turn")
  /\ UNCHANGED <<qty, closing, base, tickVars, schedVars, ghosts>>

LandOrder(k) ==
  /\ Land(k) /\ late' = IF fired THEN late \cup {k} ELSE late
  /\ UNCHANGED <<qty, closing, base, tickVars, schedVars, since, recent, failed, heeded>>

\* External: an order of somebody who does not use the gate.
ForeignOrder(k) ==
  /\ k \in Foreign /\ order[k] = "new" /\ order' = [order EXCEPT ![k] = "resting"]
  /\ late' = IF fired THEN late \cup {k} ELSE late
  /\ UNCHANGED <<authority, halted, qty, closing, base, tickVars, schedVars, since, recent, failed,
                 heeded>>

\* External: the broker fills an order of the book, or the closing order.
Fill(k) ==
  /\ FillOrder(k) /\ qty' = qty + Unit(k)
  /\ since' = IF base.known THEN since \cup {k} ELSE since
  /\ recent' = IF pc = "diff" THEN recent \cup {k} ELSE recent
  /\ UNCHANGED <<closing, base, tickVars, schedVars, late, failed, heeded>>

FillClose ==
  /\ closing # 0 /\ qty' = qty + closing /\ closing' = 0
  /\ UNCHANGED <<authority, halted, order, base, tickVars, schedVars, ghosts>>

\* A call ends without an order.
DropOrder(k) ==
  /\ Drop({k}) /\ order[k] = "admitted"
  /\ UNCHANGED <<qty, closing, base, tickVars, schedVars, ghosts>>

\* The user, the front end and the calendar: mandate and kill switch change at any time.
Outside ==
  /\ \/ authority # "live" /\ Authorise /\ UNCHANGED heeded
     \/ Expire /\ UNCHANGED heeded
     \/ \E s \in Sentinels \ halted : Trip(s) /\ heeded' = (heeded /\ halted # {})
     \/ \E s \in halted : Clear(s) /\ UNCHANGED heeded
  /\ UNCHANGED <<qty, closing, base, tickVars, schedVars, late, since, recent, failed>>

\* is_runner_alive and reap_stale: 90 seconds without a tick make the heartbeat stale; it is
\* taken for dead from then on, whether its file has been reaped or not.
Age ==
  /\ beat = "fresh" /\ beat' = "dead"
  /\ UNCHANGED <<authority, halted, broker, base, tickVars, running, jobs, due, queue, store,
                 lives, ghosts>>

\* The runner's process dies: memory is lost, files and the broker's book stay.  The latch
\* is memory, so a second life may sweep what the first has swept.  Order calls of its turn
\* that were under way are adrift: the broker may still take them, or never has.
Crash ==
  /\ running /\ crashes < MaxCrashes /\ crashes' = crashes + 1
  /\ running' = FALSE /\ jobs' = {} /\ due' = {} /\ queue' = {}
  /\ pc' = "idle" /\ job' = NoJob /\ seen' = {} /\ size' = 0 /\ fired' = FALSE
  /\ adrift' = adrift \cup {k \in Own : order[k] = "admitted"}
  /\ failed' = (failed \/ fired) /\ recent' = {}
  /\ \/ UNCHANGED store
     \/ Fails("store") /\ store' = [state |-> "corrupt", jobs |-> {}]
  /\ UNCHANGED <<authority, halted, broker, base, beat, late, since, heeded>>

RuntimeInit ==
  /\ ContractInit
  /\ qty = 0 /\ closing = 0 /\ base = NoBase
  /\ pc = "idle" /\ job = NoJob /\ seen = {} /\ size = 0 /\ fired = FALSE
  /\ running = FALSE /\ jobs = {} /\ due = {} /\ queue = {}
  /\ store = [state |-> "missing", jobs |-> {}] /\ beat = "dead"
  /\ crashes = 0 /\ adrift = {}
  /\ late = {} /\ since = {} /\ recent = {} /\ failed = FALSE /\ heeded = FALSE

TickStep ==
  \/ FireDue \/ \E j \in Jobs : BeginTick(j)
  \/ LoadMandate \/ ReadOrders \/ ReadPositions \/ Reconcile
  \/ SweepRead \/ (\E k \in Calls : CancelOne(k)) \/ FlattenRead \/ CloseOne
  \/ AdvanceAfterFire

RuntimeNext ==
  \/ TickStep \/ EndTurn
  \/ \E j \in Jobs : Elapse(j) \/ RemoveJob(j)
  \/ \E given \in {{}, OneShot} : RunLoop(given)
  \/ \E k \in Calls : AdmitOrder(k) \/ LandOrder(k) \/ ForeignOrder(k) \/ Fill(k) \/ DropOrder(k)
  \/ FillClose \/ Outside \/ Age \/ Crash

RuntimeSpec == RuntimeInit /\ [][RuntimeNext]_runtimeVars

\* The event loop runs what is due and time passes.  The agent's turn is awaited without a
\* timeout, so nothing obliges it to end.
Fairness ==
  /\ WF_runtimeVars(TickStep)
  /\ \A j \in Jobs : WF_runtimeVars(Elapse(j))

FairSpec == RuntimeSpec /\ Fairness

-----------------------------------------------------------------------------
(* Properties *)

SweepSteps == {"sweep", "cancel", "close"}

\* reconcile before every turn: the runner opens no turn over fills that moved the position
\* since its baseline, whoever placed them.  Exempt are a tick without a baseline (a cold
\* start, also after the file was lost), a position that is gone from the broker's list,
\* and everything after the first sweep of the runner's life, whose closing order fills
\* without being recorded.
NoTurnOverUnrecordedFill ==
  [][(pc = "diff" /\ pc' = "turn" /\ base.known /\ ~fired /\ ~failed)
       => (Net(since \ recent) = 0 \/ size = 0)]_runtimeVars

\* The sweep cancels the book: once a sweep without a failed call is over, only orders that
\* came to rest after it had read the book still rest.
SweepClearsBook ==
  (fired /\ pc \notin SweepSteps /\ ~failed) => Resting \subseteq late

\* Cancels before closes: with flatten_on_halt, a sweep without failures and without late
\* orders leaves nothing held once its closing order has filled - it neither misses a fill
\* that overtook a cancel nor closes more than there is.
SweepFlattens ==
  (/\ fired /\ pc \notin SweepSteps /\ ~failed /\ FlattenOnHalt
   /\ late \cap Filled = {} /\ closing = 0) => qty = 0

\* Nothing is sent twice by a sweep: there is never more closing volume at work than was
\* held, as long as no order lands late and the latch has not been lost with the process.
NeverOverClosed ==
  (~failed /\ late = {} /\ closing # 0) => closing = -qty

\* A sweep that met no failure is thorough and does nothing twice (flatten.py,
\* flatten_and_cancel; runner.py, _run_preemptive_sweep).
SweepIsThorough == SweepClearsBook /\ SweepFlattens /\ NeverOverClosed

\* A trip is followed by a sweep of the book, as long as the runner has jobs, unless it is
\* withdrawn first: "on trip the runner cancels every resting/open order" (flatten.py).  The
\* latch _flatten_fired lets a life sweep once, so a second trip after a cleared one is not.
TripIsSwept ==
  (halted # {} /\ running /\ jobs # {}) ~> (heeded \/ halted = {} \/ ~running \/ jobs = {})

\* What the latch leaves of it: the first trip a runner's life meets is followed by a sweep
\* (runner.py, _run_preemptive_sweep).
FirstTripIsSwept ==
  (halted # {} /\ ~fired /\ running /\ jobs # {})
    ~> (fired \/ halted = {} \/ ~running \/ jobs = {})

\* Proactive expiry: a running scheduler with work turns an expired mandate into a tripped
\* switch, without waiting for somebody to try an order, unless the trip fails each time.
ExpiryCutsAuthority ==
  (authority = "expired" /\ running /\ jobs # {})
    ~> (authority # "expired" \/ halted # {} \/ ~running \/ jobs = {})
TripsGetThrough == <>[](pc # "untripped")

\* The scheduler never stops waking a recurring job, and each wake renews the heartbeat.
HeartbeatReturns == []<>(beat = "fresh" \/ ~running \/ jobs = {})

\* The agent answers every turn in the end.  The code has no timeout that would see to it:
\* a turn that hangs stops the scheduler, the sweep and the heartbeat.
TurnsReturn == []<>(pc # "turn")

\* While it runs, has jobs and its agent answers, the runner responds: to its first trip with
\* a sweep, to an expiry by cutting its own authority, and to those who watch it with
\* heartbeats (runner.py, run_once).
RunnerResponds ==
  TurnsReturn => /\ FirstTripIsSwept /\ HeartbeatReturns
                 /\ TripsGetThrough => ExpiryCutsAuthority
=============================================================================

# SynapseYield in TLA+

SynapseYield places stock orders that a language model proposes and a user
approves.  This directory models its stateful parts in TLA+, checks them with
TLC on small instances and proves with TLAPS, for instances of every size, the
central facts about the simulated account, the exchange adapter, the chat, the
swarm's files, the research goals, the tool stack, the live gate and its runner.
`PROJECT.json` maps every definition to the lines it models; paths below are
relative to `src/synapse_yield/`.

## 1. The system

There are two programs, linked only by report files.

**The trading kernel and its chat page.**  A browser talks over a WebSocket to
`web/app.py`.  Every message is handled by a task of the event loop, which runs
a LangGraph graph (`orchestrator/harness_agent.py`) in a pool of four threads.
The graph interprets the text, selects stocks, waits for the user's approval
and calls `harness/trade_executor.py` for each approved pick.  One execution is
one database transaction: it creates an order (`harness/order_service.py`), has
it checked (`risk/engine.py`), submits it to a broker (`broker/local_sim.py` or
`broker/longbridge/adapter.py`) and submits its take-profit and stop-loss.

**The research agent** (`agent/`).  An agent loop (`agent/src/agent/loop.py`)
talks to a language model and calls tools; a research goal may keep it going.
One of its tools starts a swarm: workers run a task graph layer by layer
(`agent/src/swarm`), each a smaller loop of its own, and leave JSON files that
several parties read and repair.  The tools come from a registry of local and
remote (MCP) tools behind a governance wrapper; many of them fetch market data
or research from public services.  A live-trading part lets the agent send
orders to a real broker inside a mandate the user committed to, by hand or
from a scheduler, with a kill switch.

| Component | State | Operations | Interaction | What is hard | What makes it correct |
|---|---|---|---|---|---|
| Order state machine `domain/state_machine.py` | none (a relation) | `assert_order_transition` | called by every transition | several writers of one row | every audit trail is a path of the relation |
| Order service `harness/order_service.py` | `orders`, `audit_logs`, `outbox_events` | create (idempotent), risk check, transition, enqueue | writes through the caller's session | retries, what is counted when | outbox and rows agree |
| Risk engine `risk/engine.py` | none; reads the tables | `check` | reads the transaction's snapshot | limits over time, concurrent readers | the daily, duplicate and cooldown rules hold over histories |
| Simulated broker `broker/local_sim.py` | `accounts`, `positions`, `fills`, `cash_ledger` | submit, process_quote, cancel | called in the executor's transaction | reservations recomputed later at other prices | frozen cash, shares, ledger, profit and equity reconcile |
| Trade executor `harness/trade_executor.py` | the session's unit of work | `execute` | worker threads, one database | snapshot reads, row locks, roll-back | no execution undoes another; every execution ends |
| Longbridge broker `broker/longbridge/adapter.py` | the rows; the exchange has its own | submit, cancel, push handler | SDK calls, SDK callback thread | time-outs, early, lost and illegal pushes, cancel races | rows never claim what the exchange did not do |
| Web server `web/app.py`, page `web/static/app.js` | sessions, pool, cards | connect, disconnect, message, approve | asyncio tasks, threads | overlapping messages, a full pool | every message is answered, refinements accumulate |
| Harness graph `orchestrator/harness_agent.py` | checkpoints per thread | nodes, interrupt, resume | LangGraph | resuming the wrong or a busy thread | only approved picks are executed |
| Swarm runtime `agent/src/swarm/runtime.py` | the thread's copy of the run, futures | start, layers, retries, deadline, cancel, finalize | thread pool, files | failures of any subset of tasks, exceptions | no task runs without its context; a completed run is complete |
| Swarm stores `store.py`, `task_store.py` | `run.json`, `tasks/*.json`, `events.jsonl` | hydrate, reconcile, recover, reap | poller and later runs write too | nothing locks the files; crash anywhere | readers finish what the thread left and agree with it |
| Swarm worker `worker.py` | messages, artifact files | the ReAct loop and its attempts | LLM stream, research tools | retries over files an earlier attempt left, filtered and failed streams | a completed task rests on data; it ends |
| Research tools `agent/src/tools`, clients | process-wide caches | some twenty tools | HTTP services | partial failure of several requests, failures remembered | an answer names what failed, or says it failed |
| Agent loop `agent/src/agent/loop.py` | transcript, cancel flag, counters | stream, batches, goal continuation, compression | LLM, tools, background tasks, goal store | cancellation at any point, cut transcripts | every call is answered, limits hold, runs end |
| Research goals `agent/src/goal`, `goal_tool.py` | SQLite rows | replace, edit, delete, evidence, status, usage | several turns and hosts | a snapshot that is stale when the tool writes | completion is backed by evidence; ended goals stay ended |
| Tool registry, MCP, governance | registry, wrapper context | build, filter, list, call, decide | remote servers | servers that fail, colliding names, lost answers | one server's failure costs its own tools only; a name is bound to a tool that is offered under it; denied means no effect |
| Market data `agent/src/market_data.py`, `agent/backtest/loaders`, `runner.py` | cache on disk, failure memos, throttle slots | resolve, fetch, fall back | threads, hosts | one cache for all, midnight, bursts | the cache is transparent, sources are honoured, requests end |
| Live gate `agent/src/live` | proposal, mandate, consent, counter, sentinels, ledger | propose, commit, halt, order | tools in several sessions | checks before waits, crash between two files | caps and consent bound every order; nothing starts after a halt |
| Live runtime `agent/src/live/runtime` | jobs, baseline, heartbeat, latch | schedule, tick, reconcile, sweep | event loop, broker, the gate | others trading, trips at any point, restart | sweeps are thorough, no turn over an unrecorded fill |

`PROJECT.json` lists the remaining parts (gateway, factory, provider
construction, memory, numerical tools, command lines) with the reason each is
left out: they do input and output, formatting or floating-point arithmetic and
share no state.

Nothing in the program calls `process_quote`, `cancel_order` or
`subscribe_order_events`; they are the library's interface and are modelled as
a client may call them.  The agent imports packages that are not in the
repository (the live connectors of `src/trading`, the engines of the
backtester).  They are taken as installed; without them the import of
`src.live.registry` fails, and with it every MCP server is skipped.

## 2. The modules

| Module | Models | Uses |
|---|---|---|
| `OrderStates` | `OrderStatus`, the allowed transitions | |
| `OrderLifecycle` | **abstract specification**: audit trails that only grow along the state machine, one entry at a time | `OrderStates` |
| `Sums` | sums over 1..n as a recursive function | |
| `OrderService` | the trading tables as one record, the *book*; order service and risk engine as operators from book to book | `OrderStates`, `Sums` |
| `SimBroker` | the simulated broker on a book | `OrderService` |
| `LocalSim` | any client calling service and broker, one call at a time | `SimBroker`, `OrderLifecycle` |
| `TradeExecutor` | concurrent executions over the simulated broker | `SimBroker`, `OrderLifecycle` |
| `Longbridge` | executions over an outside exchange, pushes, cancellation | `OrderStates`, `OrderLifecycle` |
| `HarnessChat` | page, server, thread pool and graph | |
| `SwarmRuntime` | a swarm run, its files, its poller and a later sweep | |
| `ResearchTools` | what each research tool answers to which replies | |
| `SwarmWorker` | one task inside its worker, over the research tools | `ResearchTools` |
| `GoalStore` | the goal ledger and the goal tools | |
| `AgentLoop` | the loop of one agent over its goal | `GoalStore` |
| `ToolStack` | registry, whitelist, governance, remote call | |
| `MarketLoaders` | the declarations of the data sources and their chains | |
| `MarketData` | requests, cache, fallback and throttle | `MarketLoaders` |
| `GateContract` | **abstract specification** of the live gate | |
| `LiveGate` | mandate, kill switch and the order gate | implements `GateContract` |
| `LiveRuntime` | the autonomous runner | built on `GateContract` |
| `BrokerProofs` | theorems about the simulated account and the executions over it, and first about the sums they need | `LocalSim`, `TradeExecutor` |
| `AgentProofs` | theorems about goals, tool stack and loop | `GoalStore`, `ToolStack`, `AgentLoop` |
| `ResearchProofs` | theorems about market data and the worker | `MarketData`, `SwarmWorker` |
| `LongbridgeProofs`, `HarnessChatProofs`, `SwarmRuntimeProofs`, `LiveGateProofs`, `LiveRuntimeProofs` | theorems about the module each is named after | that module |
| `MC*` | instances for TLC | |

An operation that a handler chains inside one transaction is an operator from a
book to a book, so the handler is their composition and the transaction is one
step that installs the last book or none.  `LocalSim` and `TradeExecutor` share
these operators: what is proved of reservations in one is about the code the
other runs.

### Orders and the simulated broker

`book` holds, per order, its intent, status, audit trail and fill (with its
ledger row), the outbox, the account (cash, frozen, realized, equity) and per
symbol the position (quantity, available, cost, market value).  `fresh` and
`today` are the orders inside the cooldown and inside the UTC day; two actions
let time pass.  Money is counted in units of 1/`RateDen`, so the commission is
an integer.  `process_quote` is a loop in one transaction: `scan` holds the
orders still to visit, in any order, and no other call runs until it ends.

Abstractions: one account, because accounts share no row.  The cost of a
position is kept as quantity times average cost (`basis`), an integer, where
the code rounds `avg_cost` to six decimals.  The position row exists from the
start.  A MARKET intent with a limit price, which the schema would let through,
is outside `OrderIntents`, the intents both models allow.  The text of reasons and snapshots is left
out.

### Executions

A transaction of `TradeExecutor` reads a snapshot (`Begin`), inserts the
checked order (`Insert`), then submits everything and commits (`Finish`), or is
refused (`Refuse`) or rolled back (`Abort`).  External assumptions: InnoDB at
its default level REPEATABLE READ takes the snapshot at the first query; a
foreign-key insert takes a shared lock on the `accounts` row until the end of
the transaction; a writer waits for the locks of others, and one of two
transactions that wait for each other is aborted.  The session neither locks
nor versions rows, and writes whole values of the columns it changed.

A bracket order is approved without a risk check and reserves nothing, and its
result is not looked at.  If take-profit and stop-loss are equal their
idempotency keys are too, and the second raises (`BracketsCollide`).  Over
Longbridge the same collision appears only at the commit, when all three legs
have been sent.

### Longbridge

The exchange (`ex`, `reply`) and the push connection (`pushes`) are external and
unconstrained: a request may be processed although its caller timed out; pushes
arrive in order but may be lost (`Lossy`).  Rows of an execution are invisible
until `Commit`.  `handle_order_event` saves and applies a push in one
transaction, or neither if the state machine refuses the transition.
`cancel_order` reads the row, calls the exchange and writes afterwards, so
`CancelCall` and `CancelReturns` are two steps.  `Prefixed` chooses the two
texts a status may have; `MapOrderStatus` models which key of the table each of
them meets first.

### The chat

One page, its messages in any overlap.  A run is a sequence of node steps, each
ended by a checkpoint; the interrupt ends the run and frees its thread.
LangGraph is external: a resume continues from the thread's last checkpoint,
does nothing on a finished thread, and its value reaches only the node it
continues with.  The LLM's answer is a choice.  The page makes a new session id
at every load, so a session has one connection; empty texts are not sent.  A
pool of two stands for the pool of four.

### The swarm

`host` is the thread of `_execute_run` with its locals, `worker` the futures,
`run` and `file` the JSON files, `reader` the two callers of
`reconcile_run(write=True)`: the poll loop of `SwarmTool.execute` and the sweep
of a later `start_run`.  Writing one file is atomic; a reader's writes are two
steps, tasks then run, with the thread running between them.  `Faults` selects
crash, exception and cancellation.  Starting a layer is one step.  A result
"other" stands for a time-out, a token limit, an incomplete answer or a worker
that raised.  A summary is reduced to whether it exists; elapsed time to
`silent`: no event for longer than the stale threshold.  While the host lives
its heartbeats keep it from falling silent.  Unknown agent names are excluded
(the preset names its own agents), the order of tasks inside the last layer is
left open, and an interrupt from the keyboard is not modelled.

### The worker and its tools

`ResearchTools` is a set of operators: `Execute(tool, a, net, memo)` is what a
tool answers to arguments of a kind `a` when the services it asks send `net`
(usable rows, rows without the fields that identify them, another shape, an
exception) and the process remembers `memo`.  An answer is what its envelope
says, which services' rows are in it and whose failure it names; numbers of
rows, columns and texts are left out.  The order in which a tool asks its
services and which failure ends the call are kept, since they decide what is
lost.

`SwarmWorker` is `run_worker` with its locals in `w`, repeated by
`_run_worker_with_retries`.  Locals start afresh in each attempt; `report.md`,
`summary.md` and the tools' memory do not.  A text is reduced to how the loop
classifies it.  Reading `report.md` and writing `summary.md` may fail, which the
code swallows: a summary is then returned that is not on disk.  `SwarmRuntime`
knows of a worker only how it ends.

### Goals and the loop

Each operation of `GoalStore` is one `BEGIN IMMEDIATE` transaction and one
step.  A tool is two steps, because it reads the current snapshot to fill in
what the model left out and then writes.  `TraceFields` models the fields the
runtime fills in: the loop's own run directory, unless the model names another
run.

`AgentLoop` extends it: its `LoopStep` is the loop, the other steps are the
other turns and hosts of `GoalStore`, cancellation and background tasks.
Messages keep who they are from and the ids of the calls they make or answer.
Sizes are left out, so a compression may come at any iteration and cut
anywhere; `FixToolPairs` then repairs the transcript as the code does.  Tool
batches (parallel for read-only tools, one by one otherwise), duplicate calls,
the retry of a failed stream and the content filter are kept.

### The tool stack

A name is the sequence of the words it is joined from, without the seams, so that
sanitising and joining may make the names of two servers' tools equal, as in the
code; the registry maps a name to the tool registered last under it.  Discovery visits the servers in their configured
order, with the list retried; then the worker's whitelist filters; then single
calls are decided by the policy engine and sent.  An answer may be lost after
the remote tool took effect.  OAuth and the conversion of results are left out.

### Market data

A loader is a record of what its class declares and of how its fetch treats a
symbol: markets, availability, the kinds of symbols it sends upstream, what
hourly requests get, throttling, retries and isolation of one symbol's failure.
`MarketData` runs the tool's `fetch_market_data` and the backtest's data stage
in several threads over one cache, the failures that loaders remember and the
throttle.  A frame remembers whether its range was over when it was fetched (`settled`);
whether it may be stored is judged when it is put, as in the code.  Time is a few
ticks around midnight, because that is when a range becomes final.

### Live trading

`LiveGate` cuts an order call wherever it waits for the broker or the loaders
and wherever it opens a file again that another call may have replaced (the
daily counter is read and written in two steps).  A commit is a request of its
own (`Commits`): it reads the proposal, writes the mandate, the consent and
deletes the proposal, each in a step, with no lock, so requests overlap; each
write may raise, and the process may die anywhere.  Two writers of one file share
the temporary name beside it, so one may put the other's document in place and
the other's replace then raises.  The ceilings and the flatten flag a commit is
given explicitly are inputs of it.  An order whose process dies between sending
and the answer may reach the broker afterwards (`LandLate`); an increment or an
append to the ledger that fails leaves a placed order uncounted or unrecorded.
Funds are small integers; the limits the templates produce, the adjustments and
the ceiling checks are those of the code, including the fields it does not
compare.  `before[k]` is a history variable: the calls that had ended when call
`k` began, so that properties can speak of calls no other overlapped.  The
liquidity floors of a mandate are left out because no committed profile carries
one.  Nothing in `src/` calls `commit_mandate`; its caller is the endpoint of a
front end, which is external.

`LiveRuntime` sees orders through `GateContract` and adds the scheduler with
its jobs and store, the tick cut at each broker read and each order, the
reconciliation against the last baseline, the sweep after a trip, the heartbeat,
a stranger who trades behind the gate, crash and restart.  `Faults` selects which
calls may fail: reads, submissions, the ledger, the stores (also
`runtime_state.json`, whose loss is a cold start) and the trip of an expired
mandate.  An order on its way when the process dies may land later (`adrift`).
`heeded` records that the trips which stand have been swept.  Since `LiveGate`
implements `GateContract` (run `live_gate`), what the runner relies on is what the
gate does.  Nothing in `src/` constructs a `LiveRunner`; the model takes it with a
broker to submit to, without which (`submit_fn is None`) it sweeps nothing.

## 3. The runs

| Run | Checks | Distinct states |
|---|---|---|
| `local_sim` | `TypeOK`, `FrozenBacksOpenBuys`, `NoOverdraft`, `BooksBalance`, `RiskRulesHold`, refinement `LifecycleSpec` | 95,745 |
| `executor` | `CommittedBooks`, `ExecutionsEnd` | 62,705 |
| `longbridge` | `OutcomesAreRecorded`, `NothingInvented`, `OutcomeArrives` | 910,034 |
| `chat` | `ApprovalsGovern`, `CalmUserIsUnderstood`, `MessagesAnswered` | 423,872 |
| `swarm` | `ResultsAreGrounded`, `RecoveryAgrees`, `CompletedStays`, `RunsEnd` | 95,039 |
| `swarm_worker` | `CompletionsAreGrounded`, `AnswersAreHonest`, `WorkerEnds` | 214,518 |
| `goal_store` | `LedgerIsSound`, `EndedGoalsAreFrozen` | 1,132,253 |
| `agent_loop` | `TranscriptPairs`, `RunKeepsItsLimits`, `RunsEnd` | 614,830 |
| `tool_stack` | `RegistryIsFaithful`, `EffectsArePermitted`, `CallsTakeEffectOnce` | 345,546 |
| `market_data` | `CacheIsTransparent`, `SourcesAreHonoured`, `SlotsAreSpaced`, `RequestsEnd` | 321,178 |
| `live_gate` | `OrdersAreJustified`, `KillSwitchWindow`, `ExposureWithinCaps`, refinement `ImplementsContract` | 1,936,082 |
| `live_runtime` | `SweepIsThorough`, `NoTurnOverUnrecordedFill`, `RunnerResponds` | 833,874 |

Every run takes less than four minutes on two cores.  A property with
several parts is a conjunction of named definitions, each with its own comment
in the module.

All runs are expected to pass.  Section 4 lists the definitions that state what a
comment or document of the repository says and TLC refutes, with the run under
whose constants it does.

**Bounds and why they are enough.**

* `local_sim`: three order rows let two waiting orders compete for cash and
  shares while a third fills or is refused; the intents have both sides, limit
  and market, and prices below, at and above the limits; `MaxDailyOrders = 2`
  is reached and exceeded; the commission has a minimum that sometimes binds.
* `executor`: three executions, two at a time, so one can start after another
  overlapped two; seven proposals, among them one without a price, some with
  brackets and one with equal brackets.
* `longbridge`: one execution whose legs are two, both traded at the exchange,
  the first also cancelled, with lossy pushes.  Executions touch disjoint rows
  and meet only in the push queue.
* `chat`: three messages in flight (a selection, an approval and anything
  between them), two picks and two threads.
* `swarm`: four tasks in three layers, a chain beside an independent task
  joined at the end, one retry.
* `swarm_worker`: two iterations and one retry of the whole attempt, one call
  in a response, one stream retry, two filtered responses, one nudge: each limit
  is reached and each counter is reset by what comes after it.
* `goal_store`: two goals, so that one replaces the other, two turns of one
  session that race, one criterion and one evidence row, budgets 0 (none) and 1
  (spent at once).  Goals and turns are interchangeable; the symmetry is used.
* `agent_loop`: three iterations, two continuations, two filtered responses, one
  compression, over one goal of that store.
* `tool_stack`: three servers, one of them a live broker, whose names and tools
  collide after sanitising; two attempts to list; one call, in three modes on
  four surfaces.
* `market_data`: two callers; nine requests that differ in entry, source,
  market, interval and end; three sets of usable loaders; midnight within the
  run; jitter zero and one.
* `live_gate`: two order calls, so that each may see the other half done, and two
  commit requests of one proposal with one template; at most two of the calls and
  requests are under way at a time (`TwoAtATime`), which is every pair of them.
  One adjustment narrows two limits and names more instruments than were shown, the
  other widens a number and is refused; orders go through both gates, one of them
  priced.  `MaxEvents = 1`: one midnight, trip or crash.
* `live_runtime`: one order of the runner and one of a stranger, one recurring
  job, failing submissions and trips, one crash, `flatten_on_halt` set.  The theorems
  about it cover the other faults (`Faults`) and jobs.

**Deadlock.**  `swarm`, `swarm_worker`, `market_data` and `live_runtime` check
for it; in the first three one action (`Rest`, `Quiet`) marks the states in which
nothing need happen.  The others say `CHECK_DEADLOCK FALSE`: their clients are
bounded in what they may ask for and may stop asking.

**Fairness.**

* `TradeExecutor`: a worker thread that has a session goes on with it, and the
  database ends every wait.  Weak fairness of `Finish` is written out
  with `MayFinish`, the condition under which the step is enabled.
* `Longbridge`: gateway calls return, raise or time out, a worker commits, the
  SDK thread delivers what has arrived.
* `HarnessChat`: the event loop and the pool run what they are given, LLM calls
  return or raise (the OpenAI client times out by default).
* `SwarmRuntime`: the thread goes on unless it died, the layer's deadline
  comes, time passes, the poll loop polls, and somebody starts another run some
  day, which is when the code sweeps.
* `SwarmWorker`, `AgentLoop`: the loop takes its next step: the provider's
  stream ends or fails and a tool returns or raises.
* `MarketData`: the clock ticks and a caller goes on; a request returns or
  raises within its time-out.
* `LiveRuntime`: the event loop runs what is due and time passes.  An agent turn
  has no time-out, so that it ends is no fairness but a hypothesis of
  `RunnerResponds` (`TurnsReturn`), and so is that the trip of an expired mandate
  gets through at last (`TripsGetThrough`).

No step of a user, a worker, the exchange or a fault is ever assumed to happen.

## 4. What the checks show

* **Account.**  Over all orders of calls, frozen cash is what the waiting buys
  reserved, shares are promised once, the ledger replays to the balance, profit
  is conserved, equity is current and the outbox names exactly the outcomes.
  The risk rules, which look at single moments, hold over histories.
* **Executions.**  Whatever overlaps, trails stay legal, every ledger row's
  `balance_after` is the cash its execution leaves, and every execution ends
  although they wait for each other's locks.  As long as no two executions
  overlap, the ledger replays, cash is safe and the cooldown is respected.
* **Exchange.**  Every outcome of an order nobody cancels is traceable to a
  recorded push, rows never run ahead of the exchange, brackets are only sent next
  to an accepted order, and the outcome of such an order arrives if no push of it
  was lost or came before its row.
* **Chat.**  What a selection executes, some approve message brought; a text order
  executes only picks remembered from a run that has ended; a pick that raises
  does not stop the others, and none is attempted twice; pauses do not starve the
  pool.  A user who waits for answers has refinements accumulate and an approval
  execute its own list.
* **Swarm.**  Tasks run only with their context, a completed run is complete,
  the poller's answer agrees with the final file unless the run is cancelled or
  its thread broke off by an exception after its last task, and every started run
  ends, a crash at any step included.
* **Worker.**  A data agent's task is completed only after some tool call that
  the worker does not recognise as an error, with a text that
  `_classify_deliverable` accepts, and the summary on disk, where it could be
  written, is the one returned.
  A tool's answer that claims success names every mandatory request that failed
  and holds rows only of requests that were answered.  Every task ends.
* **Goals.**  However turns, hosts and charges interleave, a session has at most
  one current goal, completed goals are proven, coverage is backed by rows,
  evidence guarded by a goal id lands on that goal, spent goals rest and no goal
  asks for an order.  A goal that ended is never written again.
* **Loop.**  Whatever is cut, cancelled or filtered, a transcript sent to the
  model answers each call once; continuations need progress; a turn is charged
  once; nothing starts after a cancellation that the loop has seen; runs end.
* **Tools.**  A server that fails costs its own tools only, a name that several
  servers claim is bound to the last of them, high-risk calls need
  the leave the rules ask for, a denied call has no effect, and a lost answer
  does not repeat the effect.
* **Market data.**  The shared cache never answers with another request's frame,
  nor with a provisional bar for a range that was over before; a backtest does not
  mix sources within a market, the tool does not answer a request for local files
  from the network, reserved slots stay apart.
* **Live gate.**  Whatever overlaps, fails or dies: every order that reaches the
  broker is within the numbers of the profile the user saw, runs under the mandate
  of a commit the user made and, once its call has returned, is on the ledger
  unless appends fail; a commit that returned has its consent and its proposal is
  gone.  The counter is behind by no more than calls that overlapped or raised, so
  the daily cap holds among orders that ran alone; a purchase exceeds the exposure
  caps by no more than what others added since its decision; after a trip only
  calls admitted earlier get through.
* **Live runtime.**  A sweep without failing calls clears the book and flattens
  without closing twice.  No turn opens over a fill that moved the position since
  the baseline; exempt are a cold start, a position that is gone from the broker's
  list, and everything after the first sweep.  While the runner runs and its turns
  return, the first trip of its life is swept, an expiry cuts its authority, and
  watchers see heartbeats.

### Where the code and its documentation disagree

What a comment or a document states and the code does not keep is a definition of
its own in the module, beside the weaker one that holds.  Added as an invariant or
property to the configuration of the run named here, each gives a counterexample.

| Definition | Run | What happens | Where | What is said |
|---|---|---|---|---|
| `LedgerAddsUp` | `executor` | two executions read one `accounts` row, the second commit overwrites the first one's cash, which `cash_ledger` still records | `harness/trade_executor.py:92` | `storage/models.py:415`: the ledger records the changes of the account's cash |
| `CooldownRespected` | `executor` | neither of two overlapping executions sees the other's order | `risk/engine.py:221` | `risk/engine.py:214`: within the cooldown a similar order is forbidden |
| `SubmissionsAreOnFile` | `longbridge` | the roll-back after a time-out removes the RECONCILING row | `harness/trade_executor.py:161` | `broker/longbridge/adapter.py:49`: RECONCILING, for a person to reconcile |
| `PushesAreAudited` | `longbridge` | a push with a refused status loses its audit row too | `broker/longbridge/adapter.py:288` | `broker/longbridge/adapter.py:250`: the payload is written to the audit table |
| `FinalStaysFinal` | `longbridge` | `cancel_order` writes CANCEL_PENDING over a fill committed since it read the row | `broker/longbridge/adapter.py:181` | `domain/state_machine.py:42`: FILLED is final |
| `SelectionsNeedApproval` | `chat` | a text order executes the remembered picks without an approve message | `orchestrator/harness_agent.py:127` | `src/readme.md:60`: only after the user's approve message |
| `AnswerIsFinal` | `swarm` | the poller answers completed before the thread, which raised, writes failed | `agent/src/swarm/runtime.py:371` | `agent/src/swarm/store.py:364`: single source of truth |
| `ReportsAreTheWorkersOwn` | `swarm_worker` | the report of a failed attempt completes the next one | `agent/src/swarm/worker.py:432` | `agent/src/swarm/worker.py:920`: actually produced by the worker |
| `LocalNamesAreUnique` | `tool_stack` | server `a`, tool `b_q` and server `a_b`, tool `q` get one name; the later replaces the earlier | `agent/src/tools/mcp.py:162` | `agent/src/tools/mcp.py:193`: local tool names remain unique |
| `CacheHoldsSettledBars` | `market_data` | a bar fetched before midnight and put after it is cached as settled | `agent/backtest/loaders/base.py:347` | `agent/backtest/loaders/base.py:295`: only fully-elapsed days are cacheable |
| `LocalStaysLocal` | `market_data` | the backtest answers a request for local files with tushare | `agent/backtest/runner.py:367` | `agent/backtest/loaders/registry.py:105`: must never fall through to a network loader |
| `ProposalsAreOneShot` | `live_gate` | overlapping commits both find the proposal | `agent/src/live/mandate/commit.py:370` | `agent/src/live/mandate/commit.py:436`: can never be committed again |
| `OrdersTraceToConsent` | `live_gate` | a crash or a failed write between mandate and consent leaves a mandate in force without one | `agent/src/live/mandate/commit.py:416` | `agent/src/live/audit.py:10-12`: every order is traceable to the click |
| `TradesPerDayAreCapped` | `live_gate` | two orders under way read the same count | `agent/src/live/daily_count.py:48` | `agent/src/live/mandate/model.py:54`: order placements allowed per day |
| `LedgerIsComplete` | `live_gate` | an increment that raises passes over the audit record | `agent/src/live/order_guard.py:365` | `agent/src/live/audit.py:3-5`: every live action appends a record |
| `MandatesNarrow` | `live_gate` | an adjustment that is no number replaces the field unchecked | `agent/src/live/mandate/commit.py:265` | `agent/src/live/mandate/commit.py:238`: adjustments may only narrow |
| `TripIsSwept` | `live_runtime` | the latch of the first sweep is never reset, so a second trip is not swept | `agent/src/live/runtime/runner.py:577` | `agent/src/live/runtime/flatten.py:5`: on trip the runner cancels every order |

What the code keeps of each is a property of the same run.
The following was met as well, without a line that promises otherwise or without a
property of its own:

1. `HarnessChat`: executed picks stay in `last_picks`.  Overlapping messages
   overwrite the instructions, and an approval resumes the newest thread;
   `CalmUserIsUnderstood` speaks of a user who waits.
2. `SwarmRuntime`: terminal recovery publishes the last summary in file-name
   order, the thread itself that of the last layer
   (`agent/src/swarm/store.py:440`, `runtime.py:441`).  `RecoveryAgrees` excludes
   cancelled runs, where the poller may answer completed first.
3. `SwarmWorker`: `_is_error_result` (`agent/src/swarm/worker.py:933`)
   recognises `"status": "error"` only, while most research tools answer
   `{"ok": false}`; such an answer, a denial of the governance wrapper and a
   written file all count as data.  A prompt without `{upstream_context}` drops the
   upstream summaries.
4. `ResearchTools`: `_US_SECID_CACHE`, an emptied `_TICKER_CACHE` and
   `_FAILED_URLS` remember a transient failure as long as the process lives; the
   SEC tool loses the filings when the metric fails; the web search hides a
   failure of its first engine and the research reports one of the consensus.
5. `MarketData`: several loaders ignore the interval, so daily bars are cached as
   hourly ones (`Bars` says which).  A partial result never falls back; a loader or
   constructor that raises ends the backtest.
6. `LiveGate`: the MCP gate drops the asset class of a priced order.
7. `LiveRuntime`: the runner's own fill is an unknown fill for the next tick; the
   sweep's latch is lost in a crash; any answer to a cancel that does not raise
   counts as cancelled; an append to the ledger that fails inside the flattening
   ends the sweep; a corrupt job store is swallowed and all brokers share one.
   `failed` marks these cases in the properties.  A trip that fails on expiry is
   swallowed, and a turn that hangs stops the scheduler.
8. `AgentLoop`: a cancellation before `run()` is lost; one call may still start
   after a cancellation that the loop has not yet looked at; duplicates within
   one response both run; `metrics.csv` of an earlier run is still there.
   `GoalStore`: the loop fills in its own run directory, so an evidence row
   counts as verified unless the model names another run; evidence without a goal
   id may land on the goal that replaced the one meant.
9. `ToolStack`: shell tools are denied to governed workers in every mode although
   they were asked for; the wrapper's `live_state` is frozen when it is built, so
   the kill-switch check may be stale.

## 5. Proofs

Every theorem below is about the specification TLC runs, with nothing replaced,
and holds for every value of the constants that the module's assumption allows.

| Module | Theorem | Statement |
|---|---|---|
| `BrokerProofs` | `TypeCorrect` | `Spec => []TypeOK` |
| | `FrozenIsReserved` | `Spec => []FrozenBacksOpenBuys` |
| | `CashIsSafe` | under `FeesCovered`, `Spec => []NoOverdraft` |
| | `RiskRulesStay` | `Spec => []RiskRulesHold` |
| | `LedgerStaysTrue` | `Spec => [](LedgerReplays /\ EquityIsCurrent /\ OutboxAgrees)` |
| | `BooksStayBalanced` | under `NoBrackets`, `Spec => []BooksBalance` |
| | `LifecycleKept` | `Spec => LifecycleSpec` (refinement of `OrderLifecycle`) |
| | `ExecutorBooks` | under `ExecutorFees`, `ExecutorSpec => []CommittedBooks` |
| | `ExecutorRows` | `ExecutorSpec => []`(all of `CommittedBooks` but `NothingOverdrawn`) |
| | `BalanceIsWritten` | `ExecutorSpec => BalanceAfterIsCash` (action property) |
| `LongbridgeProofs` | `NothingIsInvented` | `Spec => []NothingInvented` |
| | `OutcomesAreOnRecord` | `Spec => []OutcomesAreRecorded` |
| `HarnessChatProofs` | `ApprovalsStandFirst` | `Spec => []ApprovalsGovern` |
| | `WaitingIsEnough` | `Spec => []CalmUserIsUnderstood` |
| `SwarmRuntimeProofs` | `GroundedResults` | `Spec => []ResultsAreGrounded` |
| | `RecoveriesAgree` | `Spec => []RecoveryAgrees` |
| | `CompletedTasksStay` | `Spec => CompletedStays` (action property) |
| `AgentProofs` | `SoundLedger` | `GoalSpec => []LedgerIsSound` |
| | `FrozenGoals` | `GoalSpec => EndedGoalsAreFrozen` (action property) |
| | `OneEffectPerCall` | `StackSpec => []CallsTakeEffectOnce` |
| | `OnlyPermittedEffects` | `StackSpec => []EffectsArePermitted` |
| | `FailuresAreIsolated` | `StackSpec => []FailureIsIsolated` |
| | `RunsKeepTheirLimits` | `LoopSpec => RunKeepsItsLimits` (action property) |
| | `TranscriptsAreAlwaysPaired` | `LoopSpec => []TranscriptPairs` |
| `ResearchProofs` | `CacheIsAlwaysTransparent` | `Spec => []CacheIsTransparent` |
| | `SourcesAreAlwaysHonoured` | `Spec => []SourcesAreHonoured` |
| | `SlotsAreAlwaysSpaced` | `Spec => []SlotsAreSpaced` |
| | `AnswersAreAlwaysHonest` | `WorkerSpec => []AnswersAreHonest` |
| | `CompletionsAreAlwaysGrounded` | `WorkerSpec => []CompletionsAreGrounded` |
| `LiveGateProofs` | `OrdersJustified` | `Spec => []OrdersAreJustified` |
| | `ExposureHolds` | `Spec => ExposureWithinCaps` (action property) |
| | `KillSwitchHolds` | `Spec => KillSwitchWindow` (action property) |
| | `ContractKept` | `Spec => ImplementsContract` (refinement of `GateContract`) |
| `LiveRuntimeProofs` | `ThoroughSweep` | `RuntimeSpec => []SweepIsThorough` |
| | `NoUnrecordedFill` | `RuntimeSpec => NoTurnOverUnrecordedFill` (action property) |

Each proof has the same shape: lemmas about what the operators return, one lemma
per action (or part of an action) and conjunct that it can disturb, a step lemma
that joins them, and the theorem, whose last step is the temporal one.  Each
inductive invariant was checked with TLC, as an invariant of the module's run,
before it was proved.

### The simulated account

Assumptions: `BookAssumption` (ranges of the constants) and `InputAssumption`
(intents and quotes the schemas accept).  Two theorems have a hypothesis of
their own, and both are real limits of the code.  `FeesCovered`: no commission
exceeds the proceeds of the sale it is charged on; a minimum commission larger
than a tiny sale makes the sale cost cash nobody reserved.  `NoBrackets`: no
intent is a bracket order; take-profit and stop orders reserve no shares, so two
of them may sell the same position.  `LedgerStaysTrue` and `RiskRulesStay` hold
with bracket orders too.

The inductive invariant `IInv` strengthens the properties in three ways.

* `WaitingHasLimit`: an order that waits has a limit price.  The code
  recomputes a reservation from the intent; only for an order with a limit does
  this not depend on the quote of the moment.
* `ScanIsLive`: the orders `process_quote` has still to visit are still
  SUBMITTED.  Without it a fill could release a reservation a second time.
* `FrozenExact`: frozen cash equals the sum, over all rows, of what each holds.
  Every step changes the contribution of one row.

`AmountMonotone` (a buy filled at or below its limit costs at most what was
reserved, commission included) is what `CashIsSafe` rests on.

`BooksInv` adds `Sound(book)`: the other accounts as equations between sums over
rows.  `LedgerExact` sums the ledger rows of filled orders against the cash,
`EquityExact` the market values, `ProfitExact` the cost of the positions against
cash and realized profit, `SharesExact` what open sells hold per symbol.  A fill
changes one summand of each, and the lemmas (`FillSound` and its parts) show that
it does so by the amount it books: the cost a sale takes out of `basis` is the
same number it sets against the proceeds, rounding included, and all that is left
when the last shares go (`DividesEvenly`).
`NoDuplicates` and `WithinCap` say of every state what `RiskEngine.check` compares
at one moment; they survive because an approval is a step of one order
(`ApprovalIsFirst`, `ApprovalIsWithinCap`) and every other transition leaves the
sets of working and of approved orders as they are or shrinks them.

For the refinement, `TrailExact` says that the last row of an order's audit
trail is its status, so a transition that `assert_order_transition` allowed is a
legal continuation of the trail.  Handlers that make several transitions in one
transaction extend one trail by several rows (`Continues`, `GrowsTwice`), which
is one step of the abstract specification; every other step leaves the trails.

The proofs begin with the facts about `SumTo`: its type, its change when one
summand changes, constant sums and bounds.  `SumTo` is a recursive function; the
lemmas first show by a least-counterexample argument that a function of partial
sums exists and is unique, and then reason about that function.

### The executions

Assumptions: `BookAssumption` and `ExecutorAssumption` (every proposal has a known
symbol, a side, a positive quantity and prices that are not negative; there are
rows for all executions).  What the operators do is proved once for both models:
the lemmas about reservation, settlement and transition are those of the account.

An execution submits each order at the quote of its own price, so the order fills
at its limit, in the same transaction, for exactly what was reserved
(`SubmitAtLimit`, `ReadyExecuted`).  Hence the invariant of the committed tables,
`TablesInv`: every row is blank or carries the full trail of a filled order, and
nothing is frozen.  `JobInv` says of every execution that its rows are its own
until it commits, so two commits never meet in a row of `orders`; they meet only in
the account and the position, whose whole values the later one writes (`Committed`).
That is enough for legal trails and for `BalanceAfterIsCash`: the cash a commit
writes is what its last ledger row says.  A position is never offered twice
(`WithinPosition`) as long as no bracket order exists; the snapshot of an execution
is within its own position too, or a commit would bring the excess back.

What one cashier would guarantee holds only while `alone` is true, and is a part of
its own.  `AloneJob`: the snapshot of the one open execution has the cash, the rows
and the ledger of the tables, and the cooldown window it saw can only have shrunk.
So its risk check sees every order that is still in the window (`CooledDown`), and
its commit adds to the ledger what it adds to the cash (`FinishedAlone`).

`ExecutorFees` is needed for `NothingOverdrawn` only: the commission of a sale is
not more than the sale brings.  Purchases need no such condition, because the broker
compares the cash with the amount and the commission together.  `ExecutorRows`
is what remains without it.  The instance of the run lies outside: its
smallest stop-loss costs more than it brings, and the cash is ample.

### The exchange adapter

`LongbridgeAssumption` is the only assumption; the exchange, the pushes and what
is lost are unconstrained.  What the rows claim is inductive only together with
what is under way: `PushInv` (a push in the queue never runs ahead of its order
at the exchange), `AnswerInv` (an order whose request is open has no answer),
`RunInv` (uncommitted rows are fresh, and nothing beyond the current leg is at
the exchange; without it a bracket could be at the exchange before its order),
`CancelInv` (only a known row is cancelled).  `RecordInv` carries the trail, the
outbox and the recorded push of an order nobody cancels through each push,
committed or discarded.

### The chat

`ChatAssumption` is the only assumption: how many messages, picks and workers
there are, and which executions fill, is arbitrary.

`ApprovalsGovern` holds whoever talks over whom.  It rests on what the edges of
the graph make of a graph state, wherever that state is kept: `GraphInv` is stated
of every run's own state and of every checkpoint, because one becomes the other
at each step, interrupt and resumption.  For a text order, which executes what its
session remembers without an approval, `RecallInv` says where that came from: what
is pending anywhere was selected by a run that has ended (`Remembered`, which only
grows: `RememberedGrows`).  An execution that raises is logged like one that does
not, so a run at its end has tried all it confirmed, and each pick once (`Once`).
`LogInv` (nothing was executed by a run that has not come to execute) lets a run
that begins anew start with nothing attempted, and `QueueInv`, `TasksInv` and `ThreadsInv` say that a message is in
one place at a time and that a thread belongs to a chat message.

`CalmUserIsUnderstood` is conditional: it speaks of histories in which every
message was sent when all earlier ones had been answered, and `Calm` once false
stays false.  Under it `CalmInv` leaves one message under way.  So a checkpoint
is what the last run on its thread left (`CkptAt`), which `BusyInv` (a checkpoint
at execute has a run there) and `OwnerInv` (only a chat message's thread has a
checkpoint) need; what a resumed run confirms and executes is what its approval
brought (`ListAt`); a chat message under way knows what its session knows
(`SessionAt`), and a finished one has told it (`Accumulated`).  The last two are
about which entries a list carries, not their places, as a run adds its own
instruction and a selection starts a new list.

### The swarm

`SwarmAssumption` is the only assumption: a graph that `validate_dag` accepts,
with its layers.  The files are not locked, so the argument is about what a reader
may still write.  `ReaderInv`: a reader that is about to write holds a run whose
tasks have all ended, and the files are what it holds unless the host is dead; so
while the host lives its write changes nothing.  This needs `PlanInv` (the thread
touches no file of a layer that has passed, so not of a run that has ended) and
`SuccessInv`, `FailureInv` and `EndInv` (the status a reader computes from the
tasks is the one the thread's own flag gives).  The thread may raise at any step,
also after the last completed status is on disk (`ResolveRaises`, `ThreadDies`): it
then writes failed whatever a reader has answered, so both `EndInv` and
`RecoveryAgrees` exempt a thread that broke off (`BrokeOff`), and nothing else.  `SummaryInv` and
`CompletedIsComplete` are the two halves of `ResultsAreGrounded`.

### Goals

`GoalAssumption` is the only assumption.  `GoalInv` adds to `LedgerIsSound` the types
of the columns, `UnusedIsBlank` (a row id that was not handed out has no coverage
and no charges, or a new goal would start with them) and `CallsKeepTheirGoal` (a
call that names the goal of its turn still names it when the store is reached:
this is what makes guarded evidence land on the goal it was meant for).

### The tool stack

`StackAssumption` is the only assumption (`StackInv` is the invariant).  The decision about a call and its
effect are separate steps, between which an answer may be lost and the session
rebuilt.  `CallInv` says of the call under way that it has had no effect yet and
that what was decided about it permits one; `FirstHitIsFirst` shows that the policy
engine always decides, and by its first rule that matches.  `Discovery` is the loop invariant of the registry's
construction: every server before the current one was hidden, not wanted,
answered, or really unreachable, and every name is bound to the last of the servers
visited that claim it (`IsBound`, `Claimants`).  That is what can be said: servers'
full names may be equal, and the later registration replaces the earlier.

### The loop

Assumptions: `GoalAssumption` and `LoopAssumption`, among them that the goal ledger
counts turns (`"turns" \in Kinds`) and that adding evidence is not a readonly tool
(`goal_tool.py`, `is_readonly`); on the latter rests that a batch whose evidence is
being written is a batch of one.

`SucceedsInOneResponse` is not inductive: a tool that has succeeded once may have
calls in the batches that wait.  `Fresh` says that these belong to the response in
which it succeeded, since a later response is filtered by `calledOk`, which no
compression touches.  `CountsInv` carries the charge that is still to come.

`TranscriptInv` says what the transcript is at every step.  Between iterations it is
`Whole`: every assistant message is followed by the results of its calls, and every
result has its place behind such a message.  While tools run, one message is
`Waiting`: each of its calls has its result or waits in exactly one batch, never
both.  Two facts carry it across: identifiers are never reused (`Distinct`,
`Before`: they begin with the number of the iteration), and a batch of several calls
is readonly (`Alone`).  A cancelled run may leave calls without results; such a
transcript is never sent, because a run that is cancelled begins no further
iteration.  The longest part of the proof is compression: wherever the cut falls,
what is left behind it is a run of results that lost their call, which
`_fix_tool_pairs` finds because no other call has their identifier, and then
messages with all their results, so that no stub is needed (`FixedIsWhole`).
`Picked`, `WithStubs` and `Batched` are recursive functions; what they compute is
proved as for `SumTo`.

### Market data

Assumptions: `ClockAssumption` (the minimum interval is positive:
`resolve_min_interval` ignores any other) and `RequestAssumption` (a backtest has
codes).  The requests, the loaders that are usable and what fails are arbitrary;
the declarations of `MarketLoaders` are those of the code.

* `CacheIsTrue`: every entry is the frame its key describes.  The key
  names the loader, the symbol as filed, the bars that loader really makes of the
  interval, and the range, so a hit is as good as a fetch; `HoldsTruth` says the
  same of the frame in a caller's hands between fetch and storage, and of all it
  has collected.  Whether the bars are settled is part of the frame and is fixed
  when it is fetched.  A put across midnight may store one that is not, so an entry
  is known to be settled only when its range was over before the first day of the
  run (`IsFrame`).
* `KeepsSource`: the groups of a backtest's plan and the results so far have
  disjoint markets (`PlanIsApart`), and a batch comes from one loader
  (`BatchIsOne`).  So whether a whole group falls back or none, no market is mixed.
  A tool asked for local files has a plan of one local group (`StaysLocal`).
* `Spaced`: the slots of a host are apart and have a last one, which is what a
  new reservation is compared with; each caller that is about to fire has a slot of
  its own.

### The worker

`WorkerAssumption` is the only assumption.  `AnswersAreHonest` is shown of each tool in
turn, whatever the tools remember and whichever requests fail.  For
`CompletionsAreGrounded`, `WorkerInv` adds that a call that counted and a written report
are the work of a tool that gave no recognised error, and that only an attempt that
has returned is completed.  What `_report_written` finds is a set (`Findings`),
because reading the file may fail; the summary on disk is the one returned where it
could be written, and the property says so.  A retry starts over with the files of the attempt before; the calls that
counted in an earlier attempt count for it too, as the property says.

### The live gate

`GateAssumption` says that ceilings and adjustments are integers (no limit and the
leverage "none" have one of their own; a value that is not a number takes the
path the model gives to the instruments), that quantities are not negative and
that the calls, the proposals and the commit requests are numbered.  Nothing in it
bounds how many of them overlap.  `IInv` carries through every wait of a call what
was true when it was checked:

* `FilesType`, `CommitType`, `CallsType`: the caps of a mandate lie within the
  profile shown and the ceilings (`IsMandate`); every call past the gate holds such a
  mandate (`IsPassed`), so a recommit under way does not matter to it.
* `WindowInv`: a call that passed the gate did so before the sentinel that stands
  was written.
* `TraceInv`: a mandate, on file or in a call's hands, is the document of the commit
  request it is named for, also when two requests shared the temporary file.
* `SpentInv`: a request that has returned has its consent, its proposal is gone, and
  one that begins afterwards has another.
* `CountInv`, with `BeforeInv`: the counter lies between the placements no other
  call overlapped and the increments of the calls that ended, and a count carried
  from read to write lies between the same; the calls a call was not overlapped by
  are those it has in `before`.

`ExposureHolds` is an action property and follows from `IInv` before and after the
fill: the amount a purchase was checked at and the positions it read are still in
its call.

`ContractKept` maps the files and the broker's book to the contract's view
(`AuthorityShown`, `OrderShown`); every step of a call is one abstract step or a
stutter, every commit, halt and midnight at most a change of authority; an order that
lands after its process has died is one that was admitted.  So what
`LiveRuntime` relies on holds of the gate at every size.

### The live runner

`RuntimeAssumption` is the only assumption: who may place orders and that the
calls are finitely many; what fails, who trades behind the gate, how often the
process dies and which of its orders land after that is arbitrary.  Both theorems are about a value that is read at the
broker and used later.

* `SweepInv` says at each step of a sweep what may differ from what it has read.
  While it cancels, what rests is still on its list or came late; nothing is
  closed before the closing order; the position it read is the one held, unless a
  late order has been filled since, because by then only late orders rest.  After
  the sweep the closing order at work is exactly what is held.  `LatchInv` (one
  sweep in a life; a crash that loses the latch counts as a failure) keeps a
  second sweep from closing the position again, and `RunnerInv` (a tick runs only
  where there has been a mandate) is why `flatten_on_halt` is really consulted.
* `RecordInv` accounts for the position before the first sweep: it is the recorded
  one and the net of all fills since, and while a reconciliation compares, the one
  it read and the net of the fills that came in between.  A turn opens only when
  the two readings agree, so the fills in between are all that is unaccounted for.

### Only model-checked

* Liveness under fairness (`ExecutionsEnd`, `OutcomeArrives`, `MessagesAnswered`,
  `RunsEnd`, `WorkerEnds`, `RequestsEnd`, `RunnerResponds`), which is out of the
  prover's reach.
* `PrefixesAreUnique`, the other conjunct of `RegistryIsFaithful`.  A suffix is made
  by joining strings, and that a free one exists is a fact about strings and hashes
  the provers know nothing of.

## 6. What is not modelled

* Input, output and formatting: gateway conversion, prompts, reports, command
  lines, migrations, the construction of providers, configuration.
* Numbers: indicators, alphas, pattern detection, the statistics of the
  backtester.  They are floating-point formulas over data frames without state
  between calls, and TLC has no use for them.
* Code that nothing reaches: `BudgetManager` is never used, and
  `wrap_live_broker_tools` is not reached because `build_registry` passes over
  live brokers first.
* Parts of modelled components: matching prompts to presets and formatting in
  the swarm tool; read-only queries; microcompaction, which rewrites the text of
  old results; OAuth; market hours and price conditions of triggers (a trigger
  is a job that comes due); liquidity floors of a mandate.
* Of the hazards in `PROJECT.json`, two have no property, and a note that says why.
  Where the code runs into a hazard, the note names the definition of section 4
  that states what is lost, and the property is about what remains.

## 7. Plan

Done, in this order: the account, executions over it, the exchange, the chat, the
swarm; then the live gate and its contract, the live runtime over the contract,
goals, the agent loop over them, the tool stack, market data, and the worker over
the research tools.

The proofs followed: the account and its life cycle, the exchange, the chat, the
swarm, the goal ledger, the tool stack, the live gate, its contract and the runner
built on it, then market data, the worker, the loop and the executions.

Of the properties the runs check, all safety properties but `PrefixesAreUnique` are
theorems; `BalanceAfterIsCash` is one without a run.  The table of section 4 is the
list to work from when the code changes: each definition there is meant to become a
property of its run.  What would come next is outside section 2: the Longbridge
gateway's conversions, the budgets of governance once something uses them, and a
model of `storage` in which a connection is lost in the middle of a transaction.

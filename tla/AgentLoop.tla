----------------------------- MODULE AgentLoop -----------------------------
(***************************************************************************)
(* The ReAct loop of one agent: the transcript it sends to the model, the  *)
(* tool calls it batches, the compression of its context, the cancel flag, *)
(* and the research goal it works for, which lives in GoalStore and which  *)
(* others change while the loop runs.                                      *)
(*                                                                         *)
(* What a message says is left out; who it is from and which tool calls it *)
(* makes or answers is kept.  Sizes are left out too, so a compression may *)
(* happen at any iteration and cut the transcript anywhere.                *)
(***************************************************************************)
EXTENDS GoalStore, Sequences

CONSTANTS
  Me,                \* the turn this loop is
  Tools, Readonly, Repeatable,
  GoalTool,          \* the tool that records evidence for the goal
  Backtest,          \* the tool that leaves metrics.csv in the run directory
  Background,        \* the tool that starts a background task
  Responses,         \* sequences of tool names a response may call
  MaxIterations, GoalMaxContinuations, MaxFilterSkips,
  MaxRuns, MaxCompactions   \* bounds

ASSUME LoopAssumption ==
  /\ Me \in Turns /\ Readonly \cup Repeatable \cup {GoalTool, Backtest, Background} \subseteq Tools
  /\ "compact" \in Tools /\ Responses \subseteq Seq(Tools) /\ "turns" \in Kinds
  /\ GoalTool \notin Readonly
  /\ {MaxIterations, GoalMaxContinuations, MaxFilterSkips, MaxRuns, MaxCompactions} \subseteq Nat

VARIABLES
  pc, iter,
  messages,     \* the transcript
  batches,      \* batches of tool calls still to execute
  compacting,   \* the model asked for a compression in this response
  calledOk,     \* _called_ok
  cancel,       \* _cancel_event
  answer,       \* final_content: "none", "interim" or "final"
  filtered,     \* consecutive responses the content filter blocked
  conts, last,  \* goal_continuations and goal_last_progress
  accounted,    \* goal_turn_accounted
  metrics,      \* artifacts/metrics.csv is in the run directory
  notes,        \* background tasks: "none", "running" or "finished"
  outcome,      \* the status of the last run
  runs, compactions,
  okIn,         \* the iterations of this run in which a tool succeeded
  charged       \* runs that have charged a turn to a goal

transcript == <<messages, batches, compacting>>
loopState == <<calledOk, answer, filtered, conts, last, accounted, metrics, notes, okIn>>
bounds    == <<runs, compactions, charged>>
loopVars  == <<goalVars, pc, iter, transcript, cancel, outcome, loopState, bounds>>

System == [role |-> "system"]
User   == [role |-> "user"]
Assistant(calls) == [role |-> "assistant", calls |-> calls]
Result(id) == [role |-> "tool", id |-> id]

ToolCalls(m) == IF m.role = "assistant" THEN m.calls ELSE <<>>
IdsOf(m) == {ToolCalls(m)[i].id : i \in DOMAIN ToolCalls(m)}

-----------------------------------------------------------------------------
(* Compression of the transcript. *)

\* The elements of s at the positions in I, in their order.
Picked(s, I) ==
  LET picked[n \in 0..Len(s)] ==
        IF n = 0 THEN <<>> ELSE IF n \in I THEN Append(picked[n-1], s[n]) ELSE picked[n-1]
  IN  picked[Len(s)]

CalledIn(ms)   == UNION {IdsOf(ms[i]) : i \in DOMAIN ms}
AnsweredIn(ms) == {ms[i].id : i \in {k \in DOMAIN ms : ms[k].role = "tool"}}

\* A result for every call of m that has none in ms
Stubs(ms, m) ==
  LET open == Picked(ToolCalls(m), {i \in DOMAIN ToolCalls(m) : ToolCalls(m)[i].id \notin AnsweredIn(ms)})
  IN  [k \in DOMAIN open |-> Result(open[k].id)]

WithStubs(ms) ==
  LET filled[n \in 0..Len(ms)] ==
        IF n = 0 THEN <<>> ELSE Append(filled[n-1], ms[n]) \o Stubs(ms, ms[n])
  IN  filled[Len(ms)]

\* Results whose call was compressed away are dropped.
WithoutOrphans(ms) ==
  Picked(ms, {i \in DOMAIN ms : ms[i].role = "tool" => ms[i].id \in CalledIn(ms)})

\* Mutant: results whose call was compressed away stay.
FixToolPairsStubs(ms) == WithStubs(ms)

\* _fix_tool_pairs
FixToolPairs(ms) == WithStubs(WithoutOrphans(ms))

\* Where _auto_compact cuts the body when the budget of the tail ends at cut:
\* past the results of a call, and in the middle when nothing would be cut.
CutPoint(body, cut) ==
  IF 0 < cut
  THEN CHOOSE k \in cut..Len(body) :
         /\ k = Len(body) \/ body[k + 1].role # "tool"
         /\ \A j \in cut..(k - 1) : body[j + 1].role = "tool"
  ELSE IF Len(body) > 2 THEN Len(body) \div 2 ELSE 0

\* _auto_compact
Compacted(ms, cut) ==
  LET body == Tail(ms)
      at   == CutPoint(body, cut)
  IN  IF at = 0 THEN ms
      ELSE FixToolPairs(<<ms[1], User>> \o SubSeq(body, at + 1, Len(body)))

-----------------------------------------------------------------------------
(* The run. *)

\* run: per-run state is reset, the run directory and its files are kept, and
\* the session's goal is read once.
Start ==
  /\ pc = "idle" /\ runs < MaxRuns
  /\ pc' = "top" /\ iter' = 0 /\ runs' = runs + 1
  /\ messages' = <<System, User>> /\ batches' = <<>> /\ compacting' = FALSE
  /\ cancel' = FALSE /\ calledOk' = {} /\ answer' = "none" /\ filtered' = 0
  /\ conts' = 0 /\ last' = <<0, 0>> /\ accounted' = FALSE
  /\ okIn' = [t \in Tools |-> {}] /\ outcome' = "none"
  /\ captured' = [captured EXCEPT ![Me] = get_current_goal(SessionOf[Me])]
  /\ UNCHANGED <<status, owner, budget, used, objective, criterion, evidence, call, resumed,
                 metrics, notes, compactions, charged>>

\* cancel(): any thread, any time
Cancel ==
  /\ ~ cancel /\ cancel' = TRUE
  /\ UNCHANGED <<goalVars, pc, iter, transcript, outcome, loopState, bounds>>

\* run() returns, and its local state is gone.
Return(result) ==
  /\ pc' = "idle" /\ outcome' = result
  /\ messages' = <<>> /\ batches' = <<>> /\ compacting' = FALSE
  /\ iter' = 0 /\ conts' = 0 /\ last' = <<0, 0>> /\ filtered' = 0 /\ accounted' = FALSE
  /\ UNCHANGED <<goalVars, cancel, calledOk, answer, metrics, notes, okIn, bounds>>

\* An exception anywhere in the loop ends the run as failed.
Fail == Return("failed")

\* drain_notifications and the message made of what it returns
Drained(ms) == IF notes = "finished" THEN Append(ms, User) ELSE ms

\* The wrap-up nudge
Nudged(ms) ==
  LET at == (MaxIterations * 4) \div 5
  IN  IF iter' = at /\ 1 < at /\ at < MaxIterations THEN Append(ms, User) ELSE ms

\* The top of the loop: the limit, the cancel flag, notifications, the
\* compression that a large transcript forces, the nudge.
TopEnds ==
  /\ pc = "top" /\ (iter = MaxIterations \/ cancel)
  /\ pc' = "end"
  /\ UNCHANGED <<goalVars, iter, transcript, cancel, outcome, loopState, bounds>>

Top ==
  /\ pc = "top" /\ iter < MaxIterations /\ ~ cancel
  /\ iter' = iter + 1
  /\ notes' = IF notes = "finished" THEN "none" ELSE notes
  /\ \/ /\ messages' = Nudged(Drained(messages)) /\ UNCHANGED compactions
     \/ /\ compactions < MaxCompactions /\ compactions' = compactions + 1
        /\ \E cut \in 0..(Len(Drained(messages)) - 1) :
             messages' = Nudged(Compacted(Drained(messages), cut))
  /\ pc' = "stream"
  /\ UNCHANGED <<goalVars, batches, compacting, cancel, outcome, calledOk, answer, filtered, conts,
                 last, accounted, metrics, okIn, runs, charged>>

\* Mutant: a retry that fails is retried.
StreamFailsForever ==
  /\ pc \in {"stream", "retry"}
  /\ pc' = IF pc = "stream" THEN "retry" ELSE "stream"
  /\ UNCHANGED <<goalVars, iter, transcript, cancel, outcome, loopState, bounds>>

\* The provider fails: once is retried when it is transient, else the run fails.
StreamFails ==
  /\ pc \in {"stream", "retry"}
  /\ \/ /\ pc = "stream" /\ pc' = "retry"
        /\ UNCHANGED <<goalVars, iter, transcript, cancel, outcome, loopState, bounds>>
     \/ Fail

\* Cancelled while the model was answering: the answer is discarded.
StreamCancelled ==
  /\ pc \in {"stream", "retry"} /\ cancel
  /\ pc' = "end"
  /\ UNCHANGED <<goalVars, iter, transcript, cancel, outcome, loopState, bounds>>

TurnDelta == [k \in Kinds |-> IF k = "turns" /\ accounted THEN 0 ELSE 1]

\* The response's usage is charged to the goal the run began with; a goal
\* that is no longer current refuses it, and the loop carries on.
Charge ==
  LET g == captured[Me]
  IN  \/ /\ g # None /\ account_usage(SessionOf[Me], g, g, TurnDelta)
         /\ accounted' = TRUE
         /\ charged' = charged + TurnDelta["turns"]
      \/ /\ g = None \/ ~ MutableGoal(SessionOf[Me], g, g)
         /\ UNCHANGED <<goalVars, accounted, charged>>

\* The content filter's circuit breaker
Trips(n) == n >= MaxFilterSkips

\* A response blocked by the content filter
Filtered ==
  /\ pc \in {"stream", "retry"} /\ ~ cancel
  /\ Charge
  /\ filtered' = filtered + 1
  /\ pc' = IF Trips(filtered + 1) THEN "end" ELSE "top"
  /\ messages' = IF Trips(filtered + 1) THEN messages ELSE Append(messages, System)
  /\ UNCHANGED <<iter, batches, compacting, cancel, outcome, calledOk, answer, conts, last, metrics,
                 notes, okIn, runs, compactions>>

\* goal_progress_tuple: covered criteria, then rows of evidence
Progress(g) ==
  <<Cardinality({c \in Criteria : criterion[g][c] # "pending"}),
    Cardinality({e \in Evidence : evidence[e].goal = g})>>

Exceeds(p, q) == p[1] > q[1] \/ (p[1] = q[1] /\ p[2] > q[2])

\* goal_needs_continuation
NeedsContinuation(st) == st \in {"active", "needs_refresh", "insufficient_evidence"}

\* Neither at the limit nor without progress since the last continuation
MayContinue(p) == conts < GoalMaxContinuations /\ (conts > 0 => Exceeds(p, last))

\* A response without tool calls: empty, an answer, or an answer that does
\* not end the run because its goal, read after the charge, is still open.
AnswerText ==
  LET g == captured[Me]
      goes == g # None /\ NeedsContinuation(status'[g]) /\ MayContinue(Progress(g))
  IN  /\ pc \in {"stream", "retry"} /\ ~ cancel
      /\ Charge
      /\ filtered' = 0
      /\ \/ /\ answer' = "none" /\ pc' = "end"
            /\ UNCHANGED <<messages, conts, last>>
         \/ /\ ~ goes /\ answer' = "final" /\ pc' = "end"
            /\ UNCHANGED <<messages, conts, last>>
         \/ /\ goes /\ answer' = "interim" /\ pc' = "top"
            /\ messages' = messages \o <<Assistant(<<>>), User>>
            /\ conts' = conts + 1 /\ last' = Progress(g)
      /\ UNCHANGED <<iter, batches, compacting, cancel, outcome, calledOk, metrics, notes, okIn, runs,
                     compactions>>

\* A response with tool calls; tools are not offered in the last iteration.
CallTools ==
  /\ pc \in {"stream", "retry"} /\ ~ cancel /\ iter < MaxIterations
  /\ Charge
  /\ filtered' = 0
  /\ \E r \in Responses :
       LET calls == [i \in DOMAIN r |-> [id |-> <<iter, i>>, tool |-> r[i]]]
       IN  messages' = Append(messages, Assistant(calls)) /\ batches' = <<calls>>
  /\ pc' = "process"
  /\ UNCHANGED <<iter, compacting, cancel, outcome, calledOk, answer, conts, last, metrics, notes, okIn,
                 runs, compactions>>

\* Blocked: the tool has succeeded in an earlier response and is not repeatable
Duplicate(t) == t \in calledOk /\ t \notin Repeatable

\* Consecutive readonly calls form a batch, every other call one of its own.
Joined(bs, c) ==
  IF c.tool \in Readonly /\ bs # <<>> /\ bs[Len(bs)][1].tool \in Readonly
  THEN [bs EXCEPT ![Len(bs)] = Append(bs[Len(bs)], c)] ELSE Append(bs, <<c>>)

Batched(calls) ==
  LET bs[n \in 0..Len(calls)] == IF n = 0 THEN <<>> ELSE Joined(bs[n-1], calls[n])
  IN  bs[Len(calls)]

\* Calls answered without executing anything
Answered(calls) == {i \in DOMAIN calls : calls[i].tool = "compact" \/ Duplicate(calls[i].tool)}

AnswersOf(calls) ==
  LET done == Picked(calls, Answered(calls))
  IN  [i \in DOMAIN done |-> Result(done[i].id)]

\* _process_tool_calls, up to the first batch
Process ==
  LET calls == batches[1]
      todo  == Picked(calls, DOMAIN calls \ Answered(calls))
  IN  /\ pc = "process"
      /\ IF cancel
         THEN batches' = <<>> /\ UNCHANGED <<messages, compacting>>
         ELSE /\ batches' = Batched(todo)
              /\ messages' = messages \o AnswersOf(calls)
              /\ compacting' = \E i \in DOMAIN calls : calls[i].tool = "compact"
      /\ pc' = IF ~ cancel /\ Len(todo) = 1 THEN "single" ELSE "batch"
      /\ UNCHANGED <<goalVars, iter, cancel, outcome, loopState, bounds>>

\* Mutant: a batch is started whatever the cancel flag says.
MayLaunchAlways == TRUE

\* _batch_execute: no batch starts after a cancel.  A call that is alone in
\* its response is not checked again.
MayLaunch == ~ cancel \/ pc = "single"
Launching == pc \in {"batch", "single"}

\* _invoke_tool: each call succeeds or answers with an error, which for a
\* readonly tool includes its timeout; the calls that succeed
Successes(b) == SUBSET DOMAIN b

\* _finalize_tool_result: the results, in the order of the calls
ResultsOf(b) == [i \in DOMAIN b |-> Result(b[i].id)]

\* A batch runs, its calls in parallel.
RunBatch ==
  /\ Launching /\ batches # <<>> /\ MayLaunch /\ pc' = "batch"
  /\ ~ \E i \in DOMAIN batches[1] : batches[1][i].tool = GoalTool
  /\ \E ok \in Successes(batches[1]) :
       LET good == {batches[1][i].tool : i \in ok}
       IN  /\ messages' = messages \o ResultsOf(batches[1])
           /\ calledOk' = calledOk \cup good
           /\ okIn' = [t \in Tools |-> IF t \in good THEN okIn[t] \cup {iter} ELSE okIn[t]]
           /\ metrics' = (metrics \/ Backtest \in good)
           /\ notes' = IF Background \in good THEN "running" ELSE notes
  /\ batches' = Tail(batches)
  /\ UNCHANGED <<goalVars, iter, compacting, cancel, outcome, answer, filtered, conts, last, accounted, bounds>>

\* add_goal_evidence is a write tool, so it runs alone: it reads the snapshot ...
EvidenceReads ==
  /\ Launching /\ batches # <<>> /\ MayLaunch /\ batches[1][1].tool = GoalTool
  /\ IF get_current_goal(SessionOf[Me]) = None THEN UNCHANGED call
     ELSE \E named \in BOOLEAN, c \in Criteria : AddEvidenceRead(Me, named, named, c)
  /\ pc' = "evidence"
  /\ UNCHANGED <<status, owner, budget, used, objective, criterion, evidence, captured, resumed,
                 iter, transcript, cancel, outcome, loopState, bounds>>

\* ... and writes; the run directory that the loop adds to the arguments
\* makes every such row verified.
EvidenceWrites ==
  LET done == evidence' # evidence
  IN  /\ pc = "evidence"
      /\ IF call[Me] = NoCall THEN UNCHANGED goalVars
         ELSE \E s \in Sources : AddEvidenceWrite(Me, VerificationStatus(TraceFields(s, TRUE)))
      /\ messages' = Append(messages, Result(batches[1][1].id))
      /\ calledOk' = IF done THEN calledOk \cup {GoalTool} ELSE calledOk
      /\ okIn' = IF done THEN [okIn EXCEPT ![GoalTool] = @ \cup {iter}] ELSE okIn
      /\ batches' = Tail(batches) /\ pc' = "batch"
      /\ UNCHANGED <<iter, compacting, cancel, outcome, answer, filtered, conts, last, accounted, metrics, notes, bounds>>

\* All batches are done, or a cancel stops the rest; the compression the
\* model asked for comes last.
ToolsDone ==
  /\ pc = "batch" /\ (batches = <<>> \/ ~ MayLaunch)
  /\ batches' = <<>>
  /\ pc' = IF compacting THEN "squeeze" ELSE "top"
  /\ UNCHANGED <<goalVars, iter, messages, compacting, cancel, outcome, loopState, bounds>>

Squeeze ==
  /\ pc = "squeeze"
  /\ \/ Fail
     \/ /\ \E cut \in 0..(Len(messages) - 1) : messages' = Compacted(messages, cut)
        /\ compacting' = FALSE /\ pc' = "top"
        /\ UNCHANGED <<goalVars, iter, batches, cancel, outcome, loopState, bounds>>

\* The final status
FinalStatus ==
  IF cancel THEN "cancelled"
  ELSE IF Trips(filtered) THEN "failed"
  ELSE IF metrics \/ answer # "none" THEN "success" ELSE "failed"

End ==
  /\ pc = "end"
  /\ Return(FinalStatus)

\* A background task ends and leaves its notification.
BackgroundEnds ==
  /\ notes = "running" /\ notes' = "finished"
  /\ UNCHANGED <<goalVars, pc, iter, transcript, cancel, outcome, calledOk, answer, filtered, conts,
                 last, accounted, metrics, okIn, bounds>>

\* Other turns and hosts of the session
Others ==
  /\ \/ \E s \in Sessions, g \in Goals, b \in [Kinds -> Budgets] : replace_goal(s, g, b, "research")
     \/ \E s \in Sessions, g \in Goals, next \in Settable : update_status(s, g, g, next) /\ UNCHANGED call
  /\ UNCHANGED <<pc, iter, transcript, cancel, outcome, loopState, bounds>>

LoopInit ==
  /\ GoalInit
  /\ pc = "idle" /\ iter = 0 /\ messages = <<>> /\ batches = <<>> /\ compacting = FALSE
  /\ calledOk = {} /\ cancel = FALSE /\ answer = "none" /\ filtered = 0 /\ conts = 0 /\ last = <<0, 0>>
  /\ accounted = FALSE /\ metrics = FALSE /\ notes = "none" /\ outcome = "none"
  /\ runs = 0 /\ compactions = 0 /\ okIn = [t \in Tools |-> {}] /\ charged = 0

LoopStep ==
  \/ TopEnds \/ Top \/ StreamFails \/ StreamCancelled \/ Filtered \/ AnswerText \/ CallTools
  \/ Process \/ RunBatch \/ EvidenceReads \/ EvidenceWrites \/ ToolsDone \/ Squeeze \/ End

LoopNext == Start \/ LoopStep \/ Cancel \/ BackgroundEnds \/ Others

LoopSpec == LoopInit /\ [][LoopNext]_loopVars

\* The loop's thread runs, the provider answers or fails, and every tool
\* returns: a readonly tool is cut off by its timeout, a write tool has to.
LoopFairSpec == LoopSpec /\ WF_loopVars(LoopStep)

-----------------------------------------------------------------------------
\* What the provider is sent is always well formed: the results that follow
\* an assistant message are those of its calls, one each, and there are no
\* others.  Blocked duplicates, cancels, failed tools, notifications and
\* compressions cut anywhere all keep it so.
TranscriptPairs ==
  pc \in {"stream", "retry"} =>
    /\ \A i \in DOMAIN messages :
         LET n == Len(ToolCalls(messages[i]))
         IN  /\ i + n <= Len(messages)
             /\ \A j \in 1..n : messages[i + j].role = "tool"
             /\ {messages[i + j].id : j \in 1..n} = IdsOf(messages[i])
    /\ \A j \in DOMAIN messages : messages[j].role = "tool" =>
         \E i \in 1..(j - 1) : j <= i + Len(ToolCalls(messages[i]))

\* A tool that is not repeatable succeeds in at most one response of a run,
\* even when its results have been compressed away.
SucceedsInOneResponse ==
  \A t \in Tools \ (Repeatable \cup {"compact"}) : Cardinality(okIn[t]) <= 1

\* A run charges its goal one turn at most, however many responses, retries
\* and continuations it takes.
TurnChargedOnce == charged <= runs

\* Once cancelled, a run begins no iteration, starts no further batch of
\* tools and does not end in success; what is under way is finished.
CancelIsFinal ==
  cancel /\ cancel' =>
    /\ pc = "top" => pc' # "stream"
    /\ pc = "batch" /\ batches # <<>> => <<messages, call>>' = <<messages, call>>
    /\ outcome' = "success" => outcome = "success"

\* A run works on past its first continuation only while the ledger grows.
ContinuedByProgress == conts' > conts /\ conts > 0 => Exceeds(last', last)

\* The limits of a run hold at every step, whoever changes the goal or sets
\* the cancel flag in between: a cancel is final, continuations need
\* progress, and tools and turns count once.
RunKeepsItsLimits ==
  [][CancelIsFinal /\ ContinuedByProgress /\ SucceedsInOneResponse' /\ TurnChargedOnce']_loopVars

\* Every run ends.
RunsEnd == pc = "top" ~> pc = "idle"

=============================================================================

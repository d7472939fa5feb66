---------------------------- MODULE SwarmWorker ----------------------------
(* One task of a swarm run inside its worker: run_worker's ReAct loop over an *)
(* LLM and the research tools, and the attempts _run_worker_with_retries      *)
(* makes of it.  Every attempt starts with fresh locals, but report.md and    *)
(* summary.md in the agent's artifact directory, and what the process's       *)
(* tools remember, survive it.                                                *)
(*                                                                            *)
(* A text is reduced to how the loop classifies it: empty, blank, too short   *)
(* to be remembered, a plan that is only a plan, a text with the marks of     *)
(* unparsed calls or invented data, or an analysis; "placeholder" is the      *)
(* loop's own wording for a missing summary.                                  *)
EXTENDS Naturals, ResearchTools

CONSTANTS
    MaxIterations,   \* max_iterations of the agent
    MaxCalls,        \* tool calls in one response, at most
    StreamRetries,   \* _STREAM_MAX_RETRIES
    MaxSkips,        \* MAX_CONSECUTIVE_CONTENT_FILTER_SKIPS
    MaxNudges,       \* _MAX_PLAN_ONLY_NUDGES
    MaxRetries,      \* max_retries of the agent
    Texts            \* the kinds of text a response may hold

AllTexts == {"", "blank", "short", "plan", "flawed", "analysis"}

ASSUME WorkerAssumption ==
    /\ MaxIterations \in Nat \ {0} /\ MaxCalls \in Nat \ {0} /\ MaxSkips \in Nat \ {0}
    /\ StreamRetries \in Nat /\ MaxNudges \in Nat /\ MaxRetries \in Nat
    /\ Texts \subseteq AllTexts

VARIABLES
    data,       \* _is_data_agent: the agent has a tool beyond the generic kit
    attempt,    \* the attempt of _run_worker_with_retries
    w,          \* the locals of run_worker
    report,     \* report.md: "none" or its text
    summary,    \* summary.md
    result,     \* the WorkerResult of the attempt
    memory,       \* what the process's tools remember
    answer,     \* the tool call just made: its answer, and the requests that failed
    evidence    \* some tool call of this task, in any attempt, was not an error

workerVars == <<data, attempt, w, report, summary, result, memory, answer, evidence>>

(* What a tool answers to some call, the requests of it that failed, and what *)
(* the process remembers afterwards.                                          *)
NoAnswer == [reply |-> Refused, raised |-> {}]

Outcome(tool, a, net, m) ==
    LET reply == Execute(tool, a, net, m) IN
    [answer |-> [reply |-> reply,
                 raised |-> {e \in reply.asked \cap Uses[tool] : net[e] = "raises"}],
     memory |-> Remembered(tool, a, net, m)]

Outcomes ==
    {[tool |-> tool, before |-> m,
      after |-> {Outcome(tool, a, net, m) : a \in Params, net \in [Uses[tool] -> Payloads]}] :
         tool \in Tools, m \in Memos}

NoResult == [status |-> "none", summary |-> ""]
Locals == [pc |-> "start", iteration |-> 0, tries |-> 0, skips |-> 0, nudges |-> 0,
           calls |-> FALSE, last |-> "", said |-> {}, todo |-> 0]

WorkerInit ==
    /\ data \in BOOLEAN
    /\ attempt = 1 /\ w = Locals
    /\ report = "none" /\ summary = "none"
    /\ result = NoResult /\ answer = NoAnswer
    /\ memory = NoMemo /\ evidence = FALSE

Kept == <<data, attempt, report, memory, evidence>>

-----------------------------------------------------------------------------
(* Longer than the 20 characters of last_assistant_content and the 100 of     *)
(* _best_summary.                                                             *)
Long(text) == text \in {"plan", "flawed", "analysis"}

Or(text, other) == IF text = "" THEN other ELSE text

(* A report.md with any text, and whether _report_written finds it: a read    *)
(* that raises counts as no report.                                           *)
ReportWritten == report \notin {"none", "blank", ""}
Findings == IF ReportWritten THEN BOOLEAN ELSE {FALSE}

(* _resolve_summary: the report replaces the summary, if it can be read. *)
ResolveSummary(text) == {IF found THEN report ELSE text : found \in Findings}

(* _best_summary: the longest of the long assistant texts. *)
BestSummaries == IF w.said = {} THEN {Or(w.last, "placeholder")} ELSE w.said

(* Mutant: what the text says is all that counts. *)
ClassifyTextOnly(text, found) == text \in {"", "blank", "flawed", "plan"}

(* _classify_deliverable gives a reason not to accept the summary. *)
Rejected(text, found) ==
    \/ text \in {"", "blank", "flawed", "plan"}
    \/ data /\ ~found /\ ~w.calls

(* _is_error_result: only an envelope whose "status" is "error"; the tools    *)
(* that answer {"ok": false} are not recognised.                              *)
IsErrorResult(said) == said = "error"

Return(status, text) ==
    /\ w' = [w EXCEPT !.pc = "returned"]
    /\ result' = [status |-> status, summary |-> text]

(* _write_summary: a failure is logged and swallowed.  It leaves the old file *)
(* or, when the file was opened, one cut short.                               *)
WriteSummary(text) == summary' \in {text, summary, ""}

(* The attempt returns the summary it could write, or could not. *)
Deliver(status, text) == Return(status, text) /\ WriteSummary(text)

-----------------------------------------------------------------------------
(* The prompt is built, or its template cannot be rendered. *)
RenderPrompt ==
    /\ w.pc = "start"
    /\ \/ /\ w' = [w EXCEPT !.pc = "top"] /\ UNCHANGED result
       \/ Return("failed", "")
    /\ UNCHANGED <<Kept, summary, answer>>

(* The top of the loop: iterations left, and neither limit is reached. *)
Iterates ==
    /\ w.pc = "top" /\ w.iteration < MaxIterations
    /\ w' = [w EXCEPT !.pc = "stream", !.tries = 0]
    /\ answer' = NoAnswer
    /\ UNCHANGED <<Kept, summary, result>>

TimesOut ==
    /\ w.pc = "top" /\ w.iteration < MaxIterations
    /\ \E text \in BestSummaries : \E told \in ResolveSummary(text) : Deliver("timeout", told)
    /\ answer' = NoAnswer
    /\ UNCHANGED Kept

TooLarge ==
    /\ w.pc = "top" /\ w.iteration < MaxIterations
    /\ \E told \in ResolveSummary(Or(w.last, "placeholder")) : Deliver("token_limit", told)
    /\ answer' = NoAnswer
    /\ UNCHANGED Kept

(* The last iteration is offered no tools. *)
Offered == w.iteration < MaxIterations - 1

(* ProviderStreamError.retryable, from the status code of the failure, if any *)
Retryable(code) == code \notin {"400", "401", "403", "404", "422"}

(* Mutant: a failure is retried from the top, where the count starts again. *)
StreamFailsForever ==
    /\ w.pc = "stream"
    /\ \/ /\ w' = [w EXCEPT !.pc = "top"] /\ UNCHANGED result
       \/ \E told \in ResolveSummary(w.last) : Return("failed", told)
    /\ UNCHANGED <<Kept, summary, answer>>

(* _stream_once raises: a retryable failure is retried StreamRetries times,   *)
(* any other ends the attempt, which leaves summary.md as it was.             *)
StreamFails ==
    /\ w.pc = "stream"
    /\ \E code \in {"none", "408", "429", "500", "400"} :
         IF Retryable(code) /\ w.tries < StreamRetries
         THEN w' = [w EXCEPT !.tries = @ + 1] /\ UNCHANGED result
         ELSE \E told \in ResolveSummary(w.last) : Return("failed", told)
    /\ UNCHANGED <<Kept, summary, answer>>

(* What the provider streams: text, native tool calls (only if it was offered *)
(* tools), calls written as text, and its finish reason, which the chunks of  *)
(* some providers repeat; nothing at all is an empty response.                *)
Streams ==
    [text : Texts, native : IF Offered THEN 0..MaxCalls ELSE {0}, dsml : 0..MaxCalls,
     finish : {"stop", "content_filter", "content_filter twice"}]

(* _parse_dsml_tool_calls: only a text that is nothing but calls. *)
DsmlCalls(s) == IF s.text = "" THEN s.dsml ELSE 0

(* _parse_response: native calls first; is_content_filter_triggered sees the  *)
(* reason as it was streamed, so that a repeated one is not recognised.       *)
ParseResponse(s) ==
    [text |-> s.text,
     calls |-> IF s.native > 0 THEN s.native ELSE DsmlCalls(s),
     blocked |-> s.finish = "content_filter"]

Tracked(text) == IF Long(text) THEN text ELSE w.last

SkipsLeft == w.skips + 1 < MaxSkips

(* The provider blocked the response: skipped, unless too many in a row. *)
Filtered(text) ==
    /\ IF ~SkipsLeft
       THEN \E told \in ResolveSummary(Tracked(text)) : Deliver("failed", told)
       ELSE /\ w' = [w EXCEPT !.pc = "top", !.iteration = @ + 1, !.skips = @ + 1,
                              !.last = Tracked(text)]
            /\ UNCHANGED <<summary, result>>
    /\ UNCHANGED <<Kept, answer>>

(* A text that opens like a plan is sent back for its second phase, a bounded *)
(* number of times.                                                           *)
PlanOnly(text) == text = "plan" /\ w.nudges < MaxNudges

Nudged(text) ==
    /\ PlanOnly(text)
    /\ w' = [w EXCEPT !.pc = "top", !.iteration = @ + 1, !.nudges = @ + 1, !.skips = 0,
                      !.last = Tracked(text), !.said = @ \cup {text}]
    /\ UNCHANGED <<Kept, summary, result, answer>>

(* The summary is resolved, written and judged; report.md is read twice. *)
Concludes(text) ==
    \E told \in ResolveSummary(text), found \in Findings :
        Deliver(IF Rejected(told, found) THEN "incomplete" ELSE "completed", told)

(* A response without tool calls is the final one. *)
Finishes(text) ==
    /\ ~PlanOnly(text)
    /\ Concludes(Or(text, Or(Tracked(text), "placeholder")))
    /\ UNCHANGED <<Kept, answer>>

RequestsCalls(text, n) ==
    /\ w' = [w EXCEPT !.pc = "tools", !.todo = n, !.skips = 0, !.last = Tracked(text),
                      !.said = IF Long(text) THEN @ \cup {text} ELSE @]
    /\ UNCHANGED <<Kept, summary, result, answer>>

(* A call was answered: it counts as data unless it is an error or a skill.   *)
Counted(said, counts) ==
    /\ w' = [w EXCEPT !.todo = @ - 1, !.calls = @ \/ (counts /\ ~IsErrorResult(said)),
                      !.pc = IF w.todo = 1 THEN "top" ELSE "tools",
                      !.iteration = IF w.todo = 1 THEN @ + 1 ELSE @]
    /\ evidence' = (evidence \/ (counts /\ ~IsErrorResult(said)))

CallTool(tool) ==
    /\ w.pc = "tools" /\ data
    /\ \E known \in Outcomes :
         /\ known.tool = tool /\ known.before = memory
         /\ \E o \in known.after :
              /\ answer' = o.answer /\ memory' = o.memory
              /\ Counted(o.answer.reply.said, TRUE)
    /\ UNCHANGED <<data, attempt, report, summary, result>>

(* write_file of report.md *)
WriteReport(text) ==
    /\ w.pc = "tools"
    /\ report' = text
    /\ answer' = NoAnswer /\ Counted("ok", TRUE)
    /\ UNCHANGED <<data, attempt, summary, result, memory>>

(* load_skill; a tool that raised or is not registered; one the policy        *)
(* denies, whose message is no envelope.                                      *)
CallOther ==
    /\ w.pc = "tools"
    /\ \/ Counted("ok", FALSE) \/ Counted("error", TRUE) \/ Counted("denied", TRUE)
    /\ answer' = NoAnswer
    /\ UNCHANGED <<data, attempt, report, summary, result, memory>>

(* The loop ends without a final response. *)
LimitReached ==
    /\ w.pc = "top" /\ w.iteration = MaxIterations
    /\ \E text \in BestSummaries : Concludes(text)
    /\ answer' = NoAnswer
    /\ UNCHANGED Kept

(* Only a failed attempt is repeated. *)
Retries ==
    /\ w.pc = "returned" /\ result.status = "failed" /\ attempt <= MaxRetries
    /\ attempt' = attempt + 1 /\ w' = Locals /\ result' = NoResult
    /\ UNCHANGED <<data, report, summary, memory, answer, evidence>>

Ends ==
    /\ w.pc = "returned" /\ (result.status # "failed" \/ attempt > MaxRetries)
    /\ w' = [w EXCEPT !.pc = "done"]
    /\ UNCHANGED <<Kept, summary, result, answer>>

Rest == w.pc = "done" /\ UNCHANGED workerVars

-----------------------------------------------------------------------------
Responds ==
    /\ w.pc = "stream"
    /\ \E s \in Streams :
         LET response == ParseResponse(s) IN
         \/ response.blocked /\ Filtered(response.text)
         \/ ~response.blocked /\ response.calls = 0 /\ Nudged(response.text)
         \/ ~response.blocked /\ response.calls = 0 /\ Finishes(response.text)
         \/ ~response.blocked /\ response.calls > 0 /\
               RequestsCalls(response.text, response.calls)

CallsTool ==
    \/ \E tool \in Tools : CallTool(tool)
    \/ \E text \in Texts : WriteReport(text)
    \/ CallOther

WorkerStep ==
    \/ RenderPrompt \/ Iterates \/ TimesOut \/ TooLarge \/ StreamFails \/ Responds
    \/ CallsTool \/ LimitReached \/ Retries \/ Ends

WorkerNext == WorkerStep \/ Rest

(* The provider and the tools answer or raise: every request has a timeout.   *)
WorkerSpec == WorkerInit /\ [][WorkerNext]_workerVars /\ WF_workerVars(WorkerStep)

-----------------------------------------------------------------------------
(* What a task hands downstream as completed shows none of the signs that     *)
(* _classify_deliverable rejects, and a data agent's task has made a call     *)
(* that did not answer with an error envelope, in this or an earlier attempt. *)
(* Such a call may be the write_file of the report, a denial or an answer     *)
(* {"ok": false}; and the text need not be on disk, for a failure to write    *)
(* summary.md is swallowed.                                                   *)
CompletionsAreGrounded ==
    result.status = "completed" =>
        /\ ~(result.summary \in {"", "blank", "flawed", "plan"})
        /\ data => evidence

(* worker.py:920, _report_written: "True iff a non-empty report.md was        *)
(* actually produced by the worker", so that a data agent's completed attempt *)
(* made a call of its own.  The report.md of a failed attempt is not removed: *)
(* the next one completes with it and has done nothing.                       *)
ReportsAreTheWorkersOwn == result.status = "completed" /\ data => w.calls

(* Sources a tool documents as optional: their failure is not reported. *)
BestEffort == {"ths", "aliyun", "engines", "sogou", "bing"}

(* No tool passes a failed request off as an empty result: an answer that     *)
(* says ok names every mandatory request that failed, never consists of       *)
(* failures alone, and holds rows only of requests that were answered; a      *)
(* refusal holds none (the except clauses of the tools' execute methods).     *)
AnswersAreHonest ==
    LET reply == answer.reply IN
    /\ reply.said # "ok" => reply.found = {}
    /\ reply.said = "ok" =>
         /\ answer.raised \ BestEffort \subseteq reply.noted
         /\ reply.asked # {} /\ answer.raised = reply.asked => answer.raised \subseteq reply.noted
         /\ reply.found \cap answer.raised = {}

(* A task ends: the retries of a request, of a plan and of an attempt are all *)
(* bounded, whatever the provider does.                                       *)
WorkerEnds == <>(w.pc = "done")
=============================================================================

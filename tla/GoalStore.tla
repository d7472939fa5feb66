----------------------------- MODULE GoalStore -----------------------------
(***************************************************************************)
(* The ledger of research goals and the tools that write to it.            *)
(*                                                                         *)
(* An operation of the store is one BEGIN IMMEDIATE transaction, hence one *)
(* step.  A tool is two: it reads the current snapshot to fill in what the *)
(* model left out, and then calls the store.  Turns of the same session    *)
(* run in different processes, so anything may happen in between.          *)
(***************************************************************************)
EXTENDS Naturals, FiniteSets

CONSTANTS
  Goals, Evidence,  \* row ids; each is handed out once
  Criteria,         \* the positions of the required criteria of a goal
  Sessions,
  Turns,            \* agent turns, each a caller of the tools
  SessionOf,        \* the session a turn belongs to
  Kinds,            \* what is budgeted: tokens, turns, seconds
  Budgets,          \* the budgets a goal may be given; 0 is no budget
  MaxUsed,          \* bound on the usage charged to a goal
  Settable,         \* the statuses other than complete that turns ask for
  None

Current == {"active", "paused", "waiting_user", "needs_refresh",
            "insufficient_evidence", "compliance_blocked", "budget_limited"}
Terminal == {"complete", "blocked", "cancelled", "superseded", "usage_limited"}
CompletionResults == {"satisfied", "satisfied_with_caveat", "not_applicable_user_accepted"}

ASSUME GoalAssumption ==
  /\ SessionOf \in [Turns -> Sessions] /\ Budgets \subseteq Nat /\ MaxUsed \in Nat
  /\ Settable \subseteq (Current \cup Terminal) \ {"complete"}
  /\ None \notin Goals \cup Criteria \cup Evidence /\ Criteria # {}

VARIABLES
  status,     \* goals.status, "unused" before the row exists and "deleted" after
  owner,      \* goals.session_id
  budget, used,
  objective,  \* goals.objective: "research", or "execution" when it asks for an order
  criterion,  \* goal_criteria.status
  evidence,   \* goal_evidence rows; stray tells whose goal the row was meant for
  captured,   \* the goal id a turn read when it began
  call,       \* the tool call of a turn that has read its snapshot
  resumed     \* goals set active by hand although their budget is spent

goalVars == <<status, owner, budget, used, objective, criterion, evidence, captured, call, resumed>>

NoRow == [goal |-> None, criterion |-> None, verified |-> FALSE, stray |-> "no"]
NoCall == [op |-> "none"]
Index == Criteria \cup {None}

-----------------------------------------------------------------------------
(* What the operations read. *)

\* get_current_goal: the unique index admits one current row per session.
get_current_goal(s) ==
  IF \E g \in Goals : owner[g] = s /\ status[g] \in Current
  THEN CHOOSE g \in Goals : owner[g] = s /\ status[g] \in Current
  ELSE None

\* Mutant: a goal that is no longer current can still be written.
MutableForever(s, g, expected) ==
  g \in Goals /\ expected = g /\ owner[g] = s /\ status[g] # "deleted"

\* _require_mutable_goal
MutableGoal(s, g, expected) ==
  /\ g \in Goals /\ expected = g
  /\ owner[g] = s /\ status[g] \in Current /\ get_current_goal(s) = g

\* Mutant: the evidence of one criterion proves another.
RowAcceptedAnywhere(g, c, row) ==
  /\ row.result \in CompletionResults
  /\ row.result = "not_applicable_user_accepted" => row.notes
  /\ \A e \in row.evidence : evidence[e].goal = g
  /\ row.result # "not_applicable_user_accepted" => \E e \in row.evidence : evidence[e].verified

\* _validate_completion_audit, for the row of one required criterion
RowAccepted(g, c, row) ==
  /\ row.result \in CompletionResults
  /\ row.result = "not_applicable_user_accepted" => row.notes
  /\ \A e \in row.evidence : evidence[e].goal = g /\ evidence[e].criterion = c
  /\ row.result # "not_applicable_user_accepted" => \E e \in row.evidence : evidence[e].verified

\* _coerce_audit_rows: what a model may send for a criterion
AuditRows == [result: CompletionResults \cup {"unsatisfied"},
              evidence: SUBSET Evidence, notes: BOOLEAN]

\* reject_live_execution_objective
IsResearch(text) == text # "execution"

\* The source a piece of evidence names: a file with its hash, a run.  A
\* path or run id outside the workspace is "unsafe".
Sources == [artifact: {"none", "unsafe", "missing", "file"}, hash: {"none", "right", "wrong"},
            run: {"none", "unsafe", "gone", "dir"}]

\* _trace_fields_from_runtime: the host adds its run directory and the hash
\* of a file that is there
TraceFields(source, hosted) ==
  [source EXCEPT !.hash = IF @ = "none" /\ source.artifact = "file" THEN "right" ELSE @,
                 !.run = IF @ = "none" /\ hosted THEN "dir" ELSE @]

\* _verification_status
VerificationStatus(source) ==
  (source.artifact = "file" /\ source.hash = "right") \/ source.run = "dir"

-----------------------------------------------------------------------------
(* The store's operations. *)

\* replace_goal: the goals that are current step down
Supersede(s) ==
  [g \in Goals |-> IF owner[g] = s /\ status[g] \in Current THEN "superseded" ELSE status[g]]

replace_goal(s, g, b, text) ==
  /\ status[g] = "unused" /\ IsResearch(text)
  /\ status' = [Supersede(s) EXCEPT ![g] = "active"]
  /\ owner' = [owner EXCEPT ![g] = s]
  /\ budget' = [budget EXCEPT ![g] = b]
  /\ objective' = [objective EXCEPT ![g] = text]
  /\ UNCHANGED <<used, criterion, evidence, captured, call, resumed>>

update_goal(s, g, expected, text) ==
  /\ MutableGoal(s, g, expected) /\ IsResearch(text)
  /\ objective' = [objective EXCEPT ![g] = text]
  /\ UNCHANGED <<status, owner, budget, used, criterion, evidence, captured, call, resumed>>

Erased(s) == [e \in Evidence |-> IF evidence[e].goal # None /\ owner[evidence[e].goal] = s
                                 THEN NoRow ELSE evidence[e]]

delete_session_goals(s) ==
  /\ status' = [g \in Goals |-> IF owner[g] = s THEN "deleted" ELSE status[g]]
  /\ evidence' = Erased(s)
  /\ resumed' = {g \in resumed : owner[g] # s}
  /\ UNCHANGED <<owner, budget, used, objective, criterion, captured, call>>

\* append_evidence: an open criterion becomes covered
Cover(g, c) ==
  IF c # None /\ criterion[g][c] = "pending"
  THEN [criterion EXCEPT ![g][c] = "covered"] ELSE criterion

\* Whether evidence for g is for another goal than the turn began with, and
\* whether the call had named that goal.
Stray(t, g, guarded) ==
  IF g = captured[t] THEN "no" ELSE IF guarded THEN "guarded" ELSE "unguarded"

\* append_evidence, called by turn t; verified is _verification_status's answer
append_evidence(t, g, expected, c, verified, guarded) ==
  /\ MutableGoal(SessionOf[t], g, expected)
  /\ \E e \in Evidence :
       /\ evidence[e] = NoRow
       /\ evidence' = [evidence EXCEPT ![e] =
            [goal |-> g, criterion |-> c, verified |-> verified, stray |-> Stray(t, g, guarded)]]
  /\ criterion' = Cover(g, c)
  /\ UNCHANGED <<status, owner, budget, used, objective, captured, resumed>>

\* update_status to "complete": every required criterion has an accepted row
complete(s, g, expected, audit) ==
  /\ MutableGoal(s, g, expected)
  /\ \A c \in Criteria : RowAccepted(g, c, audit[c])
  /\ status' = [status EXCEPT ![g] = "complete"]
  /\ criterion' = [criterion EXCEPT ![g] = [c \in Criteria |-> audit[c].result]]
  /\ resumed' = resumed \ {g}
  /\ UNCHANGED <<owner, budget, used, objective, evidence, captured>>

\* update_status to any other status; the audit is only filed
update_status(s, g, expected, next) ==
  /\ MutableGoal(s, g, expected)
  /\ status' = [status EXCEPT ![g] = next]
  /\ resumed' = IF next = "active" THEN resumed \cup {g} ELSE resumed \ {g}
  /\ UNCHANGED <<owner, budget, used, objective, criterion, evidence, captured>>

\* account_usage: crosses_budget
Crosses(g, u) == \E k \in Kinds : budget[g][k] # 0 /\ u[k] >= budget[g][k]

account_usage(s, g, expected, delta) ==
  LET u == [k \in Kinds |-> used[g][k] + delta[k]]
  IN  /\ MutableGoal(s, g, expected) /\ \A k \in Kinds : u[k] <= MaxUsed
      /\ used' = [used EXCEPT ![g] = u]
      /\ status' = [status EXCEPT ![g] = IF Crosses(g, u) THEN "budget_limited" ELSE status[g]]
      /\ resumed' = IF Crosses(g, u) THEN resumed \ {g} ELSE resumed
      /\ UNCHANGED <<owner, budget, objective, criterion, evidence, captured, call>>

-----------------------------------------------------------------------------
(* The tools: the snapshot is read in one step and the store called in a    *)
(* later one.                                                               *)

\* get_current_goal_context, when a turn begins
BeginTurn(t) ==
  /\ call[t] = NoCall
  /\ captured' = [captured EXCEPT ![t] = get_current_goal(SessionOf[t])]
  /\ captured' # captured
  /\ UNCHANGED <<status, owner, budget, used, objective, criterion, evidence, call, resumed>>

\* What goal_id and expected_goal_id become: each is the id the turn was
\* shown, or left out.
Target(t, named) == IF named THEN captured[t] ELSE get_current_goal(SessionOf[t])
Expected(t, named, guarded) == IF guarded THEN captured[t] ELSE Target(t, named)

\* add_goal_evidence: criterion_index is looked up in the snapshot's goal,
\* so it is unknown to the store when goal_id names another one.
AddEvidenceRead(t, named, guarded, index) ==
  /\ call[t] = NoCall
  /\ get_current_goal(SessionOf[t]) # None
  /\ (named \/ guarded) => captured[t] # None
  /\ index = None \/ Target(t, named) = get_current_goal(SessionOf[t])
  /\ call' = [call EXCEPT ![t] = [op |-> "evidence", goal |-> Target(t, named),
                                  expected |-> Expected(t, named, guarded),
                                  criterion |-> index, guarded |-> named \/ guarded]]
  /\ UNCHANGED <<status, owner, budget, used, objective, criterion, evidence, captured, resumed>>

\* ... and the store's answer.  StaleGoalError and ValueError (no text, a
\* criterion of another goal) become an error result, so any call may fail.
AddEvidenceWrite(t, verified) ==
  /\ call[t].op = "evidence"
  /\ \/ append_evidence(t, call[t].goal, call[t].expected, call[t].criterion, verified, call[t].guarded)
     \/ UNCHANGED <<status, owner, budget, used, objective, criterion, evidence, captured, resumed>>
  /\ call' = [call EXCEPT ![t] = NoCall]

\* update_research_goal_status
StatusRead(t, named, guarded) ==
  /\ call[t] = NoCall
  /\ named \/ get_current_goal(SessionOf[t]) # None
  /\ (named \/ guarded) => captured[t] # None
  /\ call' = [call EXCEPT ![t] = [op |-> "status", goal |-> Target(t, named),
                                  expected |-> Expected(t, named, guarded)]]
  /\ UNCHANGED <<status, owner, budget, used, objective, criterion, evidence, captured, resumed>>

StatusWrite(t) ==
  LET s == SessionOf[t]
  IN  /\ call[t].op = "status"
      /\ \/ \E audit \in [Criteria -> AuditRows] :
              complete(s, call[t].goal, call[t].expected, audit)
         \/ \E next \in Settable : update_status(s, call[t].goal, call[t].expected, next)
         \/ UNCHANGED <<status, owner, budget, used, objective, criterion, evidence, captured, resumed>>
      /\ call' = [call EXCEPT ![t] = NoCall]

-----------------------------------------------------------------------------
GoalInit ==
  /\ status = [g \in Goals |-> "unused"]
  /\ owner = [g \in Goals |-> None]
  /\ budget \in [Goals -> {[k \in Kinds |-> 0]}] /\ used = budget
  /\ objective = [g \in Goals |-> "research"]
  /\ criterion = [g \in Goals |-> [c \in Criteria |-> "pending"]]
  /\ evidence = [e \in Evidence |-> NoRow]
  /\ captured = [t \in Turns |-> None] /\ call = [t \in Turns |-> NoCall]
  /\ resumed = {}

\* The store driven by anybody: the tools, the loop that charges usage, and
\* the hosts that edit or delete.
StoreNext ==
  \/ \E s \in Sessions, g \in Goals, text \in {"research", "execution"} :
       \/ \E b \in [Kinds -> Budgets] : replace_goal(s, g, b, text)
       \/ update_goal(s, g, g, text)
  \/ \E s \in Sessions : delete_session_goals(s)
  \/ \E t \in Turns :
       \/ BeginTurn(t)
       \/ \E delta \in [Kinds -> {0, 1}] :
            captured[t] # None /\ account_usage(SessionOf[t], captured[t], captured[t], delta)
       \/ \E named, guarded \in BOOLEAN :
            \/ StatusRead(t, named, guarded)
            \/ \E index \in Index : AddEvidenceRead(t, named, guarded, index)
       \/ \E verified \in {VerificationStatus(TraceFields(s, h)) : s \in Sources, h \in BOOLEAN} :
            AddEvidenceWrite(t, verified)
       \/ StatusWrite(t)

GoalSpec == GoalInit /\ [][StoreNext]_goalVars

-----------------------------------------------------------------------------
\* The unique index on current goals never has to refuse a row: whatever the
\* turns interleave, a session has at most one goal that is not terminal.
OneCurrentPerSession ==
  \A g, h \in Goals : status[g] \in Current /\ status[h] \in Current /\ owner[g] = owner[h] => g = h

\* A completed goal rests on its own ledger: every criterion has a completion
\* result, and one that is called satisfied has verified evidence recorded
\* for that very goal and criterion.
CompletedGoalsAreProven ==
  \A g \in Goals : status[g] = "complete" =>
    \A c \in Criteria :
      /\ criterion[g][c] \in CompletionResults
      /\ criterion[g][c] # "not_applicable_user_accepted" =>
           \E e \in Evidence : evidence[e].goal = g /\ evidence[e].criterion = c /\ evidence[e].verified

\* A criterion is shown as covered only while evidence for it is in the
\* ledger, and the ledger holds no evidence of a goal that is gone.
CoverageIsBacked ==
  /\ \A g \in Goals, c \in Criteria :
       status[g] \in Current /\ criterion[g][c] = "covered" =>
         \E e \in Evidence : evidence[e].goal = g /\ evidence[e].criterion = c
  /\ \A e \in Evidence : evidence[e].goal # None => status[evidence[e].goal] \notin {"unused", "deleted"}

\* Evidence that was sent with the goal id of its turn is recorded under the
\* goal of that turn or not at all.
GuardedEvidenceAnswersItsGoal ==
  \A e \in Evidence : evidence[e].stray # "guarded"

\* A goal whose budget is spent is not worked on, unless somebody has set it
\* active again after the last charge.
SpentGoalsRest ==
  \A g \in Goals, k \in Kinds :
    status[g] = "active" /\ 0 < budget[g][k] /\ budget[g][k] <= used[g][k] => g \in resumed

\* No goal asks for an order to be placed, however it got its text.
ResearchOnly == \A g \in Goals : status[g] \in Current => objective[g] = "research"

\* The ledger can be trusted whatever turns, hosts and charges interleave:
\* a session has one current goal at most, completed goals are proven,
\* coverage is backed, guarded evidence is where it belongs, spent goals rest
\* and no goal asks for an order.
LedgerIsSound ==
  /\ OneCurrentPerSession /\ CompletedGoalsAreProven /\ CoverageIsBacked
  /\ GuardedEvidenceAnswersItsGoal /\ SpentGoalsRest /\ ResearchOnly

\* A goal that has ended is never written again; only its session's deletion
\* removes it.
EndedGoalsAreFrozen ==
  [][\A g \in Goals : status[g] \in Terminal =>
       \/ status'[g] = "deleted"
       \/ /\ status'[g] = status[g] /\ used'[g] = used[g]
          /\ criterion'[g] = criterion[g] /\ objective'[g] = objective[g]
          /\ {e \in Evidence : evidence'[e].goal = g} = {e \in Evidence : evidence[e].goal = g}]_goalVars

=============================================================================

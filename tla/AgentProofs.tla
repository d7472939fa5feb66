----------------------------- MODULE AgentProofs -----------------------------
(***************************************************************************)
(* Proofs about an agent: the ledger of the research goals it works for    *)
(* and the tools it is given.                                              *)
(***************************************************************************)
EXTENDS AgentLoop, ToolStack, WellFoundedInduction, FiniteSetTheorems, SequenceTheorems, TLAPS

-----------------------------------------------------------------------------
(***************************************************************************)
(* Proofs about the ledger of research goals: whatever turns, hosts and    *)
(* charges interleave, the ledger is sound (SoundLedger), and a goal that  *)
(* has ended is never written again (FrozenGoals).                         *)
(*                                                                         *)
(* The inductive invariant adds three things to LedgerIsSound.  A row that *)
(* was never handed out is blank, or a new goal would start with coverage  *)
(* or charges of its own.  A call that names the goal of its turn still    *)
(* names it when the store is reached, however long the turn waited.  And  *)
(* the tables have the types of their columns.                             *)
(***************************************************************************)
Statuses == {"unused", "deleted"} \cup Current \cup Terminal
CriterionStates == {"pending", "covered"} \cup CompletionResults
EvidenceRows == [goal : Goals \cup {None}, criterion : Index, verified : BOOLEAN,
                 stray : {"no", "guarded", "unguarded"}]
EvidenceCalls == [op : {"evidence"}, goal : Goals \cup {None}, expected : Goals \cup {None},
                  criterion : Index, guarded : BOOLEAN]
StatusCalls == [op : {"status"}, goal : Goals \cup {None}, expected : Goals \cup {None}]

\* The tables of the store.
TablesType ==
  /\ status \in [Goals -> Statuses]
  /\ owner \in [Goals -> Sessions \cup {None}]
  /\ budget \in [Goals -> [Kinds -> Nat]]
  /\ used \in [Goals -> [Kinds -> Nat]]
  /\ objective \in [Goals -> {"research", "execution"}]
  /\ criterion \in [Goals -> [Criteria -> CriterionStates]]
  /\ evidence \in [Evidence -> EvidenceRows]

\* The turns and their calls.
TurnsType ==
  /\ captured \in [Turns -> Goals \cup {None}]
  /\ call \in [Turns -> {NoCall} \cup EvidenceCalls \cup StatusCalls]

\* A row id that was not handed out has nothing recorded under it.
UnusedIsBlank ==
  \A g \in Goals : status[g] = "unused" =>
    /\ \A c \in Criteria : criterion[g][c] = "pending"
    /\ \A k \in Kinds : used[g][k] = 0

\* A call with an id in it names the goal its turn began with.
CallsKeepTheirGoal ==
  \A t \in Turns : call[t].op = "evidence" /\ call[t].guarded =>
    call[t].goal = captured[t] \/ call[t].expected = captured[t]

GoalInv == TablesType /\ TurnsType /\ UnusedIsBlank /\ CallsKeepTheirGoal /\ LedgerIsSound

\* What a step may do to goal g once it has ended: the body of
\* EndedGoalsAreFrozen.
Frozen(g) ==
  status[g] \in Terminal =>
    \/ status'[g] = "deleted"
    \/ /\ status'[g] = status[g] /\ used'[g] = used[g]
       /\ criterion'[g] = criterion[g] /\ objective'[g] = objective[g]
       /\ {e \in Evidence : evidence'[e].goal = g} = {e \in Evidence : evidence[e].goal = g}

\* The current, the ended, the unused and the deleted goals are apart.
LEMMA StatusesApart ==
  /\ \A st \in Terminal : st \notin Current /\ st # "unused" /\ st # "deleted"
  /\ \A st \in Current : st # "unused" /\ st # "deleted" /\ st # "complete"
  /\ "active" \in Current /\ "budget_limited" \in Current /\ "complete" \in Terminal
  /\ "superseded" \in Terminal /\ "superseded" # "active"
BY DEF Current, Terminal

\* The ledger starts empty, hence sound.
LEMMA GoalInitHolds == GoalInit => GoalInv
<1> SUFFICES ASSUME GoalInit PROVE GoalInv
  OBVIOUS
<1>1. TablesType
  BY GoalAssumption DEF GoalInit, TablesType, Statuses, CriterionStates, EvidenceRows, NoRow, Index
<1>2. TurnsType
  BY DEF GoalInit, TurnsType, NoCall
<1>3. UnusedIsBlank
  BY DEF GoalInit, UnusedIsBlank
<1>4. CallsKeepTheirGoal
  BY DEF GoalInit, CallsKeepTheirGoal, NoCall
<1>5. LedgerIsSound
  <2>1. \A g \in Goals : status[g] = "unused"
    BY DEF GoalInit
  <2>2. \A e \in Evidence : evidence[e] = NoRow
    BY DEF GoalInit
  <2> QED
    BY <2>1, <2>2, StatusesApart, GoalAssumption
    DEF LedgerIsSound, OneCurrentPerSession, CompletedGoalsAreProven, CoverageIsBacked,
        GuardedEvidenceAnswersItsGoal, SpentGoalsRest, ResearchOnly, NoRow
<1> QED
  BY <1>1, <1>2, <1>3, <1>4, <1>5 DEF GoalInv

-----------------------------------------------------------------------------
(* One lemma per operation of the store. *)

\* replace_goal keeps the ledger sound: the goals of the session that were
\* current step down before the new one, which is blank, becomes active.
LEMMA ReplaceKeeps ==
  ASSUME GoalInv, NEW s \in Sessions, NEW g \in Goals, NEW b \in [Kinds -> Budgets],
         NEW text \in {"research", "execution"}, replace_goal(s, g, b, text)
  PROVE  GoalInv' /\ \A h \in Goals : Frozen(h)
<1>1. /\ status' \in [Goals -> Statuses] /\ status'[g] = "active"
      /\ \A h \in Goals : h # g =>
           status'[h] = IF owner[h] = s /\ status[h] \in Current THEN "superseded" ELSE status[h]
  <2>1. Supersede(s) \in [Goals -> Statuses]
    BY DEF GoalInv, TablesType, Supersede, Statuses, Terminal
  <2>2. status' = [Supersede(s) EXCEPT ![g] = "active"]
    BY DEF replace_goal
  <2>3. "active" \in Statuses
    BY DEF Statuses, Current
  <2> QED
    BY <2>1, <2>2, <2>3 DEF Supersede
<1>2. /\ owner' \in [Goals -> Sessions \cup {None}] /\ owner'[g] = s
      /\ \A h \in Goals : h # g => owner'[h] = owner[h]
  BY DEF replace_goal, GoalInv, TablesType
<1>3. /\ budget' \in [Goals -> [Kinds -> Nat]]
      /\ \A h \in Goals : h # g => budget'[h] = budget[h]
  BY GoalAssumption DEF replace_goal, GoalInv, TablesType
<1>4. /\ objective' \in [Goals -> {"research", "execution"}] /\ objective'[g] = "research"
      /\ \A h \in Goals : h # g => objective'[h] = objective[h]
  BY DEF replace_goal, GoalInv, TablesType, IsResearch
<1>5. status[g] = "unused" /\ UNCHANGED <<used, criterion, evidence, captured, call, resumed>>
  BY DEF replace_goal
<1>6. \A h \in Goals : h # g =>
        /\ status'[h] \in Current => status[h] \in Current /\ owner[h] # s /\ status'[h] = status[h]
        /\ status'[h] = "complete" => status[h] = "complete"
        /\ status'[h] = "unused" => status[h] = "unused"
        /\ status'[h] = "active" => status[h] = "active"
        /\ status[h] \notin {"unused", "deleted"} => status'[h] \notin {"unused", "deleted"}
        /\ status[h] \in Terminal => status'[h] = status[h]
  BY <1>1, StatusesApart DEF Current, Terminal
<1>7. TablesType' /\ TurnsType'
  BY <1>1, <1>2, <1>3, <1>4, <1>5 DEF GoalInv, TablesType, TurnsType
<1>8. UnusedIsBlank'
  BY <1>1, <1>5, <1>6 DEF GoalInv, UnusedIsBlank
<1>9. CallsKeepTheirGoal'
  BY <1>5 DEF GoalInv, CallsKeepTheirGoal
<1>10. OneCurrentPerSession'
  BY <1>1, <1>2, <1>6 DEF GoalInv, LedgerIsSound, OneCurrentPerSession
<1>11. CompletedGoalsAreProven'
  BY <1>1, <1>5, <1>6 DEF GoalInv, LedgerIsSound, CompletedGoalsAreProven
<1>12. CoverageIsBacked'
  <2>1. \A h \in Goals, c \in Criteria :
          status'[h] \in Current /\ criterion[h][c] = "covered" => h # g /\ status[h] \in Current
    BY <1>5, <1>6 DEF GoalInv, UnusedIsBlank
  <2>2. \A e \in Evidence : evidence[e].goal # None =>
          evidence[e].goal \in Goals /\ status[evidence[e].goal] \notin {"unused", "deleted"}
    BY DEF GoalInv, TablesType, EvidenceRows, LedgerIsSound, CoverageIsBacked
  <2>3. \A h \in Goals : status[h] \notin {"unused", "deleted"} => status'[h] \notin {"unused", "deleted"}
    BY <1>1, <1>5, <1>6
  <2>4. \A e \in Evidence : evidence[e].goal # None => status'[evidence[e].goal] \notin {"unused", "deleted"}
    BY <2>2, <2>3
  <2> QED
    BY <1>5, <2>1, <2>4 DEF GoalInv, LedgerIsSound, CoverageIsBacked
<1>13. GuardedEvidenceAnswersItsGoal'
  BY <1>5 DEF GoalInv, LedgerIsSound, GuardedEvidenceAnswersItsGoal
<1>14. SpentGoalsRest'
  <2> SUFFICES ASSUME NEW h \in Goals, NEW k \in Kinds, status'[h] = "active",
                      0 < budget'[h][k], budget'[h][k] <= used[h][k]
               PROVE  h \in resumed
    BY <1>5 DEF SpentGoalsRest
  <2>1. CASE h = g
    BY <2>1, <1>3, <1>5 DEF GoalInv, UnusedIsBlank
  <2>2. CASE h # g
    BY <2>2, <1>3, <1>6 DEF GoalInv, LedgerIsSound, SpentGoalsRest
  <2> QED
    BY <2>1, <2>2
<1>15. ResearchOnly'
  BY <1>4, <1>6 DEF GoalInv, LedgerIsSound, ResearchOnly
<1>16. \A h \in Goals : Frozen(h)
  <2> TAKE h \in Goals
  <2>1. CASE h = g
    BY <2>1, <1>5, StatusesApart DEF Frozen
  <2>2. CASE h # g
    BY <2>2, <1>4, <1>5, <1>6 DEF Frozen
  <2> QED
    BY <2>1, <2>2
<1> QED
  BY <1>7, <1>8, <1>9, <1>10, <1>11, <1>12, <1>13, <1>14, <1>15, <1>16 DEF GoalInv, LedgerIsSound

\* update_goal keeps the ledger sound: the new text is a research text, and
\* the goal is current.
LEMMA UpdateKeeps ==
  ASSUME GoalInv, NEW s \in Sessions, NEW g \in Goals,
         NEW text \in {"research", "execution"}, update_goal(s, g, g, text)
  PROVE  GoalInv' /\ \A h \in Goals : Frozen(h)
<1>1. /\ objective' \in [Goals -> {"research", "execution"}] /\ objective'[g] = "research"
      /\ \A h \in Goals : h # g => objective'[h] = objective[h]
  BY DEF update_goal, GoalInv, TablesType, IsResearch
<1>2. /\ status[g] \in Current
      /\ UNCHANGED <<status, owner, budget, used, criterion, evidence, captured, call, resumed>>
  BY DEF update_goal, MutableGoal
<1>3. TablesType' /\ TurnsType' /\ UnusedIsBlank' /\ CallsKeepTheirGoal'
  BY <1>1, <1>2 DEF GoalInv, TablesType, TurnsType, UnusedIsBlank, CallsKeepTheirGoal
<1>4. OneCurrentPerSession' /\ CompletedGoalsAreProven'
  BY <1>2 DEF GoalInv, LedgerIsSound, OneCurrentPerSession, CompletedGoalsAreProven
<1>5. CoverageIsBacked' /\ GuardedEvidenceAnswersItsGoal' /\ SpentGoalsRest'
  BY <1>2 DEF GoalInv, LedgerIsSound, CoverageIsBacked, GuardedEvidenceAnswersItsGoal, SpentGoalsRest
<1>6. ResearchOnly'
  BY <1>1, <1>2 DEF GoalInv, LedgerIsSound, ResearchOnly
<1>7. \A h \in Goals : Frozen(h)
  BY <1>1, <1>2, StatusesApart DEF Frozen
<1> QED
  BY <1>3, <1>4, <1>5, <1>6, <1>7 DEF GoalInv, LedgerIsSound

\* delete_session_goals keeps the ledger sound: the evidence goes with the
\* goals it belongs to.
LEMMA DeleteKeeps ==
  ASSUME GoalInv, NEW s \in Sessions, delete_session_goals(s)
  PROVE  GoalInv' /\ \A h \in Goals : Frozen(h)
<1>1. /\ status' \in [Goals -> Statuses]
      /\ \A h \in Goals : status'[h] = IF owner[h] = s THEN "deleted" ELSE status[h]
  BY DEF delete_session_goals, GoalInv, TablesType, Statuses
<1>2. \A e \in Evidence : evidence'[e] = IF evidence[e].goal # None /\ owner[evidence[e].goal] = s
                                         THEN NoRow ELSE evidence[e]
  BY DEF delete_session_goals, Erased
<1>3. NoRow \in EvidenceRows /\ NoRow.goal = None /\ NoRow.stray = "no"
  BY DEF NoRow, EvidenceRows, Index
<1>4. evidence' \in [Evidence -> EvidenceRows]
  <2>1. evidence' = [e \in Evidence |-> IF evidence[e].goal # None /\ owner[evidence[e].goal] = s
                                        THEN NoRow ELSE evidence[e]]
    BY DEF delete_session_goals, Erased
  <2> QED
    BY <2>1, <1>3 DEF GoalInv, TablesType
<1>5. resumed' = {g \in resumed : owner[g] # s}
      /\ UNCHANGED <<owner, budget, used, objective, criterion, captured, call>>
  BY DEF delete_session_goals
<1>6. \A h \in Goals : status'[h] # "deleted" => owner[h] # s /\ status'[h] = status[h]
  BY <1>1
<1>7. TablesType' /\ TurnsType'
  BY <1>1, <1>4, <1>5 DEF GoalInv, TablesType, TurnsType
<1>8. UnusedIsBlank' /\ CallsKeepTheirGoal'
  BY <1>5, <1>6 DEF GoalInv, UnusedIsBlank, CallsKeepTheirGoal
<1>9. OneCurrentPerSession'
  BY <1>5, <1>6, StatusesApart DEF GoalInv, LedgerIsSound, OneCurrentPerSession
<1>10. \A e \in Evidence : \A h \in Goals :
         status'[h] # "deleted" /\ evidence[e].goal = h => evidence'[e] = evidence[e]
  BY <1>2, <1>6
<1>11. CompletedGoalsAreProven'
  <2> SUFFICES ASSUME NEW h \in Goals, status'[h] = "complete", NEW c \in Criteria
               PROVE  /\ criterion[h][c] \in CompletionResults
                      /\ criterion[h][c] # "not_applicable_user_accepted" =>
                           \E e \in Evidence : evidence'[e].goal = h /\ evidence'[e].criterion = c
                                               /\ evidence'[e].verified
    BY <1>5 DEF CompletedGoalsAreProven
  <2>1. status[h] = "complete"
    BY <1>6
  <2> QED
    BY <2>1, <1>10 DEF GoalInv, LedgerIsSound, CompletedGoalsAreProven
<1>12. CoverageIsBacked'
  <2>1. ASSUME NEW h \in Goals, NEW c \in Criteria, status'[h] \in Current, criterion[h][c] = "covered"
        PROVE  \E e \in Evidence : evidence'[e].goal = h /\ evidence'[e].criterion = c
    <3>1. status[h] \in Current /\ status'[h] # "deleted"
      BY <1>6, <2>1, StatusesApart
    <3>2. PICK e \in Evidence : evidence[e].goal = h /\ evidence[e].criterion = c
      BY <2>1, <3>1 DEF GoalInv, LedgerIsSound, CoverageIsBacked
    <3> QED
      BY <3>1, <3>2, <1>10
  <2>2. ASSUME NEW e \in Evidence, evidence'[e].goal # None
        PROVE  status'[evidence'[e].goal] \notin {"unused", "deleted"}
    <3>1. evidence'[e] = evidence[e] /\ owner[evidence[e].goal] # s
      BY <1>2, <1>3, <2>2
    <3>2. evidence[e].goal \in Goals /\ status[evidence[e].goal] \notin {"unused", "deleted"}
      BY <2>2, <3>1 DEF GoalInv, TablesType, EvidenceRows, LedgerIsSound, CoverageIsBacked
    <3> QED
      BY <1>1, <3>1, <3>2
  <2> QED
    BY <1>5, <2>1, <2>2 DEF CoverageIsBacked
<1>13. GuardedEvidenceAnswersItsGoal'
  BY <1>2, <1>3 DEF GoalInv, LedgerIsSound, GuardedEvidenceAnswersItsGoal
<1>14. SpentGoalsRest'
  BY <1>5, <1>6, StatusesApart DEF GoalInv, LedgerIsSound, SpentGoalsRest
<1>15. ResearchOnly'
  BY <1>5, <1>6, StatusesApart DEF GoalInv, LedgerIsSound, ResearchOnly
<1>16. \A h \in Goals : Frozen(h)
  <2> SUFFICES ASSUME NEW h \in Goals, status'[h] # "deleted"
               PROVE  /\ status'[h] = status[h] /\ used'[h] = used[h]
                      /\ criterion'[h] = criterion[h] /\ objective'[h] = objective[h]
                      /\ {e \in Evidence : evidence'[e].goal = h} = {e \in Evidence : evidence[e].goal = h}
    BY DEF Frozen
  <2>1. \A e \in Evidence : evidence'[e].goal = h <=> evidence[e].goal = h
    BY <1>2, <1>3, <1>10, GoalAssumption
  <2> QED
    BY <2>1, <1>5, <1>6
<1> QED
  BY <1>7, <1>8, <1>9, <1>11, <1>12, <1>13, <1>14, <1>15, <1>16 DEF GoalInv, LedgerIsSound

\* append_evidence keeps the ledger sound: the row is new, its goal is
\* current, and a call that named its goal writes to that goal.
LEMMA AppendKeeps ==
  ASSUME GoalInv, NEW t \in Turns, NEW verified \in BOOLEAN, call[t].op = "evidence",
         append_evidence(t, call[t].goal, call[t].expected, call[t].criterion, verified, call[t].guarded),
         call' = [call EXCEPT ![t] = NoCall]
  PROVE  GoalInv' /\ \A h \in Goals : Frozen(h)
<1> DEFINE g == call[t].goal
           c == call[t].criterion
           guarded == call[t].guarded
           Written == [goal |-> g, criterion |-> c, verified |-> verified, stray |-> Stray(t, g, guarded)]
<1>1. call[t] \in EvidenceCalls
  BY DEF GoalInv, TurnsType, NoCall, StatusCalls
<1>2. /\ g \in Goals /\ call[t].expected = g /\ status[g] \in Current
      /\ UNCHANGED <<status, owner, budget, used, objective, captured, resumed>>
  BY DEF append_evidence, MutableGoal
<1>3. c \in Index /\ guarded \in BOOLEAN
  BY <1>1 DEF EvidenceCalls
<1>4. PICK e0 \in Evidence : evidence[e0] = NoRow /\ evidence' = [evidence EXCEPT ![e0] = Written]
  BY DEF append_evidence
<1>5. Stray(t, g, guarded) \in {"no", "unguarded"}
  BY <1>1, <1>2 DEF GoalInv, CallsKeepTheirGoal, Stray
<1>6. Written \in EvidenceRows
  BY <1>2, <1>3, <1>5 DEF EvidenceRows
<1>7. /\ evidence' \in [Evidence -> EvidenceRows] /\ evidence'[e0] = Written
      /\ \A e \in Evidence : e # e0 => evidence'[e] = evidence[e]
  BY <1>4, <1>6 DEF GoalInv, TablesType
<1>8. evidence[e0].goal = None /\ evidence'[e0].goal = g /\ evidence'[e0].criterion = c
      /\ evidence'[e0].stray # "guarded"
  BY <1>4, <1>5, <1>7 DEF NoRow
<1>9. criterion' = Cover(g, c)
  BY DEF append_evidence
<1>10. /\ criterion' \in [Goals -> [Criteria -> CriterionStates]]
       /\ \A h \in Goals : h # g => criterion'[h] = criterion[h]
       /\ \A d \in Criteria : criterion'[g][d] = criterion[g][d] \/ d = c
  <2>1. CASE c # None /\ criterion[g][c] = "pending"
    <3>1. c \in Criteria /\ criterion' = [criterion EXCEPT ![g][c] = "covered"]
      BY <1>3, <1>9, <2>1 DEF Cover, Index
    <3>2. "covered" \in CriterionStates
      BY DEF CriterionStates
    <3> QED
      BY <1>2, <3>1, <3>2 DEF GoalInv, TablesType
  <2>2. CASE ~(c # None /\ criterion[g][c] = "pending")
    BY <1>9, <2>2 DEF Cover, GoalInv, TablesType
  <2> QED
    BY <2>1, <2>2
<1>11. /\ call' \in [Turns -> {NoCall} \cup EvidenceCalls \cup StatusCalls] /\ call'[t] = NoCall
       /\ \A u \in Turns : u # t => call'[u] = call[u]
  BY DEF GoalInv, TurnsType
<1>12. TablesType' /\ TurnsType'
  BY <1>2, <1>7, <1>10, <1>11 DEF GoalInv, TablesType, TurnsType
<1>13. UnusedIsBlank'
  BY <1>2, <1>10, StatusesApart DEF GoalInv, UnusedIsBlank
<1>14. CallsKeepTheirGoal'
  BY <1>2, <1>11 DEF GoalInv, CallsKeepTheirGoal, NoCall
<1>15. OneCurrentPerSession' /\ SpentGoalsRest' /\ ResearchOnly'
  BY <1>2 DEF GoalInv, LedgerIsSound, OneCurrentPerSession, SpentGoalsRest, ResearchOnly
<1>16. \A e \in Evidence : \A h \in Goals : evidence[e].goal = h => e # e0 /\ evidence'[e] = evidence[e]
  BY <1>7, <1>8, GoalAssumption
<1>17. CompletedGoalsAreProven'
  <2> SUFFICES ASSUME NEW h \in Goals, status[h] = "complete", NEW d \in Criteria
               PROVE  /\ criterion'[h][d] \in CompletionResults
                      /\ criterion'[h][d] # "not_applicable_user_accepted" =>
                           \E e \in Evidence : evidence'[e].goal = h /\ evidence'[e].criterion = d
                                               /\ evidence'[e].verified
    BY <1>2 DEF CompletedGoalsAreProven
  <2>1. criterion'[h] = criterion[h]
    BY <1>2, <1>10, StatusesApart
  <2> QED
    BY <2>1, <1>16 DEF GoalInv, LedgerIsSound, CompletedGoalsAreProven
<1>18. CoverageIsBacked'
  <2>1. ASSUME NEW h \in Goals, NEW d \in Criteria, status[h] \in Current, criterion'[h][d] = "covered"
        PROVE  \E e \in Evidence : evidence'[e].goal = h /\ evidence'[e].criterion = d
    <3>1. CASE h = g /\ d = c
      BY <3>1, <1>8
    <3>2. CASE ~(h = g /\ d = c)
      <4>1. criterion[h][d] = "covered"
        BY <2>1, <3>2, <1>10
      <4>2. PICK e \in Evidence : evidence[e].goal = h /\ evidence[e].criterion = d
        BY <2>1, <4>1 DEF GoalInv, LedgerIsSound, CoverageIsBacked
      <4> QED
        BY <4>2, <1>16
    <3> QED
      BY <3>1, <3>2
  <2>2. ASSUME NEW e \in Evidence, evidence'[e].goal # None
        PROVE  status[evidence'[e].goal] \notin {"unused", "deleted"}
    <3>1. CASE e = e0
      BY <3>1, <1>2, <1>8, StatusesApart
    <3>2. CASE e # e0
      BY <2>2, <3>2, <1>7 DEF GoalInv, LedgerIsSound, CoverageIsBacked
    <3> QED
      BY <3>1, <3>2
  <2> QED
    BY <1>2, <2>1, <2>2 DEF CoverageIsBacked
<1>19. GuardedEvidenceAnswersItsGoal'
  BY <1>7, <1>8 DEF GoalInv, LedgerIsSound, GuardedEvidenceAnswersItsGoal
<1>20. \A h \in Goals : Frozen(h)
  <2> SUFFICES ASSUME NEW h \in Goals, status[h] \in Terminal
               PROVE  /\ status'[h] = status[h] /\ used'[h] = used[h]
                      /\ criterion'[h] = criterion[h] /\ objective'[h] = objective[h]
                      /\ {e \in Evidence : evidence'[e].goal = h} = {e \in Evidence : evidence[e].goal = h}
    BY DEF Frozen
  <2>1. h # g
    BY <1>2, StatusesApart
  <2>2. \A e \in Evidence : evidence'[e].goal = h <=> evidence[e].goal = h
    BY <2>1, <1>7, <1>8, GoalAssumption
  <2> QED
    BY <2>1, <2>2, <1>2, <1>10
<1> QED
  BY <1>12, <1>13, <1>14, <1>15, <1>17, <1>18, <1>19, <1>20 DEF GoalInv, LedgerIsSound

\* complete keeps the ledger sound: the audit was accepted criterion by
\* criterion, on evidence of this goal.
LEMMA CompleteKeeps ==
  ASSUME GoalInv, NEW t \in Turns, NEW s, NEW g, NEW expected,
         NEW audit \in [Criteria -> AuditRows], complete(s, g, expected, audit),
         call' = [call EXCEPT ![t] = NoCall]
  PROVE  GoalInv' /\ \A h \in Goals : Frozen(h)
<1>1. /\ g \in Goals /\ status[g] \in Current
      /\ resumed' = resumed \ {g}
      /\ UNCHANGED <<owner, budget, used, objective, evidence, captured>>
  BY DEF complete, MutableGoal
<1>2. /\ status' \in [Goals -> Statuses] /\ status'[g] = "complete"
      /\ \A h \in Goals : h # g => status'[h] = status[h]
  <2>1. "complete" \in Statuses
    BY DEF Statuses, Terminal
  <2> QED
    BY <1>1, <2>1 DEF complete, GoalInv, TablesType
<1>3. \A c \in Criteria :
        /\ audit[c].result \in CompletionResults
        /\ audit[c].result # "not_applicable_user_accepted" =>
             \E e \in Evidence : evidence[e].goal = g /\ evidence[e].criterion = c /\ evidence[e].verified
  <2> TAKE c \in Criteria
  <2>1. audit[c].evidence \subseteq Evidence
    BY DEF AuditRows
  <2>2. RowAccepted(g, c, audit[c])
    BY DEF complete
  <2> QED
    BY <2>1, <2>2 DEF RowAccepted
<1>4. /\ criterion' \in [Goals -> [Criteria -> CriterionStates]]
      /\ criterion'[g] = [c \in Criteria |-> audit[c].result]
      /\ \A h \in Goals : h # g => criterion'[h] = criterion[h]
  <2>1. criterion' = [criterion EXCEPT ![g] = [c \in Criteria |-> audit[c].result]]
    BY DEF complete
  <2>2. [c \in Criteria |-> audit[c].result] \in [Criteria -> CriterionStates]
    BY <1>3 DEF CriterionStates
  <2> QED
    BY <1>1, <2>1, <2>2 DEF GoalInv, TablesType
<1>5. /\ call' \in [Turns -> {NoCall} \cup EvidenceCalls \cup StatusCalls] /\ call'[t] = NoCall
      /\ \A u \in Turns : u # t => call'[u] = call[u]
  BY DEF GoalInv, TurnsType
<1>6. TablesType' /\ TurnsType'
  BY <1>1, <1>2, <1>4, <1>5 DEF GoalInv, TablesType, TurnsType
<1>7. UnusedIsBlank'
  BY <1>1, <1>2, <1>4 DEF GoalInv, UnusedIsBlank
<1>8. CallsKeepTheirGoal'
  BY <1>1, <1>5 DEF GoalInv, CallsKeepTheirGoal, NoCall
<1>9. OneCurrentPerSession' /\ ResearchOnly'
  BY <1>1, <1>2, StatusesApart DEF GoalInv, LedgerIsSound, OneCurrentPerSession, ResearchOnly
<1>10. CompletedGoalsAreProven'
  <2> SUFFICES ASSUME NEW h \in Goals, status'[h] = "complete", NEW c \in Criteria
               PROVE  /\ criterion'[h][c] \in CompletionResults
                      /\ criterion'[h][c] # "not_applicable_user_accepted" =>
                           \E e \in Evidence : evidence[e].goal = h /\ evidence[e].criterion = c
                                               /\ evidence[e].verified
    BY <1>1 DEF CompletedGoalsAreProven
  <2>1. CASE h = g
    BY <2>1, <1>3, <1>4
  <2>2. CASE h # g
    BY <2>2, <1>2, <1>4 DEF GoalInv, LedgerIsSound, CompletedGoalsAreProven
  <2> QED
    BY <2>1, <2>2
<1>11. CoverageIsBacked'
  <2>1. \A h \in Goals, c \in Criteria : status'[h] \in Current /\ criterion'[h][c] = "covered" =>
          status[h] \in Current /\ criterion[h][c] = "covered"
    BY <1>2, <1>4, StatusesApart
  <2>2. \A e \in Evidence : evidence[e].goal # None =>
          evidence[e].goal \in Goals /\ status[evidence[e].goal] \notin {"unused", "deleted"}
    BY DEF GoalInv, TablesType, EvidenceRows, LedgerIsSound, CoverageIsBacked
  <2>3. \A e \in Evidence : evidence[e].goal # None => status'[evidence[e].goal] \notin {"unused", "deleted"}
    BY <1>2, <2>2
  <2> QED
    BY <1>1, <2>1, <2>3 DEF GoalInv, LedgerIsSound, CoverageIsBacked
<1>12. GuardedEvidenceAnswersItsGoal'
  BY <1>1 DEF GoalInv, LedgerIsSound, GuardedEvidenceAnswersItsGoal
<1>13. SpentGoalsRest'
  BY <1>1, <1>2 DEF GoalInv, LedgerIsSound, SpentGoalsRest
<1>14. \A h \in Goals : Frozen(h)
  BY <1>1, <1>2, <1>4, StatusesApart DEF Frozen
<1> QED
  BY <1>6, <1>7, <1>8, <1>9, <1>10, <1>11, <1>12, <1>13, <1>14 DEF GoalInv, LedgerIsSound

\* update_status keeps the ledger sound: it never claims completion, and a
\* goal set active by hand is remembered as such.
LEMMA StatusKeeps ==
  ASSUME GoalInv, NEW t \in Turns, NEW s, NEW g, NEW expected, NEW next \in Settable,
         update_status(s, g, expected, next), call' = [call EXCEPT ![t] = NoCall]
  PROVE  GoalInv' /\ \A h \in Goals : Frozen(h)
<1>1. /\ g \in Goals /\ status[g] \in Current
      /\ resumed' = IF next = "active" THEN resumed \cup {g} ELSE resumed \ {g}
      /\ UNCHANGED <<owner, budget, used, objective, criterion, evidence, captured>>
  BY DEF update_status, MutableGoal
<1>2. /\ next \in Statuses /\ next # "complete" /\ next # "unused" /\ next # "deleted"
  BY GoalAssumption DEF Statuses, Current, Terminal
<1>3. /\ status' \in [Goals -> Statuses] /\ status'[g] = next
      /\ \A h \in Goals : h # g => status'[h] = status[h]
  BY <1>1, <1>2 DEF update_status, GoalInv, TablesType
<1>4. /\ call' \in [Turns -> {NoCall} \cup EvidenceCalls \cup StatusCalls] /\ call'[t] = NoCall
      /\ \A u \in Turns : u # t => call'[u] = call[u]
  BY DEF GoalInv, TurnsType
<1>5. TablesType' /\ TurnsType'
  BY <1>1, <1>3, <1>4 DEF GoalInv, TablesType, TurnsType
<1>6. UnusedIsBlank'
  BY <1>1, <1>2, <1>3 DEF GoalInv, UnusedIsBlank
<1>7. CallsKeepTheirGoal'
  BY <1>1, <1>4 DEF GoalInv, CallsKeepTheirGoal, NoCall
<1>8. OneCurrentPerSession' /\ ResearchOnly'
  BY <1>1, <1>3 DEF GoalInv, LedgerIsSound, OneCurrentPerSession, ResearchOnly
<1>9. CompletedGoalsAreProven'
  BY <1>1, <1>2, <1>3 DEF GoalInv, LedgerIsSound, CompletedGoalsAreProven
<1>10. CoverageIsBacked'
  <2>1. \A h \in Goals : status'[h] \in Current => status[h] \in Current
    BY <1>1, <1>3
  <2>2. \A e \in Evidence : evidence[e].goal # None =>
          evidence[e].goal \in Goals /\ status[evidence[e].goal] \notin {"unused", "deleted"}
    BY DEF GoalInv, TablesType, EvidenceRows, LedgerIsSound, CoverageIsBacked
  <2>3. \A e \in Evidence : evidence[e].goal # None => status'[evidence[e].goal] \notin {"unused", "deleted"}
    BY <1>2, <1>3, <2>2
  <2> QED
    BY <1>1, <2>1, <2>3 DEF GoalInv, LedgerIsSound, CoverageIsBacked
<1>11. GuardedEvidenceAnswersItsGoal'
  BY <1>1 DEF GoalInv, LedgerIsSound, GuardedEvidenceAnswersItsGoal
<1>12. SpentGoalsRest'
  BY <1>1, <1>3 DEF GoalInv, LedgerIsSound, SpentGoalsRest
<1>13. \A h \in Goals : Frozen(h)
  BY <1>1, <1>3, StatusesApart DEF Frozen
<1> QED
  BY <1>5, <1>6, <1>7, <1>8, <1>9, <1>10, <1>11, <1>12, <1>13 DEF GoalInv, LedgerIsSound

\* account_usage keeps the ledger sound: a charge that reaches the budget
\* takes the goal out of work in the same transaction.
LEMMA ChargeKeeps ==
  ASSUME GoalInv, NEW s, NEW g, NEW delta \in [Kinds -> {0, 1}], account_usage(s, g, g, delta)
  PROVE  GoalInv' /\ \A h \in Goals : Frozen(h)
<1> DEFINE u == [k \in Kinds |-> used[g][k] + delta[k]]
<1>1. /\ g \in Goals /\ status[g] \in Current
      /\ used' = [used EXCEPT ![g] = u]
      /\ status' = [status EXCEPT ![g] = IF Crosses(g, u) THEN "budget_limited" ELSE status[g]]
      /\ resumed' = IF Crosses(g, u) THEN resumed \ {g} ELSE resumed
      /\ UNCHANGED <<owner, budget, objective, criterion, evidence, captured, call>>
  BY DEF account_usage, MutableGoal
<1>2. u \in [Kinds -> Nat]
  <2>1. g \in Goals /\ used \in [Goals -> [Kinds -> Nat]]
    BY <1>1 DEF GoalInv, TablesType
  <2>2. \A k \in Kinds : used[g][k] + delta[k] \in Nat
    BY <2>1
  <2> QED
    BY <2>2
<1> HIDE DEF u
<1>3. /\ used' \in [Goals -> [Kinds -> Nat]] /\ used'[g] = u
      /\ \A h \in Goals : h # g => used'[h] = used[h]
  BY <1>1, <1>2 DEF GoalInv, TablesType
<1>4. /\ status' \in [Goals -> Statuses]
      /\ status'[g] = IF Crosses(g, u) THEN "budget_limited" ELSE status[g]
      /\ \A h \in Goals : h # g => status'[h] = status[h]
  <2>1. "budget_limited" \in Statuses
    BY DEF Statuses, Current
  <2> QED
    BY <1>1, <2>1 DEF GoalInv, TablesType
<1>5. status'[g] \in Current
  BY <1>1, <1>4, StatusesApart
<1>6. TablesType' /\ TurnsType'
  BY <1>1, <1>3, <1>4 DEF GoalInv, TablesType, TurnsType
<1>7. UnusedIsBlank' /\ CallsKeepTheirGoal'
  BY <1>1, <1>3, <1>4, <1>5, StatusesApart DEF GoalInv, UnusedIsBlank, CallsKeepTheirGoal
<1>8. OneCurrentPerSession' /\ ResearchOnly'
  BY <1>1, <1>4 DEF GoalInv, LedgerIsSound, OneCurrentPerSession, ResearchOnly
<1>9. CompletedGoalsAreProven'
  BY <1>1, <1>4, <1>5, StatusesApart DEF GoalInv, LedgerIsSound, CompletedGoalsAreProven
<1>10. CoverageIsBacked'
  <2>1. \A h \in Goals : status'[h] \in Current => status[h] \in Current
    BY <1>1, <1>4
  <2>2. \A e \in Evidence : evidence[e].goal # None =>
          evidence[e].goal \in Goals /\ status[evidence[e].goal] \notin {"unused", "deleted"}
    BY DEF GoalInv, TablesType, EvidenceRows, LedgerIsSound, CoverageIsBacked
  <2>3. \A e \in Evidence : evidence[e].goal # None => status'[evidence[e].goal] \notin {"unused", "deleted"}
    BY <1>4, <1>5, <2>2, StatusesApart
  <2> QED
    BY <1>1, <2>1, <2>3 DEF GoalInv, LedgerIsSound, CoverageIsBacked
<1>11. GuardedEvidenceAnswersItsGoal'
  BY <1>1 DEF GoalInv, LedgerIsSound, GuardedEvidenceAnswersItsGoal
<1>12. SpentGoalsRest'
  <2> SUFFICES ASSUME NEW h \in Goals, NEW k \in Kinds, status'[h] = "active",
                      0 < budget[h][k], budget[h][k] <= used'[h][k]
               PROVE  h \in resumed'
    BY <1>1 DEF SpentGoalsRest
  <2>1. CASE h = g
    <3>1. budget[g][k] \in Nat /\ u[k] \in Nat
      BY <1>1, <1>2 DEF GoalInv, TablesType
    <3>2. Crosses(g, u)
      BY <2>1, <3>1, <1>3 DEF Crosses
    <3> QED
      BY <2>1, <3>2, <1>4
  <2>2. CASE h # g
    BY <2>2, <1>1, <1>3, <1>4 DEF GoalInv, LedgerIsSound, SpentGoalsRest
  <2> QED
    BY <2>1, <2>2
<1>13. \A h \in Goals : Frozen(h)
  BY <1>1, <1>3, <1>4, StatusesApart DEF Frozen
<1> QED
  BY <1>6, <1>7, <1>8, <1>9, <1>10, <1>11, <1>12, <1>13 DEF GoalInv, LedgerIsSound

-----------------------------------------------------------------------------
(* The tools. *)

\* get_current_goal returns a goal or nothing.
LEMMA CurrentGoalType == \A s : get_current_goal(s) \in Goals \cup {None}
BY DEF get_current_goal

\* A step that writes no table leaves the ledger as it was.
LEMMA TablesUntouched ==
  ASSUME GoalInv, UNCHANGED <<status, owner, budget, used, objective, criterion, evidence, resumed>>
  PROVE  TablesType' /\ UnusedIsBlank' /\ LedgerIsSound' /\ \A h \in Goals : Frozen(h)
<1>1. TablesType' /\ UnusedIsBlank'
  BY DEF GoalInv, TablesType, UnusedIsBlank
<1>2. OneCurrentPerSession' /\ CompletedGoalsAreProven'
  BY DEF GoalInv, LedgerIsSound, OneCurrentPerSession, CompletedGoalsAreProven
<1>3. CoverageIsBacked' /\ GuardedEvidenceAnswersItsGoal'
  BY DEF GoalInv, LedgerIsSound, CoverageIsBacked, GuardedEvidenceAnswersItsGoal
<1>4. SpentGoalsRest' /\ ResearchOnly'
  BY DEF GoalInv, LedgerIsSound, SpentGoalsRest, ResearchOnly
<1>5. \A h \in Goals : Frozen(h)
  BY DEF Frozen
<1> QED
  BY <1>1, <1>2, <1>3, <1>4, <1>5 DEF LedgerIsSound

\* A turn captures the current goal only between its calls, so no call in
\* flight loses the goal it names.
LEMMA BeginTurnKeeps ==
  ASSUME GoalInv, NEW t \in Turns, BeginTurn(t)
  PROVE  GoalInv' /\ \A h \in Goals : Frozen(h)
<1>1. /\ call[t] = NoCall
      /\ UNCHANGED <<status, owner, budget, used, objective, criterion, evidence, call, resumed>>
  BY DEF BeginTurn
<1>2. /\ captured' \in [Turns -> Goals \cup {None}]
      /\ \A v \in Turns : v # t => captured'[v] = captured[v]
  BY CurrentGoalType DEF BeginTurn, GoalInv, TurnsType
<1>3. CallsKeepTheirGoal'
  BY <1>1, <1>2 DEF GoalInv, CallsKeepTheirGoal, NoCall
<1> QED
  BY <1>1, <1>2, <1>3, TablesUntouched DEF GoalInv, TurnsType

\* add_goal_evidence reads its snapshot: the call it makes names the goal of
\* the turn when the model named one.
LEMMA AddEvidenceReadKeeps ==
  ASSUME GoalInv, NEW t \in Turns, NEW named \in BOOLEAN, NEW guarded \in BOOLEAN, NEW index \in Index,
         AddEvidenceRead(t, named, guarded, index)
  PROVE  GoalInv' /\ \A h \in Goals : Frozen(h)
<1> DEFINE c == [op |-> "evidence", goal |-> Target(t, named), expected |-> Expected(t, named, guarded),
                 criterion |-> index, guarded |-> named \/ guarded]
<1>1. /\ call' = [call EXCEPT ![t] = c]
      /\ UNCHANGED <<status, owner, budget, used, objective, criterion, evidence, captured, resumed>>
  BY DEF AddEvidenceRead
<1>2. captured[t] \in Goals \cup {None}
  BY DEF GoalInv, TurnsType
<1>3. Target(t, named) \in Goals \cup {None} /\ Expected(t, named, guarded) \in Goals \cup {None}
  BY <1>2, CurrentGoalType DEF Target, Expected
<1>4. (named \/ guarded) \in BOOLEAN
  OBVIOUS
<1>5. c \in EvidenceCalls
  BY <1>3, <1>4 DEF EvidenceCalls
<1>6. c.guarded => c.goal = captured[t] \/ c.expected = captured[t]
  BY DEF Target, Expected
<1> HIDE DEF c
<1>7. /\ call' \in [Turns -> {NoCall} \cup EvidenceCalls \cup StatusCalls] /\ call'[t] = c
      /\ \A v \in Turns : v # t => call'[v] = call[v]
  BY <1>1, <1>5 DEF GoalInv, TurnsType
<1>8. CallsKeepTheirGoal'
  BY <1>1, <1>6, <1>7 DEF GoalInv, CallsKeepTheirGoal
<1> QED
  BY <1>1, <1>7, <1>8, TablesUntouched DEF GoalInv, TurnsType

\* update_research_goal_status reads its snapshot.
LEMMA StatusReadKeeps ==
  ASSUME GoalInv, NEW t \in Turns, NEW named \in BOOLEAN, NEW guarded \in BOOLEAN,
         StatusRead(t, named, guarded)
  PROVE  GoalInv' /\ \A h \in Goals : Frozen(h)
<1> DEFINE c == [op |-> "status", goal |-> Target(t, named), expected |-> Expected(t, named, guarded)]
<1>1. /\ call' = [call EXCEPT ![t] = c]
      /\ UNCHANGED <<status, owner, budget, used, objective, criterion, evidence, captured, resumed>>
  BY DEF StatusRead
<1>2. captured[t] \in Goals \cup {None}
  BY DEF GoalInv, TurnsType
<1>3. Target(t, named) \in Goals \cup {None} /\ Expected(t, named, guarded) \in Goals \cup {None}
  BY <1>2, CurrentGoalType DEF Target, Expected
<1>4. c \in StatusCalls /\ c.op # "evidence"
  BY <1>3 DEF StatusCalls
<1> HIDE DEF c
<1>5. /\ call' \in [Turns -> {NoCall} \cup EvidenceCalls \cup StatusCalls] /\ call'[t] = c
      /\ \A v \in Turns : v # t => call'[v] = call[v]
  BY <1>1, <1>4 DEF GoalInv, TurnsType
<1>6. CallsKeepTheirGoal'
  BY <1>1, <1>4, <1>5 DEF GoalInv, CallsKeepTheirGoal
<1> QED
  BY <1>1, <1>5, <1>6, TablesUntouched DEF GoalInv, TurnsType

\* A call the store refuses ends without a trace.
LEMMA RefusedKeeps ==
  ASSUME GoalInv, NEW t \in Turns, call' = [call EXCEPT ![t] = NoCall],
         UNCHANGED <<status, owner, budget, used, objective, criterion, evidence, captured, resumed>>
  PROVE  GoalInv' /\ \A h \in Goals : Frozen(h)
<1>1. /\ call' \in [Turns -> {NoCall} \cup EvidenceCalls \cup StatusCalls] /\ call'[t] = NoCall
      /\ \A v \in Turns : v # t => call'[v] = call[v]
  BY DEF GoalInv, TurnsType
<1>2. CallsKeepTheirGoal'
  BY <1>1 DEF GoalInv, CallsKeepTheirGoal, NoCall
<1> QED
  BY <1>1, <1>2, TablesUntouched DEF GoalInv, TurnsType

\* The write half of add_goal_evidence.
LEMMA AddEvidenceWriteKeeps ==
  ASSUME GoalInv, NEW t \in Turns, NEW verified \in BOOLEAN, AddEvidenceWrite(t, verified)
  PROVE  GoalInv' /\ \A h \in Goals : Frozen(h)
<1>1. call[t].op = "evidence" /\ call' = [call EXCEPT ![t] = NoCall]
  BY DEF AddEvidenceWrite
<1>2. CASE append_evidence(t, call[t].goal, call[t].expected, call[t].criterion, verified, call[t].guarded)
  BY <1>1, <1>2, AppendKeeps
<1>3. CASE UNCHANGED <<status, owner, budget, used, objective, criterion, evidence, captured, resumed>>
  BY <1>1, <1>3, RefusedKeeps
<1> QED
  BY <1>2, <1>3 DEF AddEvidenceWrite

\* The write half of update_research_goal_status.
LEMMA StatusWriteKeeps ==
  ASSUME GoalInv, NEW t \in Turns, StatusWrite(t)
  PROVE  GoalInv' /\ \A h \in Goals : Frozen(h)
<1>1. call' = [call EXCEPT ![t] = NoCall]
  BY DEF StatusWrite
<1>2. ASSUME NEW audit \in [Criteria -> AuditRows],
             complete(SessionOf[t], call[t].goal, call[t].expected, audit)
      PROVE  GoalInv' /\ \A h \in Goals : Frozen(h)
  BY <1>1, <1>2, CompleteKeeps
<1>3. ASSUME NEW next \in Settable, update_status(SessionOf[t], call[t].goal, call[t].expected, next)
      PROVE  GoalInv' /\ \A h \in Goals : Frozen(h)
  BY <1>1, <1>3, StatusKeeps
<1>4. CASE UNCHANGED <<status, owner, budget, used, objective, criterion, evidence, captured, resumed>>
  BY <1>1, <1>4, RefusedKeeps
<1> QED
  BY <1>2, <1>3, <1>4 DEF StatusWrite

-----------------------------------------------------------------------------
\* Every step of the store keeps the inductive invariant and leaves the
\* ended goals alone.
LEMMA GoalStepKeeps == GoalInv /\ [StoreNext]_goalVars => GoalInv' /\ \A h \in Goals : Frozen(h)
<1> SUFFICES ASSUME GoalInv, [StoreNext]_goalVars PROVE GoalInv' /\ \A h \in Goals : Frozen(h)
  OBVIOUS
<1>1. ASSUME NEW s \in Sessions, NEW g \in Goals, NEW text \in {"research", "execution"},
             \/ \E b \in [Kinds -> Budgets] : replace_goal(s, g, b, text)
             \/ update_goal(s, g, g, text)
      PROVE  GoalInv' /\ \A h \in Goals : Frozen(h)
  BY <1>1, ReplaceKeeps, UpdateKeeps
<1>2. ASSUME NEW s \in Sessions, delete_session_goals(s)
      PROVE  GoalInv' /\ \A h \in Goals : Frozen(h)
  BY <1>2, DeleteKeeps
<1>3. ASSUME NEW t \in Turns, BeginTurn(t)
      PROVE  GoalInv' /\ \A h \in Goals : Frozen(h)
  BY <1>3, BeginTurnKeeps
<1>4. ASSUME NEW t \in Turns, NEW delta \in [Kinds -> {0, 1}],
             account_usage(SessionOf[t], captured[t], captured[t], delta)
      PROVE  GoalInv' /\ \A h \in Goals : Frozen(h)
  BY <1>4, ChargeKeeps
<1>5. ASSUME NEW t \in Turns, NEW named \in BOOLEAN, NEW guarded \in BOOLEAN,
             \/ StatusRead(t, named, guarded)
             \/ \E index \in Index : AddEvidenceRead(t, named, guarded, index)
      PROVE  GoalInv' /\ \A h \in Goals : Frozen(h)
  BY <1>5, StatusReadKeeps, AddEvidenceReadKeeps
<1>6. ASSUME NEW t \in Turns,
             NEW verified \in {VerificationStatus(TraceFields(s, h)) : s \in Sources, h \in BOOLEAN},
             AddEvidenceWrite(t, verified)
      PROVE  GoalInv' /\ \A h \in Goals : Frozen(h)
  <2>1. PICK s \in Sources, h \in BOOLEAN : verified = VerificationStatus(TraceFields(s, h))
    OBVIOUS
  <2>2. VerificationStatus(TraceFields(s, h)) \in BOOLEAN
    BY DEF VerificationStatus
  <2>3. verified \in BOOLEAN
    BY <2>1, <2>2
  <2> QED
    BY <1>6, <2>3, AddEvidenceWriteKeeps
<1>7. ASSUME NEW t \in Turns, StatusWrite(t)
      PROVE  GoalInv' /\ \A h \in Goals : Frozen(h)
  BY <1>7, StatusWriteKeeps
<1>8. CASE UNCHANGED goalVars
  <2>1. CallsKeepTheirGoal' /\ TurnsType'
    BY <1>8 DEF GoalInv, CallsKeepTheirGoal, TurnsType, goalVars
  <2> QED
    BY <1>8, <2>1, TablesUntouched DEF GoalInv, goalVars
<1> QED
  BY <1>1, <1>2, <1>3, <1>4, <1>5, <1>6, <1>7, <1>8 DEF StoreNext

\* For any number of goals, sessions and turns, and any budgets, the ledger
\* is sound in every state (goal/store.py under goal_tools.py).
THEOREM SoundLedger == GoalSpec => []LedgerIsSound
<1>1. GoalInit => GoalInv
  BY GoalInitHolds
<1>2. GoalInv /\ [StoreNext]_goalVars => GoalInv'
  BY GoalStepKeeps
<1>3. GoalInv => LedgerIsSound
  BY DEF GoalInv
<1> QED
  BY <1>1, <1>2, <1>3, PTL DEF GoalSpec

\* No step of any turn or host writes to a goal that has ended, apart from
\* the deletion of its session (store.py, _require_mutable_goal).
THEOREM FrozenGoals == GoalSpec => EndedGoalsAreFrozen
<1>1. GoalInit => GoalInv
  BY GoalInitHolds
<1>2. GoalInv /\ [StoreNext]_goalVars => GoalInv'
  BY GoalStepKeeps
<1>3. GoalInv /\ [StoreNext]_goalVars =>
        [\A g \in Goals : status[g] \in Terminal =>
           \/ status'[g] = "deleted"
           \/ /\ status'[g] = status[g] /\ used'[g] = used[g]
              /\ criterion'[g] = criterion[g] /\ objective'[g] = objective[g]
              /\ {e \in Evidence : evidence'[e].goal = g} = {e \in Evidence : evidence[e].goal = g}]_goalVars
  BY GoalStepKeeps DEF Frozen
<1> QED
  BY <1>1, <1>2, <1>3, PTL DEF GoalSpec, EndedGoalsAreFrozen

-----------------------------------------------------------------------------
(***************************************************************************)
(* Proofs about the tools of an agent: a call takes effect at most once    *)
(* (OneEffectPerCall) and only if the policy permits it                    *)
(* (OnlyPermittedEffects), and a server that cannot be reached costs the   *)
(* worker that server's tools and no others: every requested name stands   *)
(* for the tool of the last server that answered (FailuresAreIsolated).    *)
(*                                                                         *)
(* The decision is taken when a call is made and its effect comes later,   *)
(* or never: CallInv keeps, for the call under way, that it has had no     *)
(* effect yet and that what was decided about it permits one.  Discovery   *)
(* is the loop invariant of the registry's construction: every name stands *)
(* for what the servers asked so far make of it, and every server before   *)
(* the current one was hidden, not wanted, answered or really unreachable. *)
(***************************************************************************)
IsSequence(q) == q \in Seq(Range(q))

\* What the wrapper decided about call i permits an effect.
Permitted(i) ==
  /\ context.mode # "off" =>
       /\ calls[i].level = "R4_TRADE_WRITE" => context.checks = Checks /\ context.surface # "scheduler"
       /\ calls[i].level # "R5_SHELL"
  /\ context.mode = "enforce" => verdicts[i] # "deny"

SetupType ==
  /\ config.order \in Orders
  /\ context.checks \subseteq Checks
  /\ at \in Nat \ {0}

BooksType ==
  /\ IsSequence(calls) /\ IsSequence(verdicts) /\ effects \in Seq(Nat)
  /\ Len(calls) = Len(effects) /\ Len(verdicts) = Len(effects)

CallInv ==
  /\ \A i \in 1..Len(effects) : effects[i] <= 1 /\ (effects[i] > 0 => Permitted(i))
  /\ pending.stage # "none" =>
       Len(effects) > 0 /\ effects[Len(effects)] = 0 /\ Permitted(Len(effects))

\* Server i has been dealt with.
Settled(i) ==
  Servers[i] \in Live \/ ~ Selected(config, Servers[i]) \/ Servers[i] \in answered \cup unreachable

Discovery ==
  phase = "discover" =>
    /\ \A n : IsBound(n)
    /\ \A i \in 1..Len(Servers) : Servers[i] \in answered => i < at
    /\ \A i \in 1..Len(Servers) : i < at => Settled(i)

StackInv == SetupType /\ BooksType /\ CallInv /\ Discovery /\ FailureIsIsolated

-----------------------------------------------------------------------------
(* The policy. *)

\* Among the eight rules one comes first, as the last one always matches.
LEMMA FirstHitIsFirst ==
  ASSUME NEW c, NEW n, NEW arg
  PROVE  LET rules == Rules(c, n, arg)
             k == FirstHit(rules)
         IN  k \in 1..8 /\ rules[k].hit /\ \A j \in 1..k-1 : ~ rules[j].hit
<1> DEFINE rules == Rules(c, n, arg)
           First(k) == rules[k].hit /\ \A j \in 1..k-1 : ~ rules[j].hit
<1>1. DOMAIN rules = 1..8 /\ rules[8].hit
  BY DEF Rules
<1> HIDE DEF rules
<1>2. \E k \in 1..8 : First(k)
  <2>1. CASE rules[1].hit
    <3>1. First(1)
      BY <2>1
    <3> QED
      BY <3>1
  <2>2. CASE ~ rules[1].hit /\ rules[2].hit
    <3>1. First(2)
      BY <2>2
    <3> QED
      BY <3>1
  <2>3. CASE ~ rules[1].hit /\ ~ rules[2].hit /\ rules[3].hit
    <3>1. First(3)
      BY <2>3
    <3> QED
      BY <3>1
  <2>4. CASE ~ rules[1].hit /\ ~ rules[2].hit /\ ~ rules[3].hit /\ rules[4].hit
    <3>1. First(4)
      BY <2>4
    <3> QED
      BY <3>1
  <2>5. CASE ~ rules[1].hit /\ ~ rules[2].hit /\ ~ rules[3].hit /\ ~ rules[4].hit /\ rules[5].hit
    <3>1. First(5)
      BY <2>5
    <3> QED
      BY <3>1
  <2>6. CASE /\ ~ rules[1].hit /\ ~ rules[2].hit /\ ~ rules[3].hit /\ ~ rules[4].hit
             /\ ~ rules[5].hit /\ rules[6].hit
    <3>1. First(6)
      BY <2>6
    <3> QED
      BY <3>1
  <2>7. CASE /\ ~ rules[1].hit /\ ~ rules[2].hit /\ ~ rules[3].hit /\ ~ rules[4].hit
             /\ ~ rules[5].hit /\ ~ rules[6].hit /\ rules[7].hit
    <3>1. First(7)
      BY <2>7
    <3> QED
      BY <3>1
  <2>8. CASE /\ ~ rules[1].hit /\ ~ rules[2].hit /\ ~ rules[3].hit /\ ~ rules[4].hit
             /\ ~ rules[5].hit /\ ~ rules[6].hit /\ ~ rules[7].hit
    <3>1. First(8)
      BY <1>1, <2>8
    <3> QED
      BY <3>1
  <2> QED
    BY <2>1, <2>2, <2>3, <2>4, <2>5, <2>6, <2>7, <2>8
<1>3. FirstHit(rules) = CHOOSE k \in 1..8 : First(k)
  BY <1>1 DEF FirstHit
<1>4. FirstHit(rules) \in 1..8 /\ First(FirstHit(rules))
  BY <1>2, <1>3
<1> QED
  BY <1>4 DEF rules

\* A tool that runs a shell is denied by whichever rule comes first.
LEMMA ShellIsDenied ==
  ASSUME NEW c, NEW n, NEW arg, NEW raises \in BOOLEAN, RiskLevel(n) = "R5_SHELL"
  PROVE  Evaluate(c, n, arg, raises) = "deny"
<1> DEFINE rules == Rules(c, n, arg)
           k == FirstHit(rules)
<1>1. CASE raises
  BY <1>1 DEF Evaluate, MustFailClosed
<1>2. CASE ~ raises
  <2>1. k \in 1..8 /\ rules[k].hit
    BY FirstHitIsFirst
  <2>2. ~ rules[4].hit /\ ~ rules[6].hit /\ ~ rules[7].hit
    BY DEF Rules
  <2>3. /\ rules[1].act = "deny" /\ rules[2].act = "deny" /\ rules[3].act = "deny"
        /\ rules[5].act = "deny" /\ rules[8].act = "deny"
    BY DEF Rules
  <2>4. Evaluate(c, n, arg, raises) = rules[k].act
    BY <1>2 DEF Evaluate
  <2> HIDE DEF k, rules
  <2>5. k = 1 \/ k = 2 \/ k = 3 \/ k = 4 \/ k = 5 \/ k = 6 \/ k = 7 \/ k = 8
    BY <2>1
  <2> QED
    BY <2>1, <2>2, <2>3, <2>4, <2>5
<1> QED
  BY <1>1, <1>2

\* A tool that trades is denied unless all the checks hold and it is not the
\* scheduler that calls.
LEMMA TradeNeedsLeave ==
  ASSUME NEW c, NEW n, NEW arg, NEW raises \in BOOLEAN, RiskLevel(n) = "R4_TRADE_WRITE",
         Evaluate(c, n, arg, raises) # "deny"
  PROVE  AllChecks(c) /\ c.surface # "scheduler"
<1> DEFINE rules == Rules(c, n, arg)
           k == FirstHit(rules)
<1>1. ~ raises
  BY DEF Evaluate, MustFailClosed
<1>2. k \in 1..8 /\ rules[k].hit /\ \A j \in 1..k-1 : ~ rules[j].hit
  BY FirstHitIsFirst
<1>3. Evaluate(c, n, arg, raises) = rules[k].act
  BY <1>1 DEF Evaluate
<1>4. /\ rules[4].hit /\ (c.surface = "scheduler" => rules[2].hit)
      /\ rules[1].act = "deny" /\ rules[2].act = "deny" /\ rules[3].act = "deny"
      /\ rules[4].act = IF AllChecks(c) THEN "allow" ELSE "deny"
  BY DEF Rules
<1> HIDE DEF k, rules
<1>5. k = 1 \/ k = 2 \/ k = 3 \/ k = 4
  <2>1. ~(4 \in 1..k-1)
    BY <1>2, <1>4
  <2> QED
    BY <1>2, <2>1
<1>6. k = 4
  BY <1>3, <1>4, <1>5
<1>7. ~ rules[2].hit
  BY <1>2, <1>6
<1> QED
  BY <1>3, <1>4, <1>6, <1>7

-----------------------------------------------------------------------------
(* Sequences that grow. *)

\* What Append does to a sequence whose elements have no common type.
LEMMA Grows ==
  ASSUME NEW q, IsSequence(q), NEW x
  PROVE  /\ IsSequence(Append(q, x)) /\ Len(q) \in Nat
         /\ Len(Append(q, x)) = Len(q) + 1 /\ Append(q, x)[Len(q) + 1] = x
         /\ \A i \in 1..Len(q) : Append(q, x)[i] = q[i]
<1> DEFINE T == Range(q) \cup {x}
<1>1. q \in Seq(T) /\ x \in T
  <2>1. q \in Seq(Range(q)) /\ Range(q) \subseteq T
    BY DEF IsSequence
  <2> QED
    BY <2>1, SeqMonotonic
<1> HIDE DEF T
<1>2. Append(q, x) \in Seq(T)
  BY <1>1
<1>3. IsSequence(Append(q, x))
  BY <1>2, SeqOfRange DEF IsSequence
<1> QED
  BY <1>1, <1>3

-----------------------------------------------------------------------------
(* The steps. *)

\* The configured servers, in their order.
LEMMA ServersAreListed ==
  ASSUME SetupType
  PROVE  /\ Servers \in Seq(ServerSet)
         /\ \A s \in ServerSet : \E i \in 1..Len(Servers) : Servers[i] = s
         /\ \A i, j \in 1..Len(Servers) : Servers[i] = Servers[j] => i = j
<1> DEFINE n == Cardinality(ServerSet)
<1>1. IsFiniteSet(ServerSet) /\ n \in Nat
  BY StackAssumption, FS_CardinalityType
<1>2. Servers \in Injection(1..n, ServerSet)
  BY DEF SetupType, Servers, Orders, Injection
<1>3. IsFiniteSet(1..n) /\ Cardinality(1..n) = n
  BY <1>1, FS_Interval
<1>4. Servers \in Surjection(1..n, ServerSet)
  BY <1>1, <1>2, <1>3, FS_Injection
<1> HIDE DEF n
<1>5. Servers \in [1..n -> ServerSet]
  BY <1>4 DEF Surjection
<1>6. Servers \in Seq(ServerSet) /\ Len(Servers) = n
  BY <1>1, <1>5
<1>7. \A i, j \in 1..n : Servers[i] = Servers[j] => i = j
  BY <1>2 DEF Injection, IsInjective
<1>8. \A s \in ServerSet : \E i \in 1..n : Servers[i] = s
  BY <1>4 DEF Surjection
<1> QED
  BY <1>6, <1>7, <1>8

\* The first state: local tools only, no server asked, no call made.
LEMMA StackInitHolds == StackInit => StackInv
<1> SUFFICES ASSUME StackInit PROVE StackInv
  OBVIOUS
<1>1. SetupType
  BY StackAssumption DEF StackInit, SetupType
<1>2. BooksType
  <2>1. \A S : << >> \in Seq(S)
    OBVIOUS
  <2> QED
    BY <2>1 DEF StackInit, BooksType, IsSequence
<1>3. CallInv
  BY DEF StackInit, CallInv, NothingPending
<1>4. Discovery
  <2>1. Len(Servers) \in Nat
    BY <1>1, ServersAreListed
  <2>2. \A n : Claimants(n) = {}
    BY DEF StackInit, Claimants
  <2>3. \A n : IsBound(n)
    BY <2>2 DEF StackInit, IsBound, Names
  <2> QED
    BY <2>1, <2>3 DEF StackInit, Discovery
<1>5. FailureIsIsolated
  BY DEF StackInit, FailureIsIsolated
<1> QED
  BY <1>1, <1>2, <1>3, <1>4, <1>5 DEF StackInv

\* Building the registry touches no call.
LEMMA BooksUntouched ==
  ASSUME BooksType, CallInv, UNCHANGED <<context, pending, calls, effects, verdicts>>
  PROVE  BooksType' /\ CallInv'
BY DEF BooksType, CallInv, Permitted

\* A call touches neither the registry nor what is known of the servers.
LEMMA SetupUntouched ==
  ASSUME SetupType, Discovery, FailureIsIsolated,
         UNCHANGED <<config, context, phase, at, registry, answered, unreachable>>
  PROVE  SetupType' /\ Discovery' /\ FailureIsIsolated'
<1>1. SetupType'
  BY DEF SetupType
<1>2. \A n : IsBound(n)' <=> IsBound(n)
  BY DEF IsBound, Claimants, Servers, Names
<1>3. Discovery'
  BY <1>2 DEF Discovery, Settled, Servers
<1>4. FailureIsIsolated'
  BY <1>2 DEF FailureIsIsolated, Names
<1> QED
  BY <1>1, <1>3, <1>4

\* Names keep their meaning when nothing is registered and nobody answers.
LEMMA BindingsStay ==
  ASSUME NEW n, UNCHANGED <<config, registry, answered>>
  PROVE  IsBound(n)' <=> IsBound(n)
BY DEF IsBound, Claimants, Servers, Names

\* A server is passed over because it is hidden or not wanted.
LEMMA SkipKeeps ==
  ASSUME StackInv, SkipServer
  PROVE  StackInv'
<1>1. /\ phase = "discover" /\ at' = at + 1 /\ Servers' = Servers /\ Names' = Names
      /\ UNCHANGED <<config, context, phase, registry, answered, unreachable, pending, calls, effects, verdicts>>
  BY DEF SkipServer, Servers, Names
<1>2. SetupType'
  BY <1>1 DEF StackInv, SetupType
<1>3. Discovery'
  <2>1. at \in Nat /\ Settled(at)
    BY DEF StackInv, SetupType, SkipServer, Settled
  <2>2. \A i \in 1..Len(Servers) : i < at + 1 => Settled(i)
    BY <1>1, <2>1 DEF StackInv, Discovery
  <2>3. \A i \in 1..Len(Servers) : i < at' => Settled(i)'
    BY <1>1, <2>2 DEF Settled
  <2>4. \A n : IsBound(n)'
    BY <1>1, BindingsStay DEF StackInv, Discovery
  <2>5. \A i \in 1..Len(Servers) : Servers[i] \in answered => i < at'
    BY <1>1, <2>1 DEF StackInv, Discovery
  <2> QED
    BY <1>1, <2>3, <2>4, <2>5 DEF Discovery
<1>4. FailureIsIsolated'
  BY <1>1 DEF FailureIsIsolated
<1> QED
  BY <1>1, <1>2, <1>3, <1>4, BooksUntouched DEF StackInv

\* The server in turn answers: its names now stand for its tools, and the
\* other names for what they did.
LEMMA RegisteringBinds ==
  ASSUME NEW n, IsBound(n), at \in 1..Len(Servers), config' = config,
         \A i \in 1..Len(Servers) : Servers[i] \in answered => i < at,
         \A i \in 1..Len(Servers) : Servers[i] \in answered' <=> Servers[i] \in answered \/ i = at,
         Names' = Names \cup DOMAIN Specs(config, Servers[at]),
         \A m \in Names' : registry'[m] = IF m \in DOMAIN Specs(config, Servers[at])
                                          THEN Specs(config, Servers[at])[m] ELSE registry[m]
  PROVE  IsBound(n)'
<1> DEFINE mine == n \in DOMAIN Specs(config, Servers[at])
           c == Claimants(n)
           d == Claimants(n)'
<1>1. Servers' = Servers /\ LocalTools' = LocalTools
  BY DEF Servers, LocalTools
<1>2. \A i \in c : i \in 1..Len(Servers) /\ i < at
  BY DEF Claimants
<1>3. d = c \cup (IF mine THEN {at} ELSE {})
  BY <1>1 DEF Claimants
<1>4. at \in Int /\ \A i \in c : i \in Int
  BY <1>2
<1> HIDE DEF c, d
<1>5. CASE mine
  <2>1. n \in Names' /\ registry'[n] = Specs(config, Servers[at])[n]
    BY <1>5
  <2>2. \A i \in d : (\A j \in d : j <= i) => i = at
    BY <1>2, <1>3, <1>4, <1>5
  <2>3. /\ n \in Names' <=> n \in DOMAIN LocalTools \/ d # {}
        /\ n \in Names' /\ d = {} => registry'[n] = LocalTools[n]
        /\ \A i \in d : (\A j \in d : j <= i) => registry'[n] = Specs(config, Servers[i])[n]
    BY <1>3, <1>5, <2>1, <2>2
  <2> QED
    BY <1>1, <2>3 DEF IsBound, d
<1>6. CASE ~ mine
  <2>1. (n \in Names' <=> n \in Names) /\ (n \in Names => registry'[n] = registry[n]) /\ d = c
    BY <1>3, <1>6
  <2>2. /\ n \in Names <=> n \in DOMAIN LocalTools \/ c # {}
        /\ n \in Names /\ c = {} => registry[n] = LocalTools[n]
        /\ \A i \in c : (\A j \in c : j <= i) => registry[n] = Specs(config, Servers[i])[n]
    BY DEF IsBound, c
  <2>3. /\ n \in Names' <=> n \in DOMAIN LocalTools \/ d # {}
        /\ n \in Names' /\ d = {} => registry'[n] = LocalTools[n]
        /\ \A i \in d : (\A j \in d : j <= i) => registry'[n] = Specs(config, Servers[i])[n]
    BY <2>1, <2>2
  <2> QED
    BY <1>1, <2>3 DEF IsBound, d
<1> QED
  BY <1>5, <1>6

\* A server answers, and its tools are in the registry from then on.
LEMMA ListKeeps ==
  ASSUME StackInv, ListTools
  PROVE  StackInv'
<1>1. /\ phase = "discover" /\ at' = at + 1 /\ Servers' = Servers
      /\ registry' = Registered(registry, Specs(config, Servers[at]))
      /\ answered' = answered \cup {Servers[at]}
      /\ UNCHANGED <<config, context, phase, unreachable, pending, calls, effects, verdicts>>
  BY DEF ListTools, Servers
<1>2. /\ Names' = Names \cup DOMAIN Specs(config, Servers[at])
      /\ \A n \in Names' : registry'[n] = IF n \in DOMAIN Specs(config, Servers[at])
                                          THEN Specs(config, Servers[at])[n] ELSE registry[n]
  BY <1>1 DEF Names, Registered
<1>3. SetupType'
  BY <1>1 DEF StackInv, SetupType
<1>4. Discovery'
  <2>1. at \in Nat
    BY DEF StackInv, SetupType
  <2>2. \A i \in 1..Len(Servers) : i < at + 1 => Settled(i) \/ i = at
    BY <1>1, <2>1 DEF StackInv, Discovery
  <2>3. \A i \in 1..Len(Servers) : i < at' => Settled(i)'
    BY <1>1, <2>2 DEF Settled
  <2>4. at \in 1..Len(Servers)
    <3>1. Len(Servers) \in Nat /\ at \in Nat \ {0} /\ at <= Len(Servers)
      BY ServersAreListed DEF ListTools, StackInv, SetupType
    <3> QED
      BY <3>1
  <2>5. \A i \in 1..Len(Servers) : Servers[i] \in answered' <=> Servers[i] \in answered \/ i = at
    BY <1>1, <2>4, ServersAreListed DEF StackInv
  <2>6. \A i \in 1..Len(Servers) : Servers[i] \in answered' => i < at'
    BY <1>1, <2>1, <2>5 DEF StackInv, Discovery
  <2>7. ASSUME NEW n PROVE IsBound(n)'
    BY <1>1, <1>2, <2>1, <2>4, <2>5, RegisteringBinds DEF StackInv, Discovery
  <2> QED
    BY <1>1, <2>3, <2>6, <2>7 DEF Discovery
<1>5. FailureIsIsolated'
  BY <1>1 DEF FailureIsIsolated
<1> QED
  BY <1>1, <1>3, <1>4, <1>5, BooksUntouched DEF StackInv

\* A server fails: it is tried again or given up, and the next one is asked.
LEMMA ListFailsKeeps ==
  ASSUME StackInv, NEW transient \in BOOLEAN, ListFails(transient)
  PROVE  StackInv'
<1>1. /\ phase = "discover" /\ Servers' = Servers /\ Names' = Names
      /\ UNCHANGED <<config, context, phase, registry, answered, pending, calls, effects, verdicts>>
  BY DEF ListFails, Servers, Names
<1>2. \/ UNCHANGED <<at, unreachable>>
      \/ at' = at + 1 /\ unreachable' = unreachable \cup {Servers[at]}
  BY DEF ListFails, AfterFailure
<1>3. at \in Nat
  BY DEF StackInv, SetupType
<1>4. SetupType'
  BY <1>1, <1>2, <1>3 DEF StackInv, SetupType
<1>5. Discovery'
  <2>1. \A i \in 1..Len(Servers) : i < at' => Settled(i)'
    <3>1. \A i \in 1..Len(Servers) : i < at + 1 => Settled(i) \/ i = at
      BY <1>1, <1>3 DEF StackInv, Discovery
    <3>2. \A i \in 1..Len(Servers) : i < at => Settled(i)
      BY <1>1 DEF StackInv, Discovery
    <3>3. CASE UNCHANGED <<at, unreachable>>
      BY <1>1, <3>2, <3>3 DEF Settled
    <3>4. CASE at' = at + 1 /\ unreachable' = unreachable \cup {Servers[at]}
      BY <1>1, <3>1, <3>4 DEF Settled
    <3> QED
      BY <1>2, <3>3, <3>4
  <2>2. \A n : IsBound(n)'
    BY <1>1, BindingsStay DEF StackInv, Discovery
  <2>3. \A i \in 1..Len(Servers) : Servers[i] \in answered => i < at'
    BY <1>1, <1>2, <1>3 DEF StackInv, Discovery
  <2> QED
    BY <1>1, <2>1, <2>2, <2>3 DEF Discovery
<1>6. FailureIsIsolated'
  BY <1>1 DEF FailureIsIsolated
<1> QED
  BY <1>1, <1>4, <1>5, <1>6, BooksUntouched DEF StackInv

\* The whitelist drops what was not requested, and nothing else.
LEMMA FilterKeeps ==
  ASSUME StackInv, Filter
  PROVE  StackInv'
<1>1. /\ phase = "discover" /\ phase' = "ready" /\ at > Len(Servers)
      /\ registry' = [n \in Names \cap Requested |-> registry[n]]
      /\ UNCHANGED <<config, context, at, answered, unreachable, pending, calls, effects, verdicts>>
  BY DEF Filter
<1>2. Names' = Names \cap Requested
  BY <1>1 DEF Names
<1>3. SetupType'
  BY <1>1 DEF StackInv, SetupType
<1>4. Discovery'
  BY <1>1 DEF Discovery
<1>5. FailureIsIsolated'
  <2>1. Names' \subseteq Requested
    BY <1>2
  <2>2. ASSUME NEW n \in Requested
        PROVE  IsBound(n)'
    <3>1. IsBound(n)
      BY <1>1 DEF StackInv, Discovery
    <3>2. (n \in Names' <=> n \in Names) /\ (n \in Names => registry'[n] = registry[n])
      BY <1>1, <1>2
    <3>3. Claimants(n)' = Claimants(n) /\ Servers' = Servers /\ LocalTools' = LocalTools
      BY <1>1 DEF Claimants, Servers, LocalTools
    <3>4. \A i \in Claimants(n) : (\A j \in Claimants(n) : j <= i) => registry'[n] = Specs(config, Servers[i])[n]
      BY <3>1, <3>2 DEF IsBound
    <3> QED
      BY <1>1, <3>1, <3>2, <3>3, <3>4 DEF IsBound
  <2>3. \A s \in ServerSet \ Live : Selected(config, s) => s \in answered \cup unreachable
    <3> SUFFICES ASSUME NEW s \in ServerSet \ Live, Selected(config, s)
                 PROVE  s \in answered \cup unreachable
      OBVIOUS
    <3>1. PICK i \in 1..Len(Servers) : Servers[i] = s
      BY ServersAreListed DEF StackInv
    <3>2. i < at
      <4>1. Len(Servers) \in Nat /\ at \in Nat
        BY ServersAreListed DEF StackInv, SetupType
      <4> QED
        BY <1>1, <4>1
    <3>3. Settled(i)
      BY <1>1, <3>2 DEF StackInv, Discovery
    <3> QED
      BY <3>1, <3>3 DEF Settled
  <2> QED
    BY <1>1, <2>1, <2>2, <2>3 DEF FailureIsIsolated
<1> QED
  BY <1>1, <1>3, <1>4, <1>5, BooksUntouched DEF StackInv

\* A call is decided: it is under way only if the decision permits it.
LEMMA ExecuteKeeps ==
  ASSUME StackInv, NEW n \in Requested, NEW arg \in Args, NEW raises \in BOOLEAN, Execute(n, arg, raises)
  PROVE  StackInv'
<1> DEFINE act == IF context.mode = "off" THEN "off" ELSE Evaluate(context, n, arg, raises)
           rec == [name |-> n, arg |-> arg, level |-> RiskLevel(n)]
<1>0. PICK k : k = Len(effects) + 1
  OBVIOUS
<1>1. /\ pending = NothingPending
      /\ calls' = Append(calls, rec) /\ verdicts' = Append(verdicts, act) /\ effects' = Append(effects, 0)
      /\ pending' = (IF Blocked(context, n, act) \/ n \notin Names THEN NothingPending
                  ELSE [stage |-> IF registry[n].server = "local" THEN "local" ELSE "remote", name |-> n])
      /\ UNCHANGED <<config, context, phase, at, registry, answered, unreachable>>
  BY DEF Execute
<1>2. SetupType' /\ Discovery' /\ FailureIsIsolated'
  BY <1>1, SetupUntouched DEF StackInv
<1>3. rec.level = RiskLevel(n)
  OBVIOUS
<1> HIDE DEF rec
<1>4. /\ IsSequence(calls') /\ Len(calls') = k /\ calls'[k] = rec
      /\ \A i \in 1..Len(effects) : calls'[i] = calls[i]
  BY <1>0, <1>1, Grows DEF StackInv, BooksType
<1>5. ~ Blocked(context, n, act) => Permitted(k)'
  <2> SUFFICES ASSUME ~ Blocked(context, n, act)
               PROVE  Permitted(k)'
    OBVIOUS
  <2>1. verdicts'[k] = act /\ calls'[k].level = RiskLevel(n) /\ context' = context
    BY <1>0, <1>1, <1>3, <1>4, Grows DEF StackInv, BooksType
  <2>2. context.mode = "enforce" => act # "deny"
    BY DEF Blocked
  <2>3. ASSUME context.mode # "off", RiskLevel(n) = "R5_SHELL"
        PROVE  FALSE
    BY <2>3, ShellIsDenied DEF Blocked
  <2>4. ASSUME context.mode # "off", RiskLevel(n) = "R4_TRADE_WRITE"
        PROVE  context.checks = Checks /\ context.surface # "scheduler"
    <3>1. act = Evaluate(context, n, arg, raises) /\ act # "deny"
      BY <2>4 DEF Blocked
    <3>2. AllChecks(context) /\ context.surface # "scheduler"
      BY <2>4, <3>1, TradeNeedsLeave
    <3> QED
      BY <3>2 DEF AllChecks, StackInv, SetupType
  <2> HIDE DEF act
  <2>5. context.mode # "off" => /\ RiskLevel(n) = "R4_TRADE_WRITE" => /\ context.checks = Checks
                                                                     /\ context.surface # "scheduler"
                                /\ RiskLevel(n) # "R5_SHELL"
    BY <2>3, <2>4
  <2> QED
    BY <2>1, <2>2, <2>5 DEF Permitted
<1> HIDE DEF act
<1>6. /\ IsSequence(verdicts') /\ Len(verdicts') = k /\ verdicts'[k] = act
      /\ \A i \in 1..Len(effects) : verdicts'[i] = verdicts[i]
  BY <1>0, <1>1, Grows DEF StackInv, BooksType
<1>7. /\ effects' \in Seq(Nat) /\ Len(effects') = k /\ effects'[k] = 0 /\ Len(effects) \in Nat
      /\ \A i \in 1..Len(effects) : effects'[i] = effects[i]
  BY <1>0, <1>1 DEF StackInv, BooksType
<1>8. BooksType'
  BY <1>4, <1>6, <1>7 DEF BooksType
<1>9. CallInv'
  <2>1. \A i \in 1..Len(effects) : effects'[i] <= 1 /\ (effects'[i] > 0 => Permitted(i)')
    <3>1. \A i \in 1..Len(effects) : Permitted(i) => Permitted(i)'
      BY <1>1, <1>4, <1>6 DEF Permitted
    <3> QED
      BY <1>7, <3>1 DEF StackInv, CallInv
  <2>2. \A i \in 1..k : effects'[i] <= 1 /\ (effects'[i] > 0 => Permitted(i)')
    BY <1>0, <1>7, <2>1
  <2>3. pending'.stage # "none" => ~ Blocked(context, n, act)
    BY <1>1 DEF NothingPending
  <2>4. pending'.stage # "none" => k > 0 /\ effects'[k] = 0 /\ Permitted(k)'
    BY <1>0, <1>5, <1>7, <2>3
  <2> QED
    BY <1>7, <2>2, <2>4 DEF CallInv
<1> QED
  BY <1>2, <1>8, <1>9 DEF StackInv

\* The call under way ends, with its effect or without.
LEMMA EffectKeeps ==
  ASSUME StackInv, pending.stage # "none", effects' = effects \/ effects' = Took(1), pending' = NothingPending,
         UNCHANGED <<config, context, phase, at, registry, answered, unreachable, calls, verdicts>>
  PROVE  StackInv'
<1>1. SetupType' /\ Discovery' /\ FailureIsIsolated'
  BY SetupUntouched DEF StackInv
<1> DEFINE l == Len(effects)
<1>2. effects \in Seq(Nat) /\ l \in Nat /\ l > 0 /\ effects[l] = 0 /\ Permitted(l)
  BY DEF StackInv, BooksType, CallInv
<1>3. /\ effects' \in Seq(Nat) /\ Len(effects') = l
      /\ \A i \in 1..l : i # l => effects'[i] = effects[i]
      /\ effects'[l] <= 1
  <2>1. CASE effects' = effects
    BY <1>2, <2>1
  <2>2. CASE effects' = Took(1)
    <3>1. effects' = [effects EXCEPT ![l] = 1]
      BY <1>2, <2>2 DEF Took
    <3> QED
      BY <1>2, <3>1
  <2> QED
    BY <2>1, <2>2
<1>4. BooksType'
  BY <1>3 DEF StackInv, BooksType
<1>5. CallInv'
  <2>1. \A i \in 1..l : Permitted(i) => Permitted(i)'
    BY DEF Permitted
  <2>2. \A i \in 1..l : effects'[i] <= 1 /\ (effects'[i] > 0 => Permitted(i))
    BY <1>2, <1>3 DEF StackInv, CallInv
  <2> QED
    BY <1>3, <2>1, <2>2 DEF CallInv, NothingPending
<1> QED
  BY <1>1, <1>4, <1>5 DEF StackInv

\* Every step keeps the invariant.
LEMMA StackStepKeeps == StackInv /\ [StackNext]_stackVars => StackInv'
<1> SUFFICES ASSUME StackInv, [StackNext]_stackVars PROVE StackInv'
  OBVIOUS
<1>1. CASE SkipServer
  BY <1>1, SkipKeeps
<1>2. CASE ListTools
  BY <1>2, ListKeeps
<1>3. CASE Filter
  BY <1>3, FilterKeeps
<1>4. CASE RunLocal
  BY <1>4, EffectKeeps DEF RunLocal
<1>5. CASE CallRemote
  BY <1>5, EffectKeeps DEF CallRemote, AfterLoss
<1>6. ASSUME NEW transient \in BOOLEAN, ListFails(transient)
      PROVE  StackInv'
  BY <1>6, ListFailsKeeps
<1>7. ASSUME NEW n \in Requested, NEW arg \in Args, NEW raises \in BOOLEAN, Execute(n, arg, raises)
      PROVE  StackInv'
  BY <1>7, ExecuteKeeps
<1>8. CASE UNCHANGED stackVars
  BY <1>8, SetupUntouched, BooksUntouched DEF stackVars, StackInv
<1> QED
  BY <1>1, <1>2, <1>3, <1>4, <1>5, <1>6, <1>7, <1>8 DEF StackNext

-----------------------------------------------------------------------------
\* For any servers, tools, contexts and number of calls: a call takes effect
\* at most once, even when its answer is lost (mcp.py, _call_tool).
THEOREM OneEffectPerCall == StackSpec => []CallsTakeEffectOnce
<1>1. StackInv => CallsTakeEffectOnce
  BY DEF StackInv, BooksType, CallInv, CallsTakeEffectOnce
<1> QED
  BY <1>1, StackInitHolds, StackStepKeeps, PTL DEF StackSpec

\* For any servers, tools and contexts: what trades takes effect only with
\* all checks and not for the scheduler, what runs a shell not at all, and
\* nothing denied takes effect where denials are enforced (policy_engine.py,
\* PolicyEngine.evaluate; runtime.py, GovernedToolRegistry.execute).
THEOREM OnlyPermittedEffects == StackSpec => []EffectsArePermitted
<1>1. StackInv => EffectsArePermitted
  <2> SUFFICES ASSUME StackInv PROVE HighRiskNeedsLeave /\ DenialsHold
    BY DEF EffectsArePermitted
  <2>1. /\ \A i \in DOMAIN effects : effects[i] > 0 => Permitted(i)
        /\ \A i \in DOMAIN effects : effects[i] \in Nat
    BY DEF StackInv, BooksType, CallInv
  <2>2. HighRiskNeedsLeave
    BY <2>1 DEF HighRiskNeedsLeave, Permitted
  <2>3. DenialsHold
    BY <2>1 DEF DenialsHold, Permitted
  <2> QED
    BY <2>2, <2>3
<1> QED
  BY <1>1, StackInitHolds, StackStepKeeps, PTL DEF StackSpec

\* For any servers in any order, whichever of their names collide: a worker
\* has the requested names that a local tool or a server that answered has,
\* and no others; each stands for the tool of the last of those servers; and
\* every other server it wanted was really tried (tools/__init__.py,
\* build_registry, build_swarm_registry).
THEOREM FailuresAreIsolated == StackSpec => []FailureIsIsolated
<1>1. StackInv => FailureIsIsolated
  BY DEF StackInv
<1> QED
  BY <1>1, StackInitHolds, StackStepKeeps, PTL DEF StackSpec


-----------------------------------------------------------------------------
(***************************************************************************)
(* Loops over a sequence, which the model writes as recursive functions.   *)
(***************************************************************************)
LEMMA LeastNat ==
    ASSUME NEW S \in SUBSET Nat, S # {}
    PROVE  \E m \in S : \A k \in S : m <= k
<1> DEFINE R == OpToRel(<, Nat)
<1>1. IsWellFoundedOn(R, Nat)
  BY NatLessThanWellFounded
<1>2. PICK x \in S : \A y \in S : ~ (<<y, x>> \in R)
  BY <1>1, WFMin, Zenon
<1>3. ASSUME NEW y \in S PROVE x <= y
  <2>1. x \in Nat /\ y \in Nat
    OBVIOUS
  <2>2. ~ (y < x)
    BY <1>2, <2>1 DEF OpToRel
  <2> QED BY <2>1, <2>2
<1> QED BY <1>3

(* Induction over 0..N, for a set of good numbers. *)
LEMMA CountUp ==
    ASSUME NEW N \in Nat, NEW Good, 0 \in Good, \A i \in 1..N : i - 1 \in Good => i \in Good
    PROVE  \A i \in 0..N : i \in Good
<1> DEFINE Bad == {i \in 0..N : i \notin Good}
<1>1. SUFFICES ASSUME Bad # {} PROVE FALSE
  OBVIOUS
<1>2. PICK m \in Bad : \A k \in Bad : m <= k
  BY <1>1, LeastNat, Bad \in SUBSET Nat
<1>3. m \in 1..N /\ m - 1 \in 0..N
  BY <1>2
<1>4. m - 1 \in Good
  BY <1>2, <1>3
<1> QED BY <1>2, <1>3, <1>4

(* g holds what a loop has after each of n rounds, when it begins with base *)
(* and does F's step in each.                                               *)
LoopRuns(g, n, base, F) ==
    /\ g = [i \in 0..n |-> g[i]]
    /\ g[0] = base /\ \A i \in 1..n : g[i] = F[<<i, g[i-1]>>]

LEMMA LoopExists ==
    ASSUME NEW N \in Nat, NEW base, NEW F
    PROVE  \E g : LoopRuns(g, N, base, F)
<1> DEFINE Good == {n \in 0..N : \E g : LoopRuns(g, n, base, F)}
<1>1. 0 \in Good
  <2> DEFINE z == [i \in 0..0 |-> base]
  <2>1. z = [i \in 0..0 |-> z[i]] /\ z[0] = base
    OBVIOUS
  <2> HIDE DEF z
  <2>2. LoopRuns(z, 0, base, F)
    BY <2>1 DEF LoopRuns
  <2> QED BY <2>2
<1>2. ASSUME NEW n \in 1..N, n - 1 \in Good PROVE n \in Good
  <2>1. PICK g : LoopRuns(g, n - 1, base, F)
    BY <1>2
  <2> DEFINE h == [i \in 0..n |-> IF i = n THEN F[<<n, g[n-1]>>] ELSE g[i]]
  <2>2. h = [i \in 0..n |-> h[i]] /\ h[n] = F[<<n, g[n-1]>>] /\ \A i \in 0..(n - 1) : h[i] = g[i]
    OBVIOUS
  <2>6. h[n] = F[<<n, h[n-1]>>]
    <3>1. h[n] = F[<<n, g[n-1]>>]
      BY <2>2, Zenon
    <3>2. n - 1 \in 0..(n - 1)
      OBVIOUS
    <3>3. h[n-1] = g[n-1]
      BY <2>2, <3>2, Zenon
    <3> QED BY <3>1, <3>3, Zenon
  <2> HIDE DEF h
  <2>3. h[0] = base
    BY <2>1, <2>2, 0 \in 0..(n - 1) DEF LoopRuns
  <2>4. ASSUME NEW i \in 1..n PROVE h[i] = F[<<i, h[i-1]>>]
    <3>1. CASE i = n
      BY <3>1, <2>6, Zenon
    <3>2. CASE i # n
      <4>1. i \in 1..(n - 1) /\ i \in 0..(n - 1) /\ i - 1 \in 0..(n - 1)
        BY <3>2
      <4> QED BY <4>1, <2>1, <2>2 DEF LoopRuns
    <3> QED BY <3>1, <3>2
  <2>5. LoopRuns(h, n, base, F)
    BY <2>2, <2>3, <2>4 DEF LoopRuns
  <2> QED BY <2>5
<1> HIDE DEF Good
<1>3. \A n \in 0..N : n \in Good
  BY <1>1, <1>2, CountUp
<1> QED BY <1>3 DEF Good

(* f lists the positions in I, up to n, that p picks from s. *)
Picks(f, s, I, p, n) ==
    /\ f \in [DOMAIN p -> I \cap (1..n)]
    /\ \A k \in DOMAIN p : p[k] = s[f[k]]
    /\ \A k, m \in DOMAIN p : k < m => f[k] < f[m]
    /\ \A i \in I \cap (1..n) : \E k \in DOMAIN p : f[k] = i

(* g holds what Picked has after each element. *)
PickLoop(g, s, I) ==
    g[0] = <<>> /\ \A n \in 1..Len(s) : g[n] = IF n \in I THEN Append(g[n-1], s[n]) ELSE g[n-1]

LEMMA PickedLoop ==
    ASSUME NEW S, NEW s \in Seq(S), NEW I
    PROVE  \E g : PickLoop(g, s, I) /\ g[Len(s)] = Picked(s, I)
<1> DEFINE N == Len(s)
           F == [q \in (1..N) \X Seq(S) |-> IF q[1] \in I THEN Append(q[2], s[q[1]]) ELSE q[2]]
           Loop(g) == g = [n \in 0..N |-> IF n = 0 THEN <<>> ELSE IF n \in I THEN Append(g[n-1], s[n]) ELSE g[n-1]]
<1>1. N \in Nat /\ \A i \in 1..N : s[i] \in S
  OBVIOUS
<1>2. PICK h : LoopRuns(h, N, <<>>, F)
  BY <1>1, LoopExists, Zenon
<1> HIDE DEF F
<1>4. \A n \in 1..N : h[n] = F[<<n, h[n-1]>>]
  BY <1>2, Zenon DEF LoopRuns
<1> USE DEF F
<1>12. ASSUME NEW n \in 1..N, NEW x \in Seq(S)
       PROVE  F[<<n, x>>] = (IF n \in I THEN Append(x, s[n]) ELSE x) /\ F[<<n, x>>] \in Seq(S)
  <2>1. F[<<n, x>>] = IF n \in I THEN Append(x, s[n]) ELSE x
    OBVIOUS
  <2> HIDE DEF F
  <2> QED BY <1>1, <2>1
<1> HIDE DEF F
<1>3. Loop(h)
  <2>1. \A n \in 0..N : h[n] \in Seq(S)
    <3> DEFINE Good == {n \in 0..N : h[n] \in Seq(S)}
    <3>1. 0 \in Good
      <4>1. h[0] = <<>> /\ 0 \in 0..N
        BY <1>1, <1>2 DEF LoopRuns
      <4>2. << >> \in Seq(S)
        OBVIOUS
      <4> QED BY <4>1, <4>2, Zenon
    <3>2. ASSUME NEW n \in 1..N, n - 1 \in Good PROVE n \in Good
      <4>1. h[n-1] \in Seq(S) /\ s[n] \in S /\ n \in 0..N
        BY <1>1, <3>2
      <4>2. h[n] = F[<<n, h[n-1]>>]
        BY <1>4
      <4> QED BY <4>1, <4>2, <1>12, Zenon
    <3> HIDE DEF Good
    <3>3. \A n \in 0..N : n \in Good
      <4>1. N \in Nat
        BY <1>1
      <4> QED BY <3>1, <3>2, <4>1, CountUp, Zenon
    <3> QED BY <3>3 DEF Good
  <2>2. ASSUME NEW n \in 0..N
        PROVE  h[n] = IF n = 0 THEN <<>> ELSE IF n \in I THEN Append(h[n-1], s[n]) ELSE h[n-1]
    <3>1. CASE n = 0
      BY <1>2, <3>1 DEF LoopRuns
    <3>2. CASE n # 0
      <4>1. n \in 1..N /\ n - 1 \in 0..N
        BY <3>2, <1>1
      <4>2. h[n] = F[<<n, h[n-1]>>] /\ h[n-1] \in Seq(S)
        BY <1>4, <2>1, <4>1, Zenon
      <4> QED BY <3>2, <4>1, <4>2, <1>12, Zenon
    <3> QED BY <3>1, <3>2
  <2> QED BY <1>2, <2>2 DEF LoopRuns
<1> DEFINE g == CHOOSE e : Loop(e)
<1>11. Loop(g)
  BY <1>3
<1>5. Picked(s, I) = g[N]
  BY DEF Picked
<1> HIDE DEF g
<1>9. g[0] = <<>> /\ \A n \in 1..N : g[n] = IF n \in I THEN Append(g[n-1], s[n]) ELSE g[n-1]
  <2>1. 0 \in 0..N
    BY <1>1
  <2>2. ASSUME NEW n \in 0..N
        PROVE  g[n] = IF n = 0 THEN <<>> ELSE IF n \in I THEN Append(g[n-1], s[n]) ELSE g[n-1]
    BY <1>11, Zenon
  <2>3. ASSUME NEW n \in 1..N PROVE n \in 0..N /\ n # 0
    BY <1>1
  <2> QED BY <2>1, <2>2, <2>3, Zenon
<1>10. PickLoop(g, s, I)
  BY <1>9 DEF PickLoop
<1> QED BY <1>5, <1>10

LEMMA PickedPicks ==
    ASSUME NEW S, NEW s \in Seq(S), NEW I
    PROVE  Picked(s, I) \in Seq(S) /\ \E f : Picks(f, s, I, Picked(s, I), Len(s))
<1> DEFINE N == Len(s)
<1>1. N \in Nat /\ \A i \in 1..N : s[i] \in S
  OBVIOUS
<1>5. PICK g : PickLoop(g, s, I) /\ g[N] = Picked(s, I)
  BY PickedLoop, Zenon
<1>9. g[0] = <<>> /\ \A n \in 1..N : g[n] = IF n \in I THEN Append(g[n-1], s[n]) ELSE g[n-1]
  BY <1>5 DEF PickLoop
<1> DEFINE Good == {n \in 0..N : g[n] \in Seq(S) /\ \E f : Picks(f, s, I, g[n], n)}
<1>6. 0 \in Good
  <2>1. g[0] = <<>>
    BY <1>9
  <2>2. DOMAIN << >> = {} /\ 1..0 = {}
    OBVIOUS
  <2>4. [k \in {} |-> 0] \in [{} -> I \cap (1..0)]
    OBVIOUS
  <2>3. Picks([k \in {} |-> 0], s, I, <<>>, 0)
    BY <2>2, <2>4, Zenon DEF Picks
  <2>5. << >> \in Seq(S) /\ 0 \in 0..N
    BY <1>1
  <2> QED BY <2>1, <2>3, <2>5, Zenon
<1>7. ASSUME NEW n \in 1..N, n - 1 \in Good PROVE n \in Good
  <2> DEFINE p == g[n-1]
             r == g[n]
             L == Len(p)
  <2>1. p \in Seq(S) /\ n - 1 \in 0..N /\ s[n] \in S /\ n \in 0..N
    BY <1>1, <1>7
  <2>2. PICK f : Picks(f, s, I, p, n - 1)
    BY <1>7
  <2>3. r = IF n \in I THEN Append(p, s[n]) ELSE p
    BY <1>9
  <2> HIDE DEF p, r
  <2>4. CASE n \notin I
    <3>1. r = p /\ I \cap (1..n) = I \cap (1..(n - 1))
      BY <2>3, <2>4
    <3>2. Picks(f, s, I, r, n)
      BY <3>1, <2>2 DEF Picks
    <3> QED BY <3>1, <3>2, <2>1 DEF p, r
  <2>5. CASE n \in I
    <3> DEFINE e == [k \in 1..(L + 1) |-> IF k = L + 1 THEN n ELSE f[k]]
    <3>1. r \in Seq(S) /\ L \in Nat /\ DOMAIN p = 1..L /\ DOMAIN r = 1..(L + 1) /\ r[L + 1] = s[n] /\ \A k \in 1..L : r[k] = p[k]
      BY <2>1, <2>3, <2>5
    <3>2. \A k \in 1..L : f[k] \in I /\ f[k] \in 1..(n - 1) /\ p[k] = s[f[k]]
      BY <2>2, <3>1 DEF Picks
    <3>3. e[L + 1] = n /\ \A k \in 1..L : e[k] = f[k]
      BY <3>1
    <3>4. e \in [1..(L + 1) -> I \cap (1..n)]
      BY <2>5, <3>1, <3>2
    <3> HIDE DEF e
    <3>5. \A k \in 1..(L + 1) : r[k] = s[e[k]]
      BY <3>1, <3>2, <3>3
    <3>6. ASSUME NEW k \in 1..(L + 1), NEW m \in 1..(L + 1), k < m PROVE e[k] < e[m]
      <4>1. k \in 1..L
        BY <3>1, <3>6
      <4>2. CASE m = L + 1
        BY <4>1, <4>2, <3>2, <3>3
      <4>3. CASE m # L + 1
        <5>1. m \in 1..L
          BY <3>1, <4>3
        <5> QED BY <4>1, <5>1, <3>1, <3>3, <3>6, <2>2 DEF Picks
      <4> QED BY <4>2, <4>3
    <3>7. ASSUME NEW i \in I \cap (1..n) PROVE \E k \in 1..(L + 1) : e[k] = i
      <4>1. CASE i = n
        BY <4>1, <3>1, <3>3
      <4>2. CASE i # n
        <5>1. i \in I \cap (1..(n - 1))
          BY <4>2
        <5>2. PICK k \in 1..L : f[k] = i
          BY <5>1, <2>2, <3>1 DEF Picks
        <5> QED BY <5>2, <3>1, <3>3
      <4> QED BY <4>1, <4>2
    <3>8. Picks(e, s, I, r, n)
      BY <3>1, <3>4, <3>5, <3>6, <3>7 DEF Picks
    <3> QED BY <3>1, <3>8, <2>1 DEF r
  <2> QED BY <2>4, <2>5
<1> HIDE DEF Good
<1>8. \A n \in 0..N : n \in Good
  <2>1. N \in Nat
    BY <1>1
  <2> QED BY <1>6, <1>7, <2>1, CountUp, Zenon
<1>10. N \in 0..N
  BY <1>1
<1> QED BY <1>5, <1>8, <1>10 DEF Good

(* A loop whose steps stay in S, as the recursive function it is written as. *)
LoopStaysIn(g, n, base, F, S) ==
    /\ g = [i \in 0..n |-> IF i = 0 THEN base ELSE F[<<i, g[i-1]>>]]
    /\ \A i \in 0..n : g[i] \in S

LEMMA LoopStays ==
    ASSUME NEW N \in Nat, NEW S, NEW base \in S, NEW F,
           \A n \in 1..N, x \in S : F[<<n, x>>] \in S
    PROVE  \E g : LoopStaysIn(g, N, base, F, S)
<1>1. PICK g : LoopRuns(g, N, base, F)
  BY LoopExists
<1>2. g = [n \in 0..N |-> g[n]] /\ g[0] = base /\ \A n \in 1..N : g[n] = F[<<n, g[n-1]>>]
  BY <1>1 DEF LoopRuns
<1> DEFINE Good == {n \in 0..N : g[n] \in S}
<1>3. 0 \in Good
  <2>1. 0 \in 0..N
    OBVIOUS
  <2> QED BY <1>2, <2>1, Zenon
<1>4. ASSUME NEW n \in 1..N, n - 1 \in Good PROVE n \in Good
  <2>1. n \in 0..N
    OBVIOUS
  <2> QED BY <1>2, <1>4, <2>1, Zenon
<1> HIDE DEF Good
<1>5. \A n \in 0..N : n \in Good
  BY <1>3, <1>4, CountUp, Zenon
<1>6. ASSUME NEW n \in 0..N PROVE g[n] = IF n = 0 THEN base ELSE F[<<n, g[n-1]>>]
  <2>1. n # 0 => n \in 1..N
    OBVIOUS
  <2> QED BY <1>2, <2>1, Zenon
<1>7. [n \in 0..N |-> g[n]] = [n \in 0..N |-> IF n = 0 THEN base ELSE F[<<n, g[n-1]>>]]
  BY <1>6, Zenon
<1>8. \A n \in 0..N : g[n] \in S
  BY <1>5 DEF Good
<1>9. g = [n \in 0..N |-> IF n = 0 THEN base ELSE F[<<n, g[n-1]>>]]
  BY <1>2, <1>7, Zenon
<1> QED BY <1>8, <1>9, Zenon DEF LoopStaysIn

(* g holds the batches after each call. *)
BatchLoop(g, reqs, C) ==
    /\ g[0] = <<>> /\ \A n \in 1..Len(reqs) : g[n] = Joined(g[n-1], reqs[n])
    /\ \A n \in 0..Len(reqs) : g[n] \in Seq(Seq(C) \ {<<>>})

LEMMA BatchedLoop ==
    ASSUME NEW C, NEW reqs \in Seq(C)
    PROVE  \E g : BatchLoop(g, reqs, C) /\ g[Len(reqs)] = Batched(reqs)
<1> DEFINE N == Len(reqs)
           B == Seq(Seq(C) \ {<<>>})
           F == [q \in (1..N) \X B |-> Joined(q[2], reqs[q[1]])]
           Loop(g) == g = [n \in 0..N |-> IF n = 0 THEN <<>> ELSE Joined(g[n-1], reqs[n])]
<1>1. N \in Nat /\ \A i \in 1..N : reqs[i] \in C
  OBVIOUS
<1>2. ASSUME NEW n \in 1..N, NEW x \in B
      PROVE  Joined(x, reqs[n]) \in B
  <2> DEFINE c == reqs[n]
             L == Len(x)
  <2>1. c \in C
    BY <1>1
  <2> HIDE DEF c
  <2>2. CASE c.tool \in Readonly /\ x # <<>> /\ x[L][1].tool \in Readonly
    <3>1. L \in 1..Len(x) /\ x[L] \in Seq(C)
      BY <2>2
    <3>4. \A y \in Seq(C) : Append(y, c) \in Seq(C) /\ Append(y, c) # <<>>
      BY ONLY <2>1, AppendProperties
    <3>2. Append(x[L], c) \in Seq(C) \ {<<>>}
      BY <3>1, <3>4
    <3>3. [x EXCEPT ![L] = Append(x[L], c)] \in B
      BY <3>1, <3>2
    <3> QED BY <2>2, <3>3 DEF Joined, c
  <2>3. CASE ~ (c.tool \in Readonly /\ x # <<>> /\ x[L][1].tool \in Readonly)
    <3>1. <<c>> \in Seq(C) \ {<<>>}
      BY <2>1
    <3>2. Append(x, <<c>>) \in B
      BY <3>1
    <3> QED BY <2>3, <3>2 DEF Joined, c
  <2> QED BY <2>2, <2>3
<1>3. ASSUME NEW n \in 1..N, NEW x \in B
      PROVE  F[<<n, x>>] = Joined(x, reqs[n])
  OBVIOUS
<1>4. << >> \in B
  OBVIOUS
<1> HIDE DEF F, B, N
<1>15. PICK h : LoopStaysIn(h, N, <<>>, F, B)
  <2>1. \A n \in 1..N, x \in B : F[<<n, x>>] \in B
    BY <1>2, <1>3, Zenon
  <2>2. N \in Nat
    BY <1>1
  <2> QED BY <2>2, <1>4, <2>1, LoopStays, Zenon
<1>5. /\ h = [n \in 0..N |-> IF n = 0 THEN <<>> ELSE F[<<n, h[n-1]>>]]
      /\ \A n \in 0..N : h[n] \in B
  BY <1>15, Zenon DEF LoopStaysIn
<1>6. Loop(h)
  <2>1. ASSUME NEW n \in 0..N, n # 0 PROVE F[<<n, h[n-1]>>] = Joined(h[n-1], reqs[n])
    <3>1. n \in 1..N /\ n - 1 \in 0..N
      BY <1>1, <2>1
    <3> QED BY <3>1, <1>3, <1>5, Zenon
  <2>2. \A n \in 0..N : (IF n = 0 THEN <<>> ELSE F[<<n, h[n-1]>>])
                        = (IF n = 0 THEN <<>> ELSE Joined(h[n-1], reqs[n]))
    BY <2>1, Zenon
  <2>3. [n \in 0..N |-> IF n = 0 THEN <<>> ELSE F[<<n, h[n-1]>>]]
        = [n \in 0..N |-> IF n = 0 THEN <<>> ELSE Joined(h[n-1], reqs[n])]
    BY <2>2, Zenon
  <2> QED BY <1>5, <2>3, Zenon
<1> DEFINE g == CHOOSE e : Loop(e)
<1>7. Loop(g)
  BY <1>6, Zenon
<1>8. Batched(reqs) = g[N]
  BY Zenon DEF Batched, N
<1> HIDE DEF g
<1>9. \A n \in 0..N : g[n] = IF n = 0 THEN <<>> ELSE Joined(g[n-1], reqs[n])
  BY <1>7, Zenon
<1> DEFINE Good == {n \in 0..N : g[n] \in B}
<1>10. 0 \in Good
  <2>1. 0 \in 0..N
    BY <1>1
  <2> QED BY <1>4, <1>9, <2>1, Zenon
<1>11. ASSUME NEW n \in 1..N, n - 1 \in Good PROVE n \in Good
  <2>1. n \in 0..N /\ n # 0
    BY <1>1
  <2>2. g[n] = Joined(g[n-1], reqs[n])
    BY <1>9, <2>1, Zenon
  <2> QED BY <1>2, <1>11, <2>1, <2>2, Zenon
<1> HIDE DEF Good
<1>12. \A n \in 0..N : n \in Good
  BY <1>1, <1>10, <1>11, CountUp, Zenon
<1>13. \A n \in 0..N : g[n] \in B
  BY <1>12 DEF Good
<1>14. g[0] = <<>> /\ \A n \in 1..N : g[n] = Joined(g[n-1], reqs[n])
  <2>1. 0 \in 0..N /\ \A n \in 1..N : n \in 0..N /\ n # 0
    BY <1>1
  <2> QED BY <1>9, <2>1, Zenon
<1>16. BatchLoop(g, reqs, C)
  BY <1>13, <1>14, Zenon DEF BatchLoop, B, N
<1> QED BY <1>8, <1>16, Zenon DEF N

LEMMA BatchedBatches ==
    ASSUME NEW C, NEW reqs \in Seq(C)
    PROVE  Batched(reqs) \in Seq(Seq(C) \ {<<>>})
<1>1. PICK g : BatchLoop(g, reqs, C) /\ g[Len(reqs)] = Batched(reqs)
  BY BatchedLoop, Zenon
<1>2. Len(reqs) \in 0..Len(reqs)
  OBVIOUS
<1> QED BY <1>1, <1>2, Zenon DEF BatchLoop

-----------------------------------------------------------------------------
(***************************************************************************)
(* Proofs about the loop of one agent: the limits of a run.                *)
(*                                                                         *)
(* SucceedsInOneResponse is not inductive: a tool that has succeeded once  *)
(* may have calls in batches that wait.  Fresh says that all of these are  *)
(* of the response it succeeded in; _process_tool_calls filters the calls  *)
(* of any later one, since calledOk remembers every success.               *)
(***************************************************************************)
ToolCall == [id : Nat \X Nat, tool : Tools]
Once == Tools \ (Repeatable \cup {"compact"})

\* The calls that may not be repeated have succeeded in no other iteration.
Fresh(b, ok, k) == \A i \in DOMAIN b : b[i].tool \in Once => ok[b[i].tool] \subseteq {k}

CountsInv ==
  /\ runs \in Nat /\ charged \in Nat /\ conts \in Nat /\ iter \in Nat
  /\ charged <= runs
  /\ pc # "idle" /\ ~ accounted => charged + 1 <= runs

SuccessInv ==
  /\ okIn \in [Tools -> SUBSET Nat]
  /\ \A t \in Once : okIn[t] # {} => t \in calledOk
  /\ \A t \in Once : \A j, k \in okIn[t] : j = k

BatchInv ==
  /\ pc = "process" => batches \in Seq(Seq(ToolCall)) /\ Len(batches) = 1
  /\ pc \in {"batch", "single", "evidence"} =>
       /\ batches \in Seq(Seq(ToolCall) \ {<<>>})
       /\ \A n \in DOMAIN batches : Fresh(batches[n], okIn, iter)
  /\ pc = "evidence" => batches # <<>> /\ batches[1][1].tool = GoalTool

LimitsInv == CountsInv /\ SuccessInv /\ BatchInv

LEMMA LimitsHoldAtFirst == LoopInit => LimitsInv
<1> SUFFICES ASSUME LoopInit PROVE LimitsInv
  OBVIOUS
<1> USE DEF LoopInit
<1>1. CountsInv
  BY DEF CountsInv
<1>2. SuccessInv
  BY DEF SuccessInv, Once
<1>3. BatchInv
  BY DEF BatchInv
<1> QED BY <1>1, <1>2, <1>3 DEF LimitsInv

(* A response is charged once per run. *)
LEMMA ChargeCounts ==
    ASSUME CountsInv, Charge, pc # "idle", runs' = runs
    PROVE  charged' \in Nat /\ charged' <= runs' /\ (~ accounted' => charged' + 1 <= runs')
<1>1. TurnDelta["turns"] = IF accounted THEN 0 ELSE 1
  BY LoopAssumption DEF TurnDelta
<1>2. \/ accounted' = TRUE /\ charged' = charged + TurnDelta["turns"]
      \/ accounted' = accounted /\ charged' = charged
  BY DEF Charge
<1> QED BY <1>1, <1>2 DEF CountsInv

(* Steps that leave the counters alone, or end the run. *)
LEMMA CountsStay ==
    ASSUME CountsInv,
           \/ pc # "idle" /\ UNCHANGED <<accounted, runs, charged>>
           \/ pc' = pc /\ UNCHANGED <<accounted, runs, charged>>
           \/ pc' = "idle" /\ UNCHANGED <<runs, charged>>,
           conts' \in Nat, iter' \in Nat
    PROVE  CountsInv'
BY DEF CountsInv

LEMMA CountsStepKeeps == CountsInv /\ LoopNext => CountsInv'
<1> SUFFICES ASSUME CountsInv, LoopNext PROVE CountsInv'
  OBVIOUS
<1> USE DEF bounds, loopState, transcript
<1>0. conts \in Nat /\ iter \in Nat
  BY DEF CountsInv
<1>1. CASE Start
  BY <1>1 DEF Start, CountsInv
<1>2. ASSUME NEW r, Return(r) PROVE CountsInv'
  BY <1>2, <1>0, CountsStay DEF Return
<1>3. CASE TopEnds \/ Top \/ StreamCancelled \/ Process \/ RunBatch \/ EvidenceReads \/ ToolsDone
  <2>1. CASE TopEnds \/ StreamCancelled \/ ToolsDone
    BY <1>0, <2>1, CountsStay DEF TopEnds, StreamCancelled, ToolsDone
  <2>2. CASE Top
    BY <1>0, <2>2, CountsStay DEF Top
  <2>3. CASE Process
    BY <1>0, <2>3, CountsStay DEF Process
  <2>4. CASE RunBatch
    BY <1>0, <2>4, CountsStay DEF RunBatch, Launching
  <2>5. CASE EvidenceReads
    BY <1>0, <2>5, CountsStay DEF EvidenceReads, Launching
  <2> QED BY <1>3, <2>1, <2>2, <2>3, <2>4, <2>5
<1>4. CASE EvidenceWrites
  <2>1. UNCHANGED <<accounted, runs, charged>> /\ pc # "idle" /\ conts' \in Nat /\ iter' \in Nat
    BY <1>0, <1>4 DEF EvidenceWrites
  <2> QED BY <2>1, CountsStay
<1>5. CASE StreamFails
  <2>1. CASE Fail
    BY <2>1, <1>2 DEF Fail
  <2>2. CASE ~ Fail
    BY <2>2, <1>5, <1>0, CountsStay DEF StreamFails
  <2> QED BY <2>1, <2>2
<1>6. CASE Squeeze
  <2>1. CASE Fail
    BY <2>1, <1>2 DEF Fail
  <2>2. CASE ~ Fail
    BY <2>2, <1>6, <1>0, CountsStay DEF Squeeze
  <2> QED BY <2>1, <2>2
<1>7. CASE End
  BY <1>7, <1>2 DEF End
<1>8. CASE Filtered \/ AnswerText \/ CallTools
  <2>1. Charge /\ pc # "idle" /\ runs' = runs /\ iter' = iter /\ conts' \in Nat
    BY <1>0, <1>8 DEF Filtered, AnswerText, CallTools
  <2>2. charged' \in Nat /\ charged' <= runs' /\ (~ accounted' => charged' + 1 <= runs')
    BY <2>1, ChargeCounts
  <2> QED BY <2>1, <2>2, <1>0 DEF CountsInv
<1>9. CASE Cancel \/ BackgroundEnds \/ Others
  <2>1. UNCHANGED <<pc, accounted, runs, charged, conts, iter>>
    BY <1>9 DEF Cancel, BackgroundEnds, Others
  <2> QED BY <2>1, <1>0, CountsStay
<1> QED BY <1>1, <1>3, <1>4, <1>5, <1>6, <1>7, <1>8, <1>9 DEF LoopNext, LoopStep

(* The tools in good succeed; those among them that may not be repeated have *)
(* succeeded in this iteration only.                                         *)
LEMMA Succeeds ==
    ASSUME SuccessInv, iter \in Nat, NEW good, \A t \in good \cap Once : okIn[t] \subseteq {iter},
           calledOk' = calledOk \cup good,
           okIn' = [t \in Tools |-> IF t \in good THEN okIn[t] \cup {iter} ELSE okIn[t]]
    PROVE  SuccessInv'
<1>1. okIn' \in [Tools -> SUBSET Nat]
  BY DEF SuccessInv
<1>2. Once \subseteq Tools
  BY DEF Once
<1>3. ASSUME NEW t \in Once
      PROVE  /\ okIn'[t] # {} => t \in calledOk'
             /\ \A j, k \in okIn'[t] : j = k
  <2>1. CASE t \in good
    BY <2>1, <1>2
  <2>2. CASE t \notin good
    BY <2>2, <1>2 DEF SuccessInv
  <2> QED BY <2>1, <2>2
<1> QED BY <1>1, <1>3 DEF SuccessInv

LEMMA FreshStays ==
    ASSUME NEW b \in Seq(ToolCall), NEW ok, NEW after, NEW k, Fresh(b, ok, k),
           \A t \in Tools : after[t] \subseteq ok[t] \cup {k}
    PROVE  Fresh(b, after, k)
<1> SUFFICES ASSUME NEW i \in DOMAIN b, b[i].tool \in Once PROVE after[b[i].tool] \subseteq {k}
  BY DEF Fresh
<1>1. b[i].tool \in Tools
  BY DEF Once
<1>2. ok[b[i].tool] \subseteq {k}
  BY DEF Fresh
<1> QED BY <1>1, <1>2

(* A batch that has run leaves the others. *)
LEMMA BatchesGoOn ==
    ASSUME NEW C, NEW bs \in Seq(Seq(C) \ {<<>>}), bs # <<>>
    PROVE  /\ Tail(bs) \in Seq(Seq(C) \ {<<>>})
           /\ \A n \in DOMAIN Tail(bs) : n + 1 \in DOMAIN bs /\ Tail(bs)[n] = bs[n + 1]
           /\ 1 \in DOMAIN bs /\ bs[1] \in Seq(C) /\ 1 \in DOMAIN bs[1]
<1> DEFINE B == Seq(C) \ {<<>>}
<1>1. bs \in Seq(B) /\ \A b \in B : b \in Seq(C) /\ 1 \in DOMAIN b
  OBVIOUS
<1> HIDE DEF B
<1>2. Tail(bs) \in Seq(B) /\ Len(Tail(bs)) = Len(bs) - 1 /\ \A n \in 1..(Len(bs) - 1) : Tail(bs)[n] = bs[n + 1]
  BY <1>1
<1>3. \A n \in DOMAIN Tail(bs) : n + 1 \in DOMAIN bs /\ Tail(bs)[n] = bs[n + 1]
  BY <1>1, <1>2
<1>4. 1 \in DOMAIN bs /\ bs[1] \in B
  BY <1>1
<1> QED BY <1>1, <1>2, <1>3, <1>4 DEF B

LEMMA CallsNameTools ==
    ASSUME NEW b \in Seq(ToolCall)
    PROVE  \A i \in DOMAIN b : b[i].tool \in Tools
<1> SUFFICES ASSUME NEW i \in DOMAIN b PROVE b[i].tool \in Tools
  OBVIOUS
<1>1. b[i] \in ToolCall
  OBVIOUS
<1> QED BY <1>1 DEF ToolCall

(* What RunBatch does to the tools, and EvidenceWrites. *)
LEMMA BatchSucceeds ==
    ASSUME LimitsInv, RunBatch
    PROVE  \E good : /\ good \subseteq Tools /\ \A t \in good \cap Once : okIn[t] \subseteq {iter}
                     /\ calledOk' = calledOk \cup good
                     /\ okIn' = [t \in Tools |-> IF t \in good THEN okIn[t] \cup {iter} ELSE okIn[t]]
<1>1. pc \in {"batch", "single"} /\ batches # <<>>
  BY DEF RunBatch, Launching
<1>2. batches \in Seq(Seq(ToolCall) \ {<<>>}) /\ \A n \in DOMAIN batches : Fresh(batches[n], okIn, iter)
  BY <1>1 DEF LimitsInv, BatchInv
<1>3. 1 \in DOMAIN batches /\ batches[1] \in Seq(ToolCall)
  BY <1>1, <1>2, BatchesGoOn
<1>4. Fresh(batches[1], okIn, iter)
  BY <1>2, <1>3
<1>5. PICK ok \in SUBSET DOMAIN batches[1] :
        /\ calledOk' = calledOk \cup {batches[1][i].tool : i \in ok}
        /\ okIn' = [t \in Tools |-> IF t \in {batches[1][i].tool : i \in ok} THEN okIn[t] \cup {iter}
                                    ELSE okIn[t]]
  <2> SUFFICES ASSUME NEW ok \in Successes(batches[1]),
                      LET good == {batches[1][i].tool : i \in ok}
                      IN  /\ messages' = messages \o ResultsOf(batches[1])
                          /\ calledOk' = calledOk \cup good
                          /\ okIn' = [t \in Tools |-> IF t \in good THEN okIn[t] \cup {iter} ELSE okIn[t]]
                          /\ metrics' = (metrics \/ Backtest \in good)
                          /\ notes' = IF Background \in good THEN "running" ELSE notes
               PROVE  /\ ok \in SUBSET DOMAIN batches[1]
                      /\ calledOk' = calledOk \cup {batches[1][i].tool : i \in ok}
                      /\ okIn' = [t \in Tools |-> IF t \in {batches[1][i].tool : i \in ok} THEN okIn[t] \cup {iter}
                                                  ELSE okIn[t]]
    BY Zenon DEF RunBatch
  <2> QED BY Zenon DEF Successes
<1> DEFINE good == {batches[1][i].tool : i \in ok}
<1>6. \A i \in DOMAIN batches[1] : batches[1][i].tool \in Tools
  BY <1>3, CallsNameTools
<1>7. good \subseteq Tools
  BY <1>6
<1>8. \A t \in good \cap Once : okIn[t] \subseteq {iter}
  BY <1>4 DEF Fresh
<1> QED BY <1>5, <1>7, <1>8

LEMMA EvidenceSucceeds ==
    ASSUME LimitsInv, EvidenceWrites
    PROVE  \E good : /\ good \subseteq Tools /\ \A t \in good \cap Once : okIn[t] \subseteq {iter}
                     /\ calledOk' = calledOk \cup good
                     /\ okIn' = [t \in Tools |-> IF t \in good THEN okIn[t] \cup {iter} ELSE okIn[t]]
<1>1. pc = "evidence"
  BY DEF EvidenceWrites
<1>2. /\ batches \in Seq(Seq(ToolCall) \ {<<>>}) /\ \A n \in DOMAIN batches : Fresh(batches[n], okIn, iter)
      /\ batches # <<>> /\ batches[1][1].tool = GoalTool
  BY <1>1 DEF LimitsInv, BatchInv
<1>3. 1 \in DOMAIN batches /\ 1 \in DOMAIN batches[1]
  BY <1>2, BatchesGoOn
<1>4. Fresh(batches[1], okIn, iter)
  BY <1>2, <1>3
<1>5. GoalTool \in Once => okIn[GoalTool] \subseteq {iter}
  BY <1>2, <1>3, <1>4 DEF Fresh
<1>6. okIn \in [Tools -> SUBSET Nat] /\ GoalTool \in Tools
  BY LoopAssumption DEF LimitsInv, SuccessInv
<1>7. CASE evidence' # evidence
  <2> DEFINE good == {GoalTool}
  <2>1. calledOk' = calledOk \cup good /\ okIn' = [okIn EXCEPT ![GoalTool] = @ \cup {iter}]
    BY <1>7 DEF EvidenceWrites
  <2>2. okIn' = [t \in Tools |-> IF t \in good THEN okIn[t] \cup {iter} ELSE okIn[t]]
    BY <2>1, <1>6
  <2>3. good \subseteq Tools /\ \A t \in good \cap Once : okIn[t] \subseteq {iter}
    BY <1>5, <1>6
  <2> QED BY <2>1, <2>2, <2>3
<1>8. CASE evidence' = evidence
  <2> DEFINE good == {}
  <2>1. calledOk' = calledOk /\ okIn' = okIn
    BY <1>8 DEF EvidenceWrites
  <2>2. okIn' = [t \in Tools |-> IF t \in good THEN okIn[t] \cup {iter} ELSE okIn[t]]
    BY <2>1, <1>6
  <2>3. calledOk' = calledOk \cup good
    BY <2>1
  <2>4. good \subseteq Tools /\ \A t \in good \cap Once : okIn[t] \subseteq {iter}
    OBVIOUS
  <2> QED BY <2>2, <2>3, <2>4
<1> QED BY <1>7, <1>8

LEMMA SuccessStepKeeps == LimitsInv /\ LoopNext => SuccessInv'
<1> SUFFICES ASSUME LimitsInv, LoopNext PROVE SuccessInv'
  OBVIOUS
<1> USE DEF bounds, loopState, transcript
<1>1. SuccessInv /\ iter \in Nat
  BY DEF LimitsInv, CountsInv
<1>2. CASE UNCHANGED <<okIn, calledOk>>
  BY <1>1, <1>2 DEF SuccessInv
<1>3. CASE Start
  BY <1>3 DEF Start, SuccessInv, Once
<1>4. CASE RunBatch
  BY <1>1, <1>4, BatchSucceeds, Succeeds
<1>5. CASE EvidenceWrites
  BY <1>1, <1>5, EvidenceSucceeds, Succeeds
<1>6. CASE TopEnds \/ Top \/ StreamCancelled \/ Process
  BY <1>6, <1>2 DEF TopEnds, Top, StreamCancelled, Process
<1>7. CASE EvidenceReads \/ ToolsDone \/ End
  BY <1>7, <1>2 DEF EvidenceReads, ToolsDone, End, Return
<1>8. CASE StreamFails \/ Squeeze
  BY <1>8, <1>2 DEF StreamFails, Squeeze, Fail, Return
<1>9. CASE Filtered \/ AnswerText \/ CallTools
  BY <1>9, <1>2 DEF Filtered, AnswerText, CallTools
<1>10. CASE Cancel \/ BackgroundEnds \/ Others
  BY <1>10, <1>2 DEF Cancel, BackgroundEnds, Others
<1> QED BY <1>3, <1>4, <1>5, <1>6, <1>7, <1>8, <1>9, <1>10 DEF LoopNext, LoopStep

(* Process: the calls that are neither blocked nor "compact" are fresh. *)
LEMMA ProcessIsFresh ==
    ASSUME LimitsInv, Process, pc' # "process"
    PROVE  /\ batches' \in Seq(Seq(ToolCall) \ {<<>>})
           /\ \A n \in DOMAIN batches' : Fresh(batches'[n], okIn, iter)
<1>1. batches \in Seq(Seq(ToolCall)) /\ Len(batches) = 1
  BY DEF Process, LimitsInv, BatchInv
<1>2. CASE cancel
  BY <1>2 DEF Process
<1>3. CASE ~ cancel
  <2> DEFINE reqs == batches[1]
             I == DOMAIN reqs \ Answered(reqs)
             todo == Picked(reqs, I)
             C == {reqs[i] : i \in I}
  <2>1. reqs \in Seq(ToolCall)
    BY <1>1
  <2>2. batches' = Batched(todo)
    BY <1>3 DEF Process
  <2>3. ASSUME NEW c \in C
        PROVE  c \in ToolCall /\ (c.tool \in Once => okIn[c.tool] = {})
    <3>1. PICK i \in I : c = reqs[i]
      OBVIOUS
    <3>2. c \in ToolCall
      BY <2>1, <3>1
    <3>3. c.tool # "compact" /\ ~ Duplicate(c.tool)
      BY <3>1 DEF Answered
    <3>4. c.tool \in Once => c.tool \notin calledOk
      BY <3>3 DEF Duplicate, Once
    <3> QED BY <3>2, <3>4 DEF LimitsInv, SuccessInv
  <2>4. todo \in Seq(C)
    <3>1. todo \in Seq(ToolCall) /\ \E f : Picks(f, reqs, I, todo, Len(reqs))
      <4> HIDE DEF reqs, I
      <4> QED BY <2>1, PickedPicks, Zenon
    <3>2. PICK f : Picks(f, reqs, I, todo, Len(reqs))
      BY <3>1
    <3> HIDE DEF todo, I, reqs
    <3>3. \A k \in DOMAIN todo : f[k] \in I /\ todo[k] = reqs[f[k]]
      BY <3>2 DEF Picks
    <3>4. \A k \in DOMAIN todo : todo[k] \in C
      BY <3>3
    <3> HIDE DEF C
    <3> QED BY <3>1, <3>4
  <2>5. Batched(todo) \in Seq(Seq(C) \ {<<>>})
    <3> HIDE DEF todo, C
    <3> QED BY <2>4, BatchedBatches, Zenon
  <2> HIDE DEF C, todo
  <2>6. \A b \in Seq(C) : b \in Seq(ToolCall) /\ Fresh(b, okIn, iter)
    <3> SUFFICES ASSUME NEW b \in Seq(C) PROVE b \in Seq(ToolCall) /\ Fresh(b, okIn, iter)
      OBVIOUS
    <3>1. \A i \in DOMAIN b : b[i] \in C
      OBVIOUS
    <3>2. b \in Seq(ToolCall)
      BY <3>1, <2>3
    <3>3. ASSUME NEW i \in DOMAIN b, b[i].tool \in Once PROVE okIn[b[i].tool] \subseteq {iter}
      BY <3>1, <3>3, <2>3
    <3> QED BY <3>2, <3>3 DEF Fresh
  <2> DEFINE bs == batches'
  <2>7. bs \in Seq(Seq(C) \ {<<>>})
    BY <2>2, <2>5
  <2> HIDE DEF bs
  <2>8. bs \in Seq(Seq(ToolCall) \ {<<>>})
    BY <2>6, <2>7
  <2>9. \A n \in DOMAIN bs : Fresh(bs[n], okIn, iter)
    BY <2>6, <2>7
  <2> QED BY <2>8, <2>9 DEF bs
<1> QED BY <1>2, <1>3

(* A batch runs: the calls in the others stay fresh. *)
LEMMA BatchRuns ==
    ASSUME LimitsInv, RunBatch \/ EvidenceWrites
    PROVE  /\ pc' = "batch" /\ batches' \in Seq(Seq(ToolCall) \ {<<>>})
           /\ \A n \in DOMAIN batches' : Fresh(batches'[n], okIn', iter')
<1>1. /\ batches \in Seq(Seq(ToolCall) \ {<<>>}) /\ \A n \in DOMAIN batches : Fresh(batches[n], okIn, iter)
      /\ batches # <<>> /\ batches' = Tail(batches) /\ iter' = iter /\ pc' = "batch"
  <2>1. CASE RunBatch
    BY <2>1 DEF RunBatch, Launching, LimitsInv, BatchInv
  <2>2. CASE EvidenceWrites
    BY <2>2 DEF EvidenceWrites, LimitsInv, BatchInv
  <2> QED BY <2>1, <2>2
<1>2. \A t \in Tools : okIn'[t] \subseteq okIn[t] \cup {iter}
  <2>1. PICK good : /\ good \subseteq Tools
                    /\ okIn' = [t \in Tools |-> IF t \in good THEN okIn[t] \cup {iter} ELSE okIn[t]]
    BY BatchSucceeds, EvidenceSucceeds
  <2> QED BY <2>1
<1> DEFINE bs == batches
           rest == Tail(bs)
<1>3. /\ rest \in Seq(Seq(ToolCall) \ {<<>>})
      /\ \A n \in DOMAIN rest : n + 1 \in DOMAIN bs /\ rest[n] = bs[n + 1]
  BY <1>1, BatchesGoOn, Zenon
<1>4. ASSUME NEW n \in DOMAIN rest PROVE Fresh(rest[n], okIn', iter)
  <2>1. rest[n] \in Seq(ToolCall)
    <3> HIDE DEF rest
    <3> QED BY <1>3
  <2>2. Fresh(rest[n], okIn, iter)
    BY <1>1, <1>3, Zenon
  <2> HIDE DEF rest
  <2> QED BY <1>2, <2>1, <2>2, FreshStays, Zenon
<1> QED BY <1>1, <1>3, <1>4, Zenon

LEMMA BatchStepKeeps == LimitsInv /\ LoopNext => BatchInv'
<1> SUFFICES ASSUME LimitsInv, LoopNext PROVE BatchInv'
  OBVIOUS
<1> USE DEF bounds, loopState, transcript
<1>1. BatchInv /\ iter \in Nat
  BY DEF LimitsInv, CountsInv
<1>2. CASE pc' \notin {"process", "batch", "single", "evidence"}
  BY <1>2 DEF BatchInv
<1>3. CASE UNCHANGED <<pc, iter, batches, okIn>>
  BY <1>1, <1>3 DEF BatchInv
<1>4. CASE Cancel \/ BackgroundEnds \/ Others
  BY <1>3, <1>4 DEF Cancel, BackgroundEnds, Others
<1>5. CASE Start \/ TopEnds \/ Top \/ StreamCancelled \/ ToolsDone \/ End
  BY <1>2, <1>5 DEF Start, TopEnds, Top, StreamCancelled, ToolsDone, End, Return
<1>6. CASE StreamFails \/ Squeeze
  BY <1>2, <1>6 DEF StreamFails, Squeeze, Fail, Return
<1>7. CASE Filtered \/ AnswerText
  BY <1>2, <1>7 DEF Filtered, AnswerText
<1>8. CASE CallTools
  <2>1. PICK r \in Responses : batches' = <<[i \in DOMAIN r |-> [id |-> <<iter, i>>, tool |-> r[i]]]>>
    BY <1>8 DEF CallTools
  <2> DEFINE reqs == [i \in DOMAIN r |-> [id |-> <<iter, i>>, tool |-> r[i]]]
  <2>2. r \in Seq(Tools)
    BY LoopAssumption
  <2>3. DOMAIN r = 1..Len(r) /\ Len(r) \in Nat /\ \A i \in DOMAIN r : i \in Nat /\ r[i] \in Tools
    BY <2>2
  <2>4. ASSUME NEW i \in DOMAIN r PROVE [id |-> <<iter, i>>, tool |-> r[i]] \in ToolCall
    BY <1>1, <2>3 DEF ToolCall
  <2>5. reqs \in Seq(ToolCall)
    BY <2>3, <2>4
  <2> HIDE DEF reqs
  <2>6. <<reqs>> \in Seq(Seq(ToolCall)) /\ Len(<<reqs>>) = 1
    BY <2>5
  <2>7. pc' = "process"
    BY <1>8 DEF CallTools
  <2> QED BY <2>1, <2>6, <2>7 DEF BatchInv, reqs
<1>9. CASE Process
  <2>1. pc' \in {"single", "batch"} /\ UNCHANGED <<iter, okIn>>
    BY <1>9 DEF Process
  <2>2. /\ batches' \in Seq(Seq(ToolCall) \ {<<>>})
        /\ \A n \in DOMAIN batches' : Fresh(batches'[n], okIn, iter)
    BY <1>9, <2>1, ProcessIsFresh
  <2> QED BY <2>1, <2>2 DEF BatchInv
<1>10. CASE RunBatch \/ EvidenceWrites
  BY <1>10, BatchRuns DEF BatchInv
<1>11. CASE EvidenceReads
  <2>1. /\ pc \in {"batch", "single"} /\ pc' = "evidence" /\ UNCHANGED <<iter, batches, okIn>>
        /\ batches # <<>> /\ batches[1][1].tool = GoalTool
    BY <1>11 DEF EvidenceReads, Launching
  <2> QED BY <1>1, <2>1 DEF BatchInv
<1> QED BY <1>4, <1>5, <1>6, <1>7, <1>8, <1>9, <1>10, <1>11 DEF LoopNext, LoopStep

LEMMA LimitsStepKeeps == LimitsInv /\ [LoopNext]_loopVars => LimitsInv'
<1> SUFFICES ASSUME LimitsInv, [LoopNext]_loopVars PROVE LimitsInv'
  OBVIOUS
<1>1. CASE LoopNext
  BY <1>1, CountsStepKeeps, SuccessStepKeeps, BatchStepKeeps DEF LimitsInv
<1>2. CASE UNCHANGED loopVars
  <2>1. UNCHANGED <<pc, iter, batches, okIn, calledOk, runs, charged, conts, accounted>>
    BY <1>2 DEF loopVars, transcript, loopState, bounds
  <2> QED BY <2>1 DEF LimitsInv, CountsInv, SuccessInv, BatchInv
<1> QED BY <1>1, <1>2

LEMMA SucceedsOnce == LimitsInv => SucceedsInOneResponse
<1> SUFFICES ASSUME LimitsInv, NEW t \in Once PROVE Cardinality(okIn[t]) <= 1
  BY DEF SucceedsInOneResponse, Once
<1>1. \A j, k \in okIn[t] : j = k
  BY DEF LimitsInv, SuccessInv
<1>2. CASE okIn[t] = {}
  BY <1>2, FS_EmptySet
<1>3. CASE okIn[t] # {}
  <2>1. PICK k : k \in okIn[t]
    BY <1>3
  <2>2. okIn[t] = {k}
    BY <1>1, <2>1
  <2> QED BY <2>2, FS_Singleton, SMTT(30)
<1> QED BY <1>2, <1>3

LEMMA CancelStaysFinal == LoopNext => CancelIsFinal
<1> SUFFICES ASSUME LoopNext, cancel, cancel' PROVE CancelIsFinal
  BY DEF CancelIsFinal
<1> USE DEF bounds, loopState, transcript, goalVars
<1> DEFINE Quiet == /\ pc = "top" => pc' # "stream"
                    /\ pc = "batch" /\ batches # <<>> => messages' = messages /\ call' = call
                    /\ outcome' = "success" => outcome = "success"
<1>1. SUFFICES Quiet
  BY DEF CancelIsFinal
<1>2. CASE Start
  BY <1>2 DEF Start
<1>3. CASE TopEnds \/ Top \/ StreamCancelled \/ ToolsDone
  BY <1>3 DEF TopEnds, Top, StreamCancelled, ToolsDone
<1>4. CASE Filtered \/ AnswerText \/ CallTools
  BY <1>4 DEF Filtered, AnswerText, CallTools
<1>5. CASE Process
  BY <1>5 DEF Process
<1>6. CASE StreamFails \/ Squeeze
  BY <1>6 DEF StreamFails, Squeeze, Fail, Return
<1>7. CASE End
  BY <1>7 DEF End, Return, FinalStatus
<1>8. CASE RunBatch
  <2>1. pc = "single" /\ pc' = "batch" /\ outcome' = outcome
    BY <1>8 DEF RunBatch, Launching, MayLaunch
  <2> QED BY <2>1
<1>9. CASE EvidenceReads
  <2>1. pc = "single" /\ pc' = "evidence" /\ outcome' = outcome
    BY <1>9 DEF EvidenceReads, Launching, MayLaunch
  <2> QED BY <2>1
<1>10. CASE EvidenceWrites
  <2>1. pc = "evidence" /\ pc' = "batch" /\ outcome' = outcome
    BY <1>10 DEF EvidenceWrites
  <2> QED BY <2>1
<1>11. CASE Cancel \/ BackgroundEnds
  BY <1>11 DEF Cancel, BackgroundEnds
<1>12. CASE Others
  <2>1. call' = call /\ UNCHANGED <<pc, messages, outcome>>
    BY <1>12 DEF Others, replace_goal
  <2> QED BY <2>1
<1> QED BY <1>2, <1>3, <1>4, <1>5, <1>6, <1>7, <1>8, <1>9, <1>10, <1>11, <1>12 DEF LoopNext, LoopStep

LEMMA ContinuesByProgress == conts \in Nat /\ LoopNext => ContinuedByProgress
<1> SUFFICES ASSUME conts \in Nat, LoopNext, conts' > conts, conts > 0 PROVE Exceeds(last', last)
  BY DEF ContinuedByProgress
<1> USE DEF bounds, loopState, transcript
<1>1. CASE conts' = 0 \/ conts' = conts
  BY <1>1
<1>2. CASE AnswerText
  <2> HIDE DEF bounds, loopState, transcript
  <2>1. \/ conts' = conts
        \/ MayContinue(Progress(captured[Me])) /\ last' = Progress(captured[Me])
    BY <1>2 DEF AnswerText
  <2> QED BY <1>1, <2>1 DEF MayContinue
<1>3. CASE Start \/ TopEnds \/ Top \/ StreamCancelled \/ ToolsDone \/ Process
  BY <1>1, <1>3 DEF Start, TopEnds, Top, StreamCancelled, ToolsDone, Process
<1>4. CASE Filtered \/ CallTools
  BY <1>1, <1>4 DEF Filtered, CallTools
<1>5. CASE StreamFails \/ Squeeze \/ End
  BY <1>1, <1>5 DEF StreamFails, Squeeze, End, Fail, Return
<1>6. CASE RunBatch \/ EvidenceReads \/ EvidenceWrites
  BY <1>1, <1>6 DEF RunBatch, EvidenceReads, EvidenceWrites
<1>7. CASE Cancel \/ BackgroundEnds \/ Others
  BY <1>1, <1>7 DEF Cancel, BackgroundEnds, Others
<1> QED BY <1>2, <1>3, <1>4, <1>5, <1>6, <1>7 DEF LoopNext, LoopStep

\* For any tools, responses and limits, however other turns change the goal
\* and whenever the cancel flag is set: a cancelled run begins nothing and
\* does not succeed, continuations need progress, a tool that may not be
\* repeated succeeds in one response, and a run charges one turn (loop.py,
\* run, _process_tool_calls and _batch_execute).
THEOREM RunsKeepTheirLimits == LoopSpec => RunKeepsItsLimits
<1>1. LimitsInv => SucceedsInOneResponse /\ TurnChargedOnce
  BY SucceedsOnce DEF LimitsInv, CountsInv, TurnChargedOnce
<1>2. LimitsInv /\ LimitsInv' /\ [LoopNext]_loopVars
      => [CancelIsFinal /\ ContinuedByProgress /\ SucceedsInOneResponse' /\ TurnChargedOnce']_loopVars
  <2> SUFFICES ASSUME LimitsInv, LimitsInv', LoopNext
               PROVE  CancelIsFinal /\ ContinuedByProgress /\ SucceedsInOneResponse' /\ TurnChargedOnce'
    OBVIOUS
  <2>1. SucceedsInOneResponse' /\ TurnChargedOnce'
    <3>1. LimitsInv' => SucceedsInOneResponse' /\ TurnChargedOnce'
      BY <1>1, PTL
    <3> QED BY <3>1
  <2>2. conts \in Nat
    BY DEF LimitsInv, CountsInv
  <2> QED BY <2>1, <2>2, CancelStaysFinal, ContinuesByProgress
<1> QED BY <1>2, LimitsHoldAtFirst, LimitsStepKeeps, PTL DEF LoopSpec, RunKeepsItsLimits

-----------------------------------------------------------------------------
(***************************************************************************)
(* Proofs about the loop of one agent: the transcript.                     *)
(*                                                                         *)
(* TranscriptPairs speaks of the moments a transcript is sent.  Between    *)
(* them the last assistant message waits for results: Waiting says that    *)
(* those of its calls that are answered and those still in batches make up *)
(* all of them, each once.  Two more facts make every compression safe.    *)
(* Calls of different messages have different ids, so that a result whose  *)
(* call was cut off is seen to be an orphan; and a cancelled run sends     *)
(* nothing any more, so that the calls a cancel left open do no harm.      *)
(***************************************************************************)
Message == {System, User} \cup {Assistant(reqs) : reqs \in Seq(ToolCall)}
                          \cup {Result(id) : id \in Nat \X Nat}

\* How many results an assistant message has to have
Due(m) == Len(ToolCalls(m))

\* Message i and its results are among the first n messages.
Block(ms, i, n) ==
  /\ i + Due(ms[i]) <= n
  /\ \A j \in 1..Due(ms[i]) : ms[i + j].role = "tool"
  /\ {ms[i + j].id : j \in 1..Due(ms[i])} = IdsOf(ms[i])

Owned(ms, j) == ms[j].role = "tool" => \E i \in 1..(j - 1) : j <= i + Due(ms[i])

\* The first n messages are well formed.
PairedTo(ms, n) ==
  /\ \A i \in 1..n : Block(ms, i, n)
  /\ \A j \in 1..n : Owned(ms, j)

\* No two calls have the same id.
Distinct(ms) ==
  /\ \A i, j \in DOMAIN ms : i # j => IdsOf(ms[i]) \cap IdsOf(ms[j]) = {}
  /\ \A i \in DOMAIN ms : \A a, b \in DOMAIN ToolCalls(ms[i]) :
       ToolCalls(ms[i])[a].id = ToolCalls(ms[i])[b].id => a = b

\* All calls were made before iteration k.
Before(ms, k) == \A i \in DOMAIN ms : \A id \in IdsOf(ms[i]) : id[1] < k

Transcript(ms, k) ==
  ms \in Seq(Message) /\ Len(ms) >= 2 /\ ms[1] = System /\ Distinct(ms) /\ Before(ms, k)

Whole(ms, k) == Transcript(ms, k) /\ PairedTo(ms, Len(ms))

LEMMA MessageFacts ==
    ASSUME NEW m \in Message
    PROVE  /\ ToolCalls(m) \in Seq(ToolCall) /\ Due(m) \in Nat /\ DOMAIN ToolCalls(m) = 1..Due(m)
           /\ m.role # "assistant" => ToolCalls(m) = <<>> /\ Due(m) = 0 /\ IdsOf(m) = {}
           /\ \A id \in IdsOf(m) : \E i \in 1..Due(m) : id = ToolCalls(m)[i].id
           /\ \A i \in 1..Due(m) : ToolCalls(m)[i].id \in IdsOf(m)
<1>1. ToolCalls(m) \in Seq(ToolCall)
  <2>1. CASE m.role = "assistant"
    <3>1. m # System /\ m # User /\ \A id \in Nat \X Nat : m # Result(id)
      BY <2>1 DEF System, User, Result
    <3>2. PICK reqs \in Seq(ToolCall) : m = Assistant(reqs)
      BY <3>1 DEF Message
    <3> QED BY <2>1, <3>2 DEF ToolCalls, Assistant
  <2>2. CASE m.role # "assistant"
    BY <2>2 DEF ToolCalls
  <2> QED BY <2>1, <2>2
<1>2. Due(m) \in Nat /\ DOMAIN ToolCalls(m) = 1..Due(m)
  BY <1>1 DEF Due
<1>3. m.role # "assistant" => ToolCalls(m) = <<>> /\ Due(m) = 0
  BY DEF ToolCalls, Due
<1>4. m.role # "assistant" => IdsOf(m) = {}
  BY <1>2, <1>3 DEF IdsOf
<1>5. \A id : id \in IdsOf(m) <=> \E i \in DOMAIN ToolCalls(m) : id = ToolCalls(m)[i].id
  BY Zenon DEF IdsOf
<1> QED BY <1>1, <1>2, <1>3, <1>4, <1>5, Zenon

LEMMA Kinds4 ==
    /\ System \in Message /\ User \in Message
    /\ System.role = "system" /\ User.role = "user"
    /\ \A reqs \in Seq(ToolCall) : /\ Assistant(reqs) \in Message /\ Assistant(reqs).role = "assistant"
                                    /\ ToolCalls(Assistant(reqs)) = reqs
    /\ \A id \in Nat \X Nat : /\ Result(id) \in Message /\ Result(id).role = "tool"
                              /\ Result(id).id = id
<1>1. System \in Message /\ User \in Message
  BY DEF Message
<1>2. System.role = "system" /\ User.role = "user"
  BY DEF System, User
<1>3. ASSUME NEW reqs \in Seq(ToolCall)
      PROVE  /\ Assistant(reqs) \in Message /\ Assistant(reqs).role = "assistant"
             /\ ToolCalls(Assistant(reqs)) = reqs
  <2>1. Assistant(reqs) \in Message
    BY DEF Message
  <2> QED BY <2>1 DEF Assistant, ToolCalls
<1>4. ASSUME NEW id \in Nat \X Nat
      PROVE  Result(id) \in Message /\ Result(id).role = "tool" /\ Result(id).id = id
  <2>1. Result(id) \in Message
    BY DEF Message
  <2> QED BY <2>1 DEF Result
<1> QED BY <1>1, <1>2, <1>3, <1>4

(* Two transcripts that agree on their first n messages. *)
LEMMA PairsAgree ==
    ASSUME NEW ms \in Seq(Message), NEW ns, NEW n \in 0..Len(ms), \A i \in 1..n : ns[i] = ms[i],
           PairedTo(ms, n)
    PROVE  PairedTo(ns, n)
<1>1. \A i \in 1..n : Due(ms[i]) \in Nat
  BY MessageFacts
<1>2. ASSUME NEW i \in 1..n PROVE Block(ns, i, n)
  <2> DEFINE d == Due(ms[i])
  <2>1. Block(ms, i, n) /\ ns[i] = ms[i] /\ d \in Nat
    BY <1>1 DEF PairedTo
  <2>2. i + d <= n
    BY <2>1 DEF Block
  <2>3. \A j \in 1..d : i + j \in 1..n
    BY <2>1, <2>2
  <2>4. \A j \in 1..d : ns[i + j] = ms[i + j]
    BY <2>3
  <2>5. {ns[i + j].id : j \in 1..d} = {ms[i + j].id : j \in 1..d}
    BY <2>4, Zenon
  <2> HIDE DEF d
  <2>6. \A j \in 1..d : ms[i + j].role = "tool"
    BY <2>1 DEF Block, d
  <2>7. {ms[i + j].id : j \in 1..d} = IdsOf(ms[i])
    BY <2>1 DEF Block, d
  <2>8. d = Due(ns[i])
    BY <2>1 DEF d
  <2>9. \A j \in 1..d : ns[i + j].role = "tool"
    BY <2>4, <2>6
  <2> QED BY <2>1, <2>2, <2>5, <2>7, <2>8, <2>9 DEF Block
<1>3. ASSUME NEW j \in 1..n, ns[j].role = "tool"
      PROVE  \E i \in 1..(j - 1) : j <= i + Due(ns[i])
  <2>1. PICK i \in 1..(j - 1) : j <= i + Due(ms[i])
    BY <1>3 DEF PairedTo, Owned
  <2>2. ns[i] = ms[i]
    OBVIOUS
  <2> QED BY <2>1, <2>2
<1> QED BY <1>2, <1>3 DEF PairedTo, Owned

(* A message without calls, and not a result, follows. *)
LEMMA PairsGrow ==
    ASSUME NEW ms \in Seq(Message), NEW n \in Nat, n + 1 <= Len(ms), PairedTo(ms, n),
           ms[n + 1].role # "tool", Due(ms[n + 1]) = 0
    PROVE  PairedTo(ms, n + 1)
<1>1. \A i \in 1..n : Due(ms[i]) \in Nat
  BY MessageFacts, SMTT(30)
<1>2. ASSUME NEW i \in 1..(n + 1) PROVE Block(ms, i, n + 1)
  <2>1. CASE i \in 1..n
    <3>1. Block(ms, i, n) /\ Due(ms[i]) \in Nat
      BY <1>1, <2>1 DEF PairedTo
    <3>2. i + Due(ms[i]) <= n + 1
      BY <3>1, <2>1 DEF Block
    <3> QED BY <3>1, <3>2, Zenon DEF Block
  <2>2. CASE i = n + 1
    <3>1. Due(ms[i]) = 0 /\ ms[i] \in Message /\ 1..0 = {}
      BY <2>2
    <3>2. IdsOf(ms[i]) = {}
      BY <3>1, MessageFacts
    <3> QED BY <2>2, <3>1, <3>2 DEF Block
  <2> QED BY <2>1, <2>2
<1>3. ASSUME NEW j \in 1..(n + 1) PROVE Owned(ms, j)
  <2>1. CASE j \in 1..n
    BY <2>1 DEF PairedTo
  <2>2. CASE j = n + 1
    BY <2>2 DEF Owned
  <2> QED BY <2>1, <2>2
<1> QED BY <1>2, <1>3 DEF PairedTo

(* As many results as calls answer them all.                               *)
LEMMA SameLength ==
    ASSUME NEW f, NEW g, NEW n \in Nat, NEW m \in Nat, NEW S,
           f \in Bijection(1..n, S), g \in Bijection(1..m, S)
    PROVE  n = m
<1>1. ExistsBijection(1..n, S) /\ ExistsBijection(1..m, S)
  BY DEF ExistsBijection
<1>2. Cardinality(S) = n /\ Cardinality(S) = m
  BY <1>1, FS_CountingElements, Zenon
<1> QED BY <1>2

(* The last assistant message has all its results. *)
LEMMA PairsClose ==
    ASSUME NEW ms \in Seq(Message), Distinct(ms), NEW a \in 1..Len(ms), PairedTo(ms, a - 1),
           ms[a].role = "assistant",
           \A j \in (a + 1)..Len(ms) : ms[j].role = "tool" /\ ms[j].id \in IdsOf(ms[a]),
           \A i, j \in (a + 1)..Len(ms) : ms[i].id = ms[j].id => i = j,
           \A id \in IdsOf(ms[a]) : \E j \in (a + 1)..Len(ms) : ms[j].id = id
    PROVE  PairedTo(ms, Len(ms))
<1> DEFINE N == Len(ms)
           d == Due(ms[a])
           S == IdsOf(ms[a])
           f == [j \in 1..(N - a) |-> ms[a + j].id]
           g == [j \in 1..d |-> ToolCalls(ms[a])[j].id]
<1>1. ms[a] \in Message /\ N \in Nat
  OBVIOUS
<1>2. /\ d \in Nat /\ DOMAIN ToolCalls(ms[a]) = 1..d
      /\ \A id \in S : \E i \in 1..d : id = ToolCalls(ms[a])[i].id
      /\ \A i \in 1..d : ToolCalls(ms[a])[i].id \in S
  BY <1>1, MessageFacts, Zenon
<1>3. f \in Bijection(1..(N - a), S)
  <2>1. \A j \in 1..(N - a) : a + j \in (a + 1)..N
    BY <1>1
  <2>2. f \in [1..(N - a) -> S]
    BY <2>1
  <2>3. \A i, j \in 1..(N - a) : f[i] = f[j] => i = j
    <3> SUFFICES ASSUME NEW i \in 1..(N - a), NEW j \in 1..(N - a), f[i] = f[j] PROVE i = j
      OBVIOUS
    <3>1. ms[a + i].id = ms[a + j].id
      OBVIOUS
    <3>2. a + i = a + j
      BY <2>1, <3>1
    <3> QED BY <3>2
  <2>4. ASSUME NEW id \in S PROVE \E j \in 1..(N - a) : f[j] = id
    <3>1. PICK j \in (a + 1)..N : ms[j].id = id
      OBVIOUS
    <3>2. j - a \in 1..(N - a) /\ a + (j - a) = j
      BY <1>1
    <3> QED BY <3>1, <3>2
  <2> HIDE DEF f, S
  <2> QED BY <2>2, <2>3, <2>4 DEF Bijection, Injection, Surjection, IsInjective
<1>4. g \in Bijection(1..d, S)
  <2>1. g \in [1..d -> S]
    BY <1>2
  <2>2. \A i, j \in 1..d : g[i] = g[j] => i = j
    <3> SUFFICES ASSUME NEW i \in 1..d, NEW j \in 1..d, g[i] = g[j] PROVE i = j
      OBVIOUS
    <3>1. ToolCalls(ms[a])[i].id = ToolCalls(ms[a])[j].id
      OBVIOUS
    <3>2. a \in DOMAIN ms /\ i \in DOMAIN ToolCalls(ms[a]) /\ j \in DOMAIN ToolCalls(ms[a])
      BY <1>2
    <3> QED BY <3>1, <3>2, Zenon DEF Distinct
  <2>3. \A id \in S : \E j \in 1..d : g[j] = id
    BY <1>2, ZenonT(40)
  <2> HIDE DEF g, S
  <2> QED BY <2>1, <2>2, <2>3 DEF Bijection, Injection, Surjection, IsInjective
<1>5. N - a \in Nat
  BY <1>1
<1>6. N - a = d
  <2> HIDE DEF f, g, S, d, N
  <2> QED BY <1>2, <1>3, <1>4, <1>5, SameLength, Zenon
<1>7. ASSUME NEW i \in 1..N PROVE Block(ms, i, N)
  <2>0. ms[i] \in Message /\ Due(ms[i]) \in Nat
    BY MessageFacts
  <2>1. CASE i \in 1..(a - 1)
    <3>1. Block(ms, i, a - 1)
      BY <2>1 DEF PairedTo
    <3>2. i + Due(ms[i]) <= N
      BY <2>0, <3>1 DEF Block
    <3> QED BY <3>1, <3>2, Zenon DEF Block
  <2>2. CASE i = a
    <3>1. a + d <= N
      BY <1>6, <1>1
    <3>2. \A j \in 1..d : a + j \in (a + 1)..N
      BY <1>6, <1>1
    <3>3. {ms[a + j].id : j \in 1..d} = S
      <4>1. \A id \in S : \E j \in 1..d : ms[a + j].id = id
        <5> SUFFICES ASSUME NEW id \in S PROVE \E j \in 1..d : ms[a + j].id = id
          OBVIOUS
        <5>1. PICK j \in (a + 1)..N : ms[j].id = id
          OBVIOUS
        <5>2. j - a \in 1..d /\ a + (j - a) = j
          BY <1>6, <1>1, SMTT(30)
        <5> QED BY <5>1, <5>2
      <4>2. \A j \in 1..d : ms[a + j].id \in S
        BY <3>2
      <4> HIDE DEF S, d
      <4>3. ASSUME NEW x \in {ms[a + j].id : j \in 1..d} PROVE x \in S
        BY <4>2
      <4>4. ASSUME NEW x \in S PROVE x \in {ms[a + j].id : j \in 1..d}
        <5>1. PICK j \in 1..d : ms[a + j].id = x
          BY <4>1
        <5> QED BY <5>1
      <4> QED BY <4>3, <4>4
    <3> QED BY <2>2, <3>1, <3>2, <3>3 DEF Block
  <2>3. CASE i \in (a + 1)..N
    <3>1. Due(ms[i]) = 0 /\ IdsOf(ms[i]) = {}
      BY <2>0, <2>3, MessageFacts
    <3> QED BY <3>1, 1..0 = {} DEF Block
  <2> QED BY <2>1, <2>2, <2>3
<1>8. ASSUME NEW j \in 1..N PROVE Owned(ms, j)
  <2>1. CASE j \in 1..(a - 1)
    BY <2>1 DEF PairedTo
  <2>2. CASE j = a
    BY <2>2 DEF Owned
  <2>3. CASE j \in (a + 1)..N
    <3>1. a \in 1..(j - 1) /\ j <= a + d
      BY <1>6, <1>1, <2>3
    <3> QED BY <3>1 DEF Owned
  <2> QED BY <2>1, <2>2, <2>3
<1> QED BY <1>7, <1>8 DEF PairedTo

(* Picked, when all positions but those from a + 1 to b are picked. *)
Gapped(r, s, a, b, n) ==
    /\ Len(r) = IF n <= a THEN n ELSE IF n <= b THEN a ELSE n - (b - a)
    /\ \A k \in 1..Len(r) : r[k] = IF k <= a THEN s[k] ELSE s[k + (b - a)]

LEMMA PickedGap ==
    ASSUME NEW S, NEW s \in Seq(S), NEW I, NEW a \in Nat, NEW b \in Nat, a <= b, b <= Len(s),
           \A i \in 1..Len(s) : i \in I <=> i <= a \/ b < i
    PROVE  Picked(s, I) \in Seq(S) /\ Gapped(Picked(s, I), s, a, b, Len(s))
<1> DEFINE N == Len(s)
<1>1. N \in Nat /\ \A i \in 1..N : s[i] \in S
  OBVIOUS
<1>2. PICK g : PickLoop(g, s, I) /\ g[N] = Picked(s, I)
  BY PickedLoop, Zenon
<1>3. g[0] = <<>> /\ \A n \in 1..N : g[n] = IF n \in I THEN Append(g[n-1], s[n]) ELSE g[n-1]
  BY <1>2 DEF PickLoop
<1> DEFINE Good == {n \in 0..N : g[n] \in Seq(S) /\ Gapped(g[n], s, a, b, n)}
<1>4. 0 \in Good
  <2>1. << >> \in Seq(S) /\ 0 \in 0..N
    BY <1>1
  <2>2. Gapped(<<>>, s, a, b, 0)
    BY DEF Gapped
  <2> QED BY <1>3, <2>1, <2>2, Zenon
<1>5. ASSUME NEW n \in 1..N, n - 1 \in Good PROVE n \in Good
  <2> DEFINE p == g[n-1]
             r == g[n]
  <2>1. p \in Seq(S) /\ Gapped(p, s, a, b, n - 1) /\ n \in 0..N /\ s[n] \in S
    BY <1>1, <1>5
  <2>2. r = IF n \in I THEN Append(p, s[n]) ELSE p
    BY <1>3
  <2>3. n \in I <=> n <= a \/ b < n
    OBVIOUS
  <2> HIDE DEF p, r
  <2>4. CASE n <= a
    <3>1. r = Append(p, s[n]) /\ Len(p) = n - 1
      BY <2>1, <2>2, <2>3, <2>4 DEF Gapped
    <3>2. Len(r) = n /\ r[n] = s[n] /\ \A k \in 1..(n - 1) : r[k] = p[k]
      BY <2>1, <3>1
    <3>3. \A k \in 1..n : r[k] = s[k]
      BY <2>1, <2>4, <3>1, <3>2 DEF Gapped
    <3>4. Gapped(r, s, a, b, n)
      BY <2>4, <3>2, <3>3 DEF Gapped
    <3>5. r \in Seq(S)
      BY <2>1, <3>1
    <3> QED BY <2>1, <3>4, <3>5, Zenon DEF r
  <2>5. CASE a < n /\ n <= b
    <3>1. r = p /\ Len(p) = a
      BY <2>1, <2>2, <2>3, <2>5 DEF Gapped
    <3>2. Gapped(r, s, a, b, n)
      BY <2>1, <2>5, <3>1 DEF Gapped
    <3> QED BY <2>1, <3>1, <3>2, Zenon DEF r
  <2>6. CASE b < n
    <3> DEFINE L == n - (b - a)
    <3>1. r = Append(p, s[n]) /\ Len(p) = L - 1 /\ L \in 1..n /\ a < L
      BY <2>1, <2>2, <2>3, <2>6, SMTT(30) DEF Gapped
    <3>2. Len(r) = L /\ r[L] = s[L + (b - a)] /\ \A k \in 1..(L - 1) : r[k] = p[k]
      BY <2>1, <3>1
    <3>3. ASSUME NEW k \in 1..L PROVE r[k] = IF k <= a THEN s[k] ELSE s[k + (b - a)]
      <4>1. CASE k = L
        BY <4>1, <3>1, <3>2
      <4>2. CASE k # L
        <5>1. k \in 1..(L - 1) /\ k \in 1..Len(p)
          BY <4>2, <3>1
        <5> QED BY <5>1, <3>2, <2>1, Zenon DEF Gapped
      <4> QED BY <4>1, <4>2
    <3>4. Gapped(r, s, a, b, n)
      BY <2>6, <3>2, <3>3 DEF Gapped
    <3>5. r \in Seq(S)
      BY <2>1, <3>1
    <3> QED BY <2>1, <3>4, <3>5, Zenon DEF r
  <2> QED BY <2>4, <2>5, <2>6
<1> HIDE DEF Good
<1>6. \A n \in 0..N : n \in Good
  <2>1. N \in Nat
    BY <1>1
  <2> QED BY <1>4, <1>5, <2>1, CountUp, Zenon
<1>7. N \in 0..N
  BY <1>1
<1> QED BY <1>2, <1>6, <1>7 DEF Good

(* No result is missing: nothing is added. *)
LEMMA NothingOpen ==
    ASSUME NEW ms \in Seq(Message), NEW m \in Message, IdsOf(m) \subseteq AnsweredIn(ms)
    PROVE  Stubs(ms, m) = <<>>
<1> DEFINE I == {i \in DOMAIN ToolCalls(m) : ToolCalls(m)[i].id \notin AnsweredIn(ms)}
           open == Picked(ToolCalls(m), I)
<1>1. ToolCalls(m) \in Seq(ToolCall)
  BY MessageFacts
<1>2. I = {}
  BY DEF IdsOf
<1> HIDE DEF I
<1>3. open \in Seq(ToolCall) /\ Gapped(open, ToolCalls(m), 0, Len(ToolCalls(m)), Len(ToolCalls(m)))
  <2> DEFINE s == ToolCalls(m)
             n == Len(s)
  <2>1. s \in Seq(ToolCall) /\ n \in Nat /\ 0 \in Nat /\ 0 <= n /\ n <= n
    BY <1>1
  <2>2. \A i \in 1..n : i \in I <=> i <= 0 \/ n < i
    BY <1>2, <2>1
  <2> HIDE DEF s
  <2>3. Picked(s, I) \in Seq(ToolCall) /\ Gapped(Picked(s, I), s, 0, n, n)
    BY <2>1, <2>2, PickedGap, Zenon
  <2> QED BY <2>3 DEF s
<1>4. Len(open) = 0
  <2>1. Len(ToolCalls(m)) \in Nat
    BY <1>1
  <2> HIDE DEF open
  <2> QED BY <1>3, <2>1 DEF Gapped
<1>5. DOMAIN open = {}
  <2> HIDE DEF open
  <2> QED BY <1>3, <1>4
<1>6. Stubs(ms, m) = [k \in DOMAIN open |-> Result(open[k].id)]
  BY DEF Stubs, I
<1> HIDE DEF open
<1> QED BY <1>5, <1>6

LEMMA NothingAdded ==
    ASSUME NEW ms \in Seq(Message), \A i \in 1..Len(ms) : IdsOf(ms[i]) \subseteq AnsweredIn(ms)
    PROVE  WithStubs(ms) = ms
<1> DEFINE N == Len(ms)
           F == [q \in (1..N) \X Seq(Message) |-> Append(q[2], ms[q[1]]) \o Stubs(ms, ms[q[1]])]
           Loop(g) == g = [n \in 0..N |-> IF n = 0 THEN <<>> ELSE Append(g[n-1], ms[n]) \o Stubs(ms, ms[n])]
<1>1. N \in Nat /\ \A i \in 1..N : ms[i] \in Message /\ Stubs(ms, ms[i]) = <<>>
  BY NothingOpen
<1>2. ASSUME NEW n \in 1..N, NEW x \in Seq(Message)
      PROVE  /\ F[<<n, x>>] = Append(x, ms[n]) \o Stubs(ms, ms[n])
             /\ Append(x, ms[n]) \o Stubs(ms, ms[n]) = Append(x, ms[n])
             /\ Append(x, ms[n]) \in Seq(Message)
  <2>1. F[<<n, x>>] = Append(x, ms[n]) \o Stubs(ms, ms[n])
    OBVIOUS
  <2> HIDE DEF F
  <2>2. Append(x, ms[n]) \in Seq(Message)
    OBVIOUS
  <2>3. Append(x, ms[n]) \o <<>> = Append(x, ms[n])
    BY <2>2
  <2> QED BY <1>1, <2>1, <2>2, <2>3
<1>3. << >> \in Seq(Message)
  OBVIOUS
<1> HIDE DEF F
<1>4. PICK h : LoopStaysIn(h, N, <<>>, F, Seq(Message))
  <2>1. \A n \in 1..N, x \in Seq(Message) : F[<<n, x>>] \in Seq(Message)
    BY <1>2, Zenon
  <2>2. N \in Nat
    BY <1>1
  <2> QED BY <1>3, <2>1, <2>2, LoopStays, Zenon
<1>5. /\ h = [n \in 0..N |-> IF n = 0 THEN <<>> ELSE F[<<n, h[n-1]>>]]
      /\ \A n \in 0..N : h[n] \in Seq(Message)
  BY <1>4, Zenon DEF LoopStaysIn
<1>6. Loop(h)
  <2>1. ASSUME NEW n \in 0..N, n # 0
        PROVE  F[<<n, h[n-1]>>] = Append(h[n-1], ms[n]) \o Stubs(ms, ms[n])
    <3>1. n \in 1..N /\ n - 1 \in 0..N
      BY <1>1, <2>1
    <3> QED BY <3>1, <1>2, <1>5, Zenon
  <2>2. \A n \in 0..N : (IF n = 0 THEN <<>> ELSE F[<<n, h[n-1]>>])
                        = (IF n = 0 THEN <<>> ELSE Append(h[n-1], ms[n]) \o Stubs(ms, ms[n]))
    BY <2>1, Zenon
  <2>3. [n \in 0..N |-> IF n = 0 THEN <<>> ELSE F[<<n, h[n-1]>>]]
        = [n \in 0..N |-> IF n = 0 THEN <<>> ELSE Append(h[n-1], ms[n]) \o Stubs(ms, ms[n])]
    BY <2>2, Zenon
  <2> QED BY <1>5, <2>3, Zenon
<1> DEFINE g == CHOOSE e : Loop(e)
<1>7. Loop(g)
  BY <1>6, Zenon
<1>8. WithStubs(ms) = g[N]
  BY Zenon DEF WithStubs
<1> HIDE DEF g
<1>9. \A n \in 0..N : g[n] = IF n = 0 THEN <<>> ELSE Append(g[n-1], ms[n]) \o Stubs(ms, ms[n])
  BY <1>7, Zenon
<1> DEFINE Good == {n \in 0..N : g[n] \in Seq(Message) /\ Len(g[n]) = n /\ \A k \in 1..n : g[n][k] = ms[k]}
<1>10. 0 \in Good
  <2>1. 0 \in 0..N
    BY <1>1
  <2>2. g[0] = <<>>
    BY <1>9, <2>1, Zenon
  <2>3. << >> \in Seq(Message) /\ Len(<< >>) = 0 /\ 1..0 = {}
    OBVIOUS
  <2> QED BY <2>1, <2>2, <2>3, Zenon
<1>11. ASSUME NEW n \in 1..N, n - 1 \in Good PROVE n \in Good
  <2> DEFINE p == g[n-1]
             r == g[n]
  <2>1. n \in 0..N /\ n # 0 /\ p \in Seq(Message) /\ Len(p) = n - 1 /\ \A k \in 1..(n - 1) : p[k] = ms[k]
    BY <1>1, <1>11
  <2>2. r = Append(p, ms[n]) \o Stubs(ms, ms[n])
    BY <1>9, <2>1, Zenon
  <2> HIDE DEF p, r
  <2>3. r = Append(p, ms[n]) /\ ms[n] \in Message
    BY <1>1, <1>2, <2>1, <2>2, Zenon
  <2>4. r \in Seq(Message) /\ Len(r) = n /\ r[n] = ms[n] /\ \A k \in 1..(n - 1) : r[k] = p[k]
    BY <2>1, <2>3
  <2>5. \A k \in 1..n : r[k] = ms[k]
    BY <2>1, <2>4
  <2> QED BY <2>1, <2>4, <2>5 DEF r
<1> HIDE DEF Good
<1>12. \A n \in 0..N : n \in Good
  <2>1. N \in Nat
    BY <1>1
  <2> QED BY <1>10, <1>11, <2>1, CountUp, Zenon
<1>13. N \in 0..N
  BY <1>1
<1>14. g[N] \in Seq(Message) /\ Len(g[N]) = Len(ms) /\ \A k \in 1..Len(ms) : g[N][k] = ms[k]
  BY <1>12, <1>13 DEF Good
<1>15. g[N] = ms
  <2> DEFINE r == g[N]
  <2>1. r \in Seq(Message) /\ Len(r) = Len(ms) /\ \A k \in 1..Len(ms) : r[k] = ms[k]
    BY <1>14
  <2> HIDE DEF r
  <2>2. r = ms
    BY <2>1
  <2> QED BY <2>2 DEF r
<1> QED BY <1>8, <1>15

(* A result is one of the calls that own it. *)
LEMMA OwnedIsAnswer ==
    ASSUME NEW ms \in Seq(Message), PairedTo(ms, Len(ms)), NEW i \in 1..Len(ms),
           NEW j \in (i + 1)..(i + Due(ms[i]))
    PROVE  j \in 1..Len(ms) /\ ms[j].role = "tool" /\ ms[j].id \in IdsOf(ms[i])
<1>1. Block(ms, i, Len(ms)) /\ Due(ms[i]) \in Nat
  BY MessageFacts DEF PairedTo
<1>2. j - i \in 1..Due(ms[i]) /\ i + (j - i) = j /\ j \in 1..Len(ms)
  BY <1>1 DEF Block
<1>3. \A q \in 1..Due(ms[i]) : ms[i + q].role = "tool" /\ ms[i + q].id \in IdsOf(ms[i])
  BY <1>1, Zenon DEF Block
<1> QED BY <1>2, <1>3

(* Where the results end of a message that is before position p. *)
Cuts(ms, p, e) ==
    /\ \A j \in p..e : ms[j].role = "tool" /\ \E i \in 1..(p - 1) : ms[j].id \in IdsOf(ms[i])
    /\ \A j \in (e + 1)..Len(ms) : ms[j].role = "tool" =>
         \E i \in (e + 1)..(j - 1) : j <= i + Due(ms[i])

LEMMA CutExists ==
    ASSUME NEW ms \in Seq(Message), PairedTo(ms, Len(ms)), NEW p \in 1..(Len(ms) + 1)
    PROVE  \E e \in (p - 1)..Len(ms) : Cuts(ms, p, e)
<1>0. Len(ms) \in Nat /\ \A i \in 1..Len(ms) : Due(ms[i]) \in Nat /\ (ms[i].role = "tool" => Due(ms[i]) = 0)
  BY MessageFacts
<1>1. CASE \E i \in 1..(p - 1) : i + Due(ms[i]) >= p
  <2>1. PICK i \in 1..(p - 1) : i + Due(ms[i]) >= p
    BY <1>1
  <2> DEFINE e == i + Due(ms[i])
  <2>2. i \in 1..Len(ms) /\ e \in p..Len(ms)
    BY <1>0, <2>1 DEF PairedTo, Block
  <2>3. ASSUME NEW j \in p..e
        PROVE  ms[j].role = "tool" /\ \E o \in 1..(p - 1) : ms[j].id \in IdsOf(ms[o])
    <3>1. j \in (i + 1)..(i + Due(ms[i]))
      BY <2>1, <2>2
    <3> QED BY <2>2, <3>1, OwnedIsAnswer
  <2>4. ASSUME NEW j \in (e + 1)..Len(ms), ms[j].role = "tool"
        PROVE  \E o \in (e + 1)..(j - 1) : j <= o + Due(ms[o])
    <3>1. PICK o \in 1..(j - 1) : j <= o + Due(ms[o])
      BY <2>2, <2>4, SMTT(30) DEF PairedTo, Owned
    <3>2. o \in 1..Len(ms) /\ Due(ms[o]) \in Nat /\ Due(ms[o]) # 0
      BY <1>0, <2>2, <3>1, SMTT(30)
    <3>3. o \notin (i + 1)..e
      <4> SUFFICES ASSUME o \in (i + 1)..e PROVE FALSE
        OBVIOUS
      <4>1. ms[o].role = "tool"
        BY <2>2, OwnedIsAnswer
      <4> QED BY <1>0, <3>2, <4>1
    <3>4. o # i
      BY <3>1, <2>2
    <3>5. ~ o < i
      <4> SUFFICES ASSUME o < i PROVE FALSE
        OBVIOUS
      <4>1. i \in (o + 1)..(o + Due(ms[o]))
        BY <3>1, <3>2, <2>2
      <4>2. ms[i].role = "tool"
        BY <3>2, <4>1, OwnedIsAnswer
      <4> QED BY <1>0, <2>1, <2>2, <4>2, SMTT(30)
    <3> QED BY <3>1, <3>2, <3>3, <3>4, <3>5, <2>2
  <2> HIDE DEF e
  <2>5. Cuts(ms, p, e)
    BY <2>3, <2>4 DEF Cuts
  <2> QED BY <2>2, <2>5
<1>2. CASE ~ \E i \in 1..(p - 1) : i + Due(ms[i]) >= p
  <2>1. ASSUME NEW j \in p..Len(ms), ms[j].role = "tool"
        PROVE  \E o \in p..(j - 1) : j <= o + Due(ms[o])
    <3>1. PICK o \in 1..(j - 1) : j <= o + Due(ms[o])
      BY <2>1 DEF PairedTo, Owned
    <3>2. o \in 1..Len(ms) /\ Due(ms[o]) \in Nat
      BY <1>0, <3>1
    <3>3. o \notin 1..(p - 1)
      BY <1>2, <3>1, <3>2
    <3> QED BY <3>1, <3>2, <3>3
  <2>2. Cuts(ms, p, p - 1)
    BY <2>1 DEF Cuts
  <2> QED BY <1>0, <2>2
<1> QED BY <1>1, <1>2

(* y is ms without the messages between the first and e, and a summary.     *)
Summary(ms, e, y) ==
    /\ y \in Seq(Message) /\ Len(y) = Len(ms) - (e - 2)
    /\ y[1] = System /\ y[2] = User /\ \A k \in 3..Len(y) : y[k] = ms[k + (e - 2)]

LEMMA SummaryIsWhole ==
    ASSUME NEW ms, NEW it, Whole(ms, it), NEW p \in 1..(Len(ms) + 1), NEW e \in 2..Len(ms), p - 1 <= e,
           Cuts(ms, p, e), NEW y, Summary(ms, e, y)
    PROVE  Whole(y, it)
<1> DEFINE d == e - 2
           L == Len(y)
<1>1. /\ ms \in Seq(Message) /\ Distinct(ms) /\ Before(ms, it) /\ PairedTo(ms, Len(ms)) /\ Len(ms) \in Nat
      /\ \A i \in 1..Len(ms) : ms[i] \in Message /\ Due(ms[i]) \in Nat /\ (ms[i].role = "tool" => Due(ms[i]) = 0)
  <2>1. ms \in Seq(Message)
    BY DEF Whole, Transcript
  <2> QED BY <2>1, MessageFacts, SMTT(30) DEF Whole, Transcript
<1>2. /\ y \in Seq(Message) /\ L = Len(ms) - d /\ L \in Nat /\ L >= 2 /\ d \in Nat
      /\ y[1] = System /\ y[2] = User /\ \A k \in 3..L : y[k] = ms[k + d] /\ k + d \in (e + 1)..Len(ms)
  BY <1>1, SMTT(40) DEF Summary
<1>9. DOMAIN y = 1..L /\ d + 2 = e /\ e \in 2..Len(ms) /\ DOMAIN ms = 1..Len(ms)
  BY <1>1, <1>2
<1> HIDE DEF d, L
<1>10. ASSUME NEW k \in 3..L PROVE k + d \in 1..Len(ms) /\ y[k] = ms[k + d]
  <2> DEFINE M == Len(ms)
  <2>1. k + d \in (e + 1)..M /\ y[k] = ms[k + d] /\ M \in Nat /\ e \in 2..M
    BY <1>1, <1>2, <1>9, Zenon
  <2> HIDE DEF M
  <2>2. k + d \in 1..M
    BY <2>1
  <2> QED BY <2>1, <2>2 DEF M
<1>3. \A k \in {1, 2} : y[k].role # "tool" /\ Due(y[k]) = 0 /\ IdsOf(y[k]) = {}
  <2>1. y[1] \in Message /\ y[2] \in Message /\ y[1].role = "system" /\ y[2].role = "user"
    BY <1>2, Kinds4
  <2> QED BY <2>1, MessageFacts
<1>4. ASSUME NEW i \in 1..L PROVE Block(y, i, L)
  <2>1. CASE i \in {1, 2}
    BY <2>1, <1>2, <1>3, 1..0 = {} DEF Block
  <2>2. CASE i \in 3..L
    <3> DEFINE c == i + d
               q == Due(ms[c])
    <3>1. y[i] = ms[c] /\ c \in 1..Len(ms) /\ q \in Nat
      BY <1>1, <1>10, <2>2, Zenon
    <3>2. Block(ms, c, Len(ms))
      BY <1>1, <3>1 DEF PairedTo
    <3>3. c + q <= Len(ms) /\ i + q <= L
      BY <1>2, <3>1, <3>2 DEF Block
    <3>10. c = i + d
      OBVIOUS
    <3> HIDE DEF c, q
    <3>4. \A j \in 1..q : y[i + j] = ms[c + j]
      <4> SUFFICES ASSUME NEW j \in 1..q PROVE y[i + j] = ms[c + j]
        OBVIOUS
      <4>1. i + j \in 3..L /\ (i + j) + d = c + j
        <5>1. i \in 3..L /\ q \in Nat /\ i + q <= L /\ c = i + d /\ L \in Nat /\ d \in Nat
          BY <2>2, <3>1, <3>3, <3>10, <1>2, Zenon
        <5> QED BY ONLY <5>1, j \in 1..q
      <4> QED BY <4>1, <1>10, Zenon
    <3>5. {y[i + j].id : j \in 1..q} = {ms[c + j].id : j \in 1..q}
      BY <3>4, Zenon
    <3>6. \A j \in 1..q : ms[c + j].role = "tool"
      BY <3>2, Zenon DEF Block, q
    <3>7. {ms[c + j].id : j \in 1..q} = IdsOf(ms[c])
      BY <3>2, Zenon DEF Block, q
    <3>8. \A j \in 1..q : y[i + j].role = "tool"
      BY <3>4, <3>6, Zenon
    <3>9. q = Due(y[i])
      BY <3>1 DEF q
    <3> QED BY <3>1, <3>3, <3>5, <3>7, <3>8, <3>9 DEF Block
  <2> QED BY <2>1, <2>2
<1>5. ASSUME NEW j \in 1..L, y[j].role = "tool" PROVE \E i \in 1..(j - 1) : j <= i + Due(y[i])
  <2>1. j \in 3..L
    BY <1>3, <1>5
  <2>2. j + d \in (e + 1)..Len(ms) /\ y[j] = ms[j + d]
    BY <1>2, <2>1
  <2>3. PICK o \in (e + 1)..((j + d) - 1) : j + d <= o + Due(ms[o])
    BY <1>5, <2>2 DEF Cuts
  <2>4. o - d \in 3..L /\ o - d \in 1..(j - 1) /\ (o - d) + d = o /\ o \in 1..Len(ms)
    <3> DEFINE M == Len(ms)
    <3>1. /\ o \in (e + 1)..((j + d) - 1) /\ j + d \in (e + 1)..M /\ j \in 3..L /\ d + 2 = e /\ d \in Nat
          /\ L = M - d /\ M \in Nat /\ e \in 2..M
      BY <1>1, <1>2, <1>9, <2>1, <2>2, <2>3, Zenon
    <3> HIDE DEF M
    <3>2. o - d \in 3..L /\ o - d \in 1..(j - 1) /\ (o - d) + d = o /\ o \in 1..M
      BY ONLY <3>1
    <3> QED BY <3>2 DEF M
  <2>5. y[o - d] = ms[o]
    BY <1>2, <2>4
  <2>6. j <= (o - d) + Due(y[o - d])
    <3> DEFINE q == Due(ms[o])
    <3>1. q \in Nat /\ j + d <= o + q /\ q = Due(y[o - d])
      BY <1>1, <2>3, <2>4, <2>5
    <3> HIDE DEF q
    <3>2. j <= (o - d) + q
      BY <1>2, <2>4, <3>1, SMTT(30)
    <3> QED BY <3>1, <3>2
  <2> QED BY <2>4, <2>6
<1>6. PairedTo(y, L)
  BY <1>4, <1>5 DEF PairedTo, Owned
<1>7. Distinct(y)
  <2>1. ASSUME NEW i \in 1..L, NEW j \in 1..L, i # j PROVE IdsOf(y[i]) \cap IdsOf(y[j]) = {}
    <3>1. CASE i \in {1, 2} \/ j \in {1, 2}
      BY <3>1, <1>3
    <3>2. CASE i \in 3..L /\ j \in 3..L
      <4>1. i + d \in 1..Len(ms) /\ j + d \in 1..Len(ms) /\ i + d # j + d
        <5>1. i + d # j + d
          BY <2>1, <3>2, <1>2
        <5> QED BY <1>10, <3>2, <5>1, Zenon
      <4>2. DOMAIN ms = 1..Len(ms) /\ y[i] = ms[i + d] /\ y[j] = ms[j + d]
        BY <1>9, <1>10, <3>2, Zenon
      <4> QED BY <4>1, <4>2, <1>1, Zenon DEF Distinct
    <3> QED BY <3>1, <3>2
  <2>2. ASSUME NEW i \in 1..L, NEW a \in DOMAIN ToolCalls(y[i]), NEW b \in DOMAIN ToolCalls(y[i]),
               ToolCalls(y[i])[a].id = ToolCalls(y[i])[b].id
        PROVE  a = b
    <3>1. CASE i \in {1, 2}
      <4>1. y[i] \in Message
        <5>1. y \in Seq(Message) /\ i \in DOMAIN y
          BY <1>2, <1>9, Zenon
        <5> QED BY <5>1
      <4>2. DOMAIN ToolCalls(y[i]) = 1..0
        BY <4>1, <3>1, <1>3, MessageFacts
      <4> QED BY <4>2
    <3>2. CASE i \in 3..L
      <4>1. i + d \in DOMAIN ms /\ y[i] = ms[i + d]
        BY <1>9, <1>10, <3>2, Zenon
      <4> QED BY <4>1, <2>2, <1>1, Zenon DEF Distinct
    <3> QED BY <3>1, <3>2
  <2>3. DOMAIN y = 1..L
    BY <1>9
  <2> QED BY <2>1, <2>2, <2>3, Zenon DEF Distinct
<1>8. Before(y, it)
  <2>1. ASSUME NEW i \in 1..L, NEW id \in IdsOf(y[i]) PROVE id[1] < it
    <3>1. i \in 3..L
      BY <1>3, <2>1
    <3>2. i + d \in DOMAIN ms /\ y[i] = ms[i + d]
      BY <1>9, <1>10, <3>1, Zenon
    <3> QED BY <3>2, <2>1, <1>1, Zenon DEF Before
  <2>2. DOMAIN y = 1..L
    BY <1>9
  <2> QED BY <2>1, <2>2, Zenon DEF Before
<1> QED BY <1>2, <1>6, <1>7, <1>8 DEF Whole, Transcript, L

(* What _auto_compact leaves before the tool pairs are fixed. *)
LEMMA TailOf ==
    ASSUME NEW ms \in Seq(Message), NEW pos \in 1..(Len(ms) - 1)
    PROVE  LET x == <<ms[1], User>> \o SubSeq(Tail(ms), pos + 1, Len(Tail(ms)))
           IN  /\ x \in Seq(Message) /\ Len(x) = Len(ms) - (pos - 1)
               /\ x[1] = ms[1] /\ x[2] = User
               /\ \A k \in 3..Len(x) : x[k] = ms[k + (pos - 1)]
<1> DEFINE M == Len(ms)
           body == Tail(ms)
           rest == SubSeq(body, pos + 1, M - 1)
           x == <<ms[1], User>> \o rest
<1>1. M \in Nat /\ pos \in 1..(M - 1) /\ ms[1] \in Message /\ User \in Message
  BY Kinds4
<1>2. body \in Seq(Message) /\ Len(body) = M - 1 /\ \A i \in 1..(M - 1) : body[i] = ms[i + 1]
  BY <1>1
<1> HIDE DEF body, M
<1>3. /\ rest \in Seq(Message) /\ Len(rest) = (M - 1) - pos
      /\ \A i \in 1..((M - 1) - pos) : rest[i] = body[pos + i]
  <2>1. /\ body \in Seq(Message) /\ Len(body) = M - 1 /\ M \in Nat /\ pos \in 1..(M - 1)
        /\ pos + 1 \in 1..((M - 1) + 1) /\ (M - 1) - (pos + 1) + 1 = (M - 1) - pos
    BY <1>1, <1>2
  <2>2. /\ rest \in Seq(Message) /\ Len(rest) = (M - 1) - pos
        /\ \A i \in 1..((M - 1) - pos) : rest[i] = body[(pos + 1) + i - 1]
    BY <2>1
  <2>3. \A i \in 1..((M - 1) - pos) : (pos + 1) + i - 1 = pos + i
    BY <2>1
  <2> QED BY <2>2, <2>3, Zenon
<1> HIDE DEF rest
<1>4. ASSUME NEW i \in 1..((M - 1) - pos) PROVE rest[i] = ms[i + pos + 1]
  <2>1. pos + i \in 1..(M - 1) /\ (pos + i) + 1 = i + pos + 1
    BY <1>1
  <2> QED BY <1>2, <1>3, <2>1
<1>5. <<ms[1], User>> \in Seq(Message) /\ Len(<<ms[1], User>>) = 2
  BY <1>1
<1>6. /\ x \in Seq(Message) /\ Len(x) = 2 + ((M - 1) - pos) /\ x[1] = ms[1] /\ x[2] = User
      /\ \A k \in 3..Len(x) : x[k] = rest[k - 2]
  <2> DEFINE head == <<ms[1], User>>
  <2>1. head[1] = ms[1] /\ head[2] = User
    OBVIOUS
  <2> HIDE DEF head
  <2>2. /\ head \in Seq(Message) /\ Len(head) = 2 /\ rest \in Seq(Message) /\ Len(rest) = (M - 1) - pos
        /\ (M - 1) - pos \in Nat
    BY <1>1, <1>3, <1>5 DEF head
  <2> QED BY ONLY <2>1, <2>2, ConcatProperties, SMTT(30) DEF x, head
<1> HIDE DEF x
<1>7. ASSUME NEW k \in 3..Len(x) PROVE x[k] = ms[k + (pos - 1)]
  <2>1. k - 2 \in 1..((M - 1) - pos) /\ (k - 2) + pos + 1 = k + (pos - 1)
    <3> DEFINE N == Len(x)
    <3>1. N = 2 + ((M - 1) - pos) /\ M \in Nat /\ pos \in 1..(M - 1) /\ k \in 3..N
      BY <1>1, <1>6
    <3> HIDE DEF N
    <3> QED BY ONLY <3>1
  <2> QED BY <1>4, <1>6, <2>1
<1>8. Len(x) = M - (pos - 1)
  BY <1>1, <1>6
<1> QED BY <1>2, <1>6, <1>7, <1>8 DEF x, M, body, rest

(* _fix_tool_pairs drops the results that lost their call, and adds none.   *)
LEMMA FixedIsWhole ==
    ASSUME NEW ms, NEW it, Whole(ms, it), NEW pos \in 1..(Len(ms) - 1),
           NEW x \in Seq(Message), Len(x) = Len(ms) - (pos - 1), x[1] = ms[1], x[2] = User,
           \A k \in 3..Len(x) : x[k] = ms[k + (pos - 1)]
    PROVE  Whole(FixToolPairs(x), it)
<1> DEFINE M == Len(ms)
           L == Len(x)
           d == pos - 1
           p == pos + 2
           I == {i \in DOMAIN x : x[i].role = "tool" => x[i].id \in CalledIn(x)}
           y == Picked(x, I)
<1>1. ms \in Seq(Message) /\ ms[1] = System /\ Distinct(ms) /\ PairedTo(ms, M) /\ M \in Nat /\ M >= 2
  <2>1. ms \in Seq(Message)
    BY DEF Whole, Transcript
  <2> QED BY <2>1 DEF Whole, Transcript
<1>2. /\ p \in 1..(M + 1) /\ p = d + 3 /\ d \in Nat /\ L = M - d /\ L \in Nat /\ DOMAIN x = 1..L /\ DOMAIN ms = 1..M
      /\ L >= 2
  BY <1>1
<1> HIDE DEF d, p, M, L
<1>20. M \in Nat /\ M >= 2 /\ p \in 1..(M + 1) /\ p = d + 3 /\ d \in Nat /\ L = M - d /\ L \in Nat /\ L >= 2
  BY <1>1, <1>2, Zenon
<1>3. ASSUME NEW k \in 3..L PROVE k + d \in p..M /\ x[k] = ms[k + d]
  <2>1. k + d \in p..M
    BY ONLY <1>20, k \in 3..L
  <2> QED BY <2>1 DEF L, d
<1>4. PICK e \in (p - 1)..M : Cuts(ms, p, e)
  BY <1>1, <1>2, CutExists DEF M
<1>5. e \in 2..M /\ p - 1 <= e /\ 2 <= e - d /\ e - d <= L /\ e - d \in Nat
  BY ONLY <1>20, e \in (p - 1)..M
<1>21. M \in Nat /\ d \in Nat /\ L = M - d /\ L \in Nat /\ L >= 2 /\ p = d + 3 /\ e \in (p - 1)..M
  BY <1>20, Zenon
<1>6. /\ x[1] = System /\ x[2] = User
      /\ \A k \in {1, 2} : x[k].role # "tool" /\ IdsOf(x[k]) = {}
  <2>1. x[1] = System /\ x[2] = User
    BY <1>1
  <2>2. \A k \in {1, 2} : x[k] \in Message /\ x[k].role \notin {"tool", "assistant"}
    BY <2>1, Kinds4
  <2> QED BY <2>1, <2>2, MessageFacts
<1>7. ASSUME NEW i \in 1..L PROVE i \in I <=> i <= 2 \/ e - d < i
  <2>1. CASE i \in {1, 2}
    BY <1>2, <1>6, <2>1, SMTT(30)
  <2>2. CASE i \in 3..(e - d)
    <3>1. i + d \in p..e /\ x[i] = ms[i + d]
      BY <1>2, <1>3, <1>5, <2>2
    <3>2. x[i].role = "tool"
      BY <3>1, <1>4 DEF Cuts
    <3>3. PICK o \in 1..(p - 1) : x[i].id \in IdsOf(ms[o])
      BY <3>1, <1>4 DEF Cuts
    <3>4. ASSUME x[i].id \in CalledIn(x) PROVE FALSE
      <4>1. PICK k \in 1..L : x[i].id \in IdsOf(x[k])
        BY <3>4, <1>2 DEF CalledIn
      <4>2. k \in 3..L
        <5>1. k \notin {1, 2}
          BY <4>1, <1>6, Zenon
        <5> QED BY ONLY <1>21, <5>1, k \in 1..L
      <4>3. k + d \in p..M /\ x[k] = ms[k + d]
        BY <4>2, <1>3
      <4>4. o \in 1..M /\ k + d \in 1..M /\ o # k + d
        BY ONLY <1>21, <4>2, <4>3, o \in 1..(p - 1)
      <4>5. IdsOf(ms[o]) \cap IdsOf(ms[k + d]) = {}
        BY <1>1, <1>2, <4>4, Zenon DEF Distinct
      <4> QED BY <3>3, <4>1, <4>3, <4>5
    <3>5. ~ (i <= 2 \/ e - d < i)
      BY <2>2, <1>5
    <3> QED BY <3>2, <3>4, <3>5
  <2>3. CASE i \in (e - d + 1)..L
    <3>1. i \in 3..L /\ i + d \in (e + 1)..M
      BY ONLY <1>21, <2>3
    <3>2. x[i] = ms[i + d]
      BY <1>3, <3>1
    <3>3. ASSUME x[i].role = "tool" PROVE x[i].id \in CalledIn(x)
      <4>1. PICK o \in (e + 1)..((i + d) - 1) : i + d <= o + Due(ms[o])
        BY <3>1, <3>2, <3>3, <1>4, Zenon DEF Cuts, M
      <4>2. o \in 1..M /\ o - d \in 3..L /\ (o - d) + d = o /\ i + d \in (o + 1)..(o + Due(ms[o]))
        <5> DEFINE q == Due(ms[o])
        <5>1. o \in 1..M /\ o - d \in 3..L /\ (o - d) + d = o
          BY ONLY <1>21, <3>1, o \in (e + 1)..((i + d) - 1)
        <5>2. q \in Nat
          <6>1. ms[o] \in Message
            BY <5>1, <1>1 DEF M
          <6> QED BY <6>1, MessageFacts
        <5>3. i + d <= o + q
          BY <4>1
        <5> HIDE DEF q
        <5>4. i + d \in (o + 1)..(o + q)
          BY <4>1, <3>1, <5>1, <5>2, <5>3, <1>2
        <5> QED BY <5>1, <5>4 DEF q
      <4>3. ms[i + d].id \in IdsOf(ms[o])
        BY <1>1, <4>2, OwnedIsAnswer DEF M
      <4>4. x[o - d] = ms[o] /\ o - d \in DOMAIN x
        BY <1>2, <1>3, <4>2, SMTT(30)
      <4> QED BY <3>2, <4>3, <4>4 DEF CalledIn
    <3>4. e - d < i /\ i \in DOMAIN x
      BY <2>3, <1>5, <1>2
    <3> QED BY <3>3, <3>4
  <2> QED BY <2>1, <2>2, <2>3, <1>5, <1>2
<1> HIDE DEF I
<1>8. y \in Seq(Message) /\ Gapped(y, x, 2, e - d, L)
  <2> DEFINE b == e - d
  <2>1. 2 \in Nat /\ b \in Nat /\ 2 <= b /\ b <= L
    BY <1>5
  <2>2. \A i \in 1..L : i \in I <=> i <= 2 \/ b < i
    BY <1>7
  <2> HIDE DEF b
  <2>3. Picked(x, I) \in Seq(Message) /\ Gapped(Picked(x, I), x, 2, b, L)
    BY <2>1, <2>2, PickedGap, Zenon DEF L
  <2> QED BY <2>3 DEF b
<1> HIDE DEF y
<1>9. Summary(ms, e, y)
  <2>1. Len(y) = L - ((e - d) - 2)
    <3>1. Len(y) = IF L <= 2 THEN L ELSE IF L <= e - d THEN 2 ELSE L - ((e - d) - 2)
      BY <1>8, Zenon DEF Gapped
    <3> QED BY <3>1, <1>21, SMTT(30)
  <2> DEFINE N == Len(y)
  <2>6. N = L - ((e - d) - 2)
    BY <2>1
  <2> HIDE DEF N
  <2>7. N = M - (e - 2) /\ N \in Nat /\ N >= 2
    BY ONLY <2>6, <1>21
  <2>2. Len(y) = M - (e - 2) /\ Len(y) \in Nat /\ Len(y) >= 2
    BY <2>7 DEF N
  <2>3. \A k \in 1..Len(y) : y[k] = IF k <= 2 THEN x[k] ELSE x[k + ((e - d) - 2)]
    BY <1>8 DEF Gapped
  <2>4. y[1] = System /\ y[2] = User
    BY <2>2, <2>3, <1>6
  <2>5. ASSUME NEW k \in 3..Len(y) PROVE y[k] = ms[k + (e - 2)]
    <3>1. k + ((e - d) - 2) \in 3..L /\ (k + ((e - d) - 2)) + d = k + (e - 2) /\ k \in 1..Len(y) /\ ~ k <= 2
      <4>1. k \in 3..N
        BY DEF N
      <4>2. k + ((e - d) - 2) \in 3..L /\ (k + ((e - d) - 2)) + d = k + (e - 2) /\ k \in 1..N /\ ~ k <= 2
        BY ONLY <4>1, <2>6, <2>7, <1>21
      <4> QED BY <4>2 DEF N
    <3> QED BY <2>3, <3>1, <1>3
  <2> QED BY <1>8, <2>2, <2>4, <2>5 DEF Summary, M
<1>10. Whole(y, it)
  BY <1>2, <1>4, <1>5, <1>9, SummaryIsWhole DEF M
<1>11. \A i \in 1..Len(y) : IdsOf(y[i]) \subseteq AnsweredIn(y)
  <2> SUFFICES ASSUME NEW i \in 1..Len(y), NEW id \in IdsOf(y[i]) PROVE id \in AnsweredIn(y)
    OBVIOUS
  <2>4. y[i] \in Message /\ Len(y) \in Nat
    BY <1>8
  <2>1. Block(y, i, Len(y)) /\ Due(y[i]) \in Nat /\ Len(y) \in Nat
    BY <1>10, <2>4, MessageFacts, Zenon DEF Whole, PairedTo
  <2>2. PICK j \in 1..Due(y[i]) : y[i + j].id = id /\ y[i + j].role = "tool"
    BY <2>1 DEF Block
  <2>3. i + j \in DOMAIN y
    BY <2>1, <1>8, SMTT(30) DEF Block
  <2> QED BY <2>2, <2>3 DEF AnsweredIn
<1>12. WithStubs(y) = y
  BY <1>8, <1>11, NothingAdded
<1>13. FixToolPairs(x) = WithStubs(y)
  BY DEF FixToolPairs, WithoutOrphans, y, I
<1> QED BY <1>10, <1>12, <1>13

(* The cut is in the body. *)
LEMMA CutIsInside ==
    ASSUME NEW body \in Seq(Message), NEW cut \in 0..Len(body)
    PROVE  CutPoint(body, cut) \in 0..Len(body)
<1> DEFINE N == Len(body)
           S == {k \in cut..N : k = N \/ body[k + 1].role # "tool"}
<1>1. N \in Nat /\ cut \in Nat
  OBVIOUS
<1>2. CASE 0 < cut
  <2>1. S \in SUBSET Nat /\ N \in S
    BY <1>1
  <2>2. PICK m \in S : \A k \in S : m <= k
    BY <2>1, LeastNat
  <2>3. \A j \in cut..(m - 1) : body[j + 1].role = "tool"
    <3> SUFFICES ASSUME NEW j \in cut..(m - 1), body[j + 1].role # "tool" PROVE FALSE
      OBVIOUS
    <3>1. j \in S
      BY <1>1, <2>2
    <3> QED BY <1>1, <2>2, <3>1
  <2>4. \E k \in cut..N : /\ k = N \/ body[k + 1].role # "tool"
                          /\ \A j \in cut..(k - 1) : body[j + 1].role = "tool"
    BY <2>2, <2>3
  <2>5. CutPoint(body, cut) \in cut..N
    BY <1>2, <2>4 DEF CutPoint
  <2> QED BY <1>1, <2>5
<1>3. CASE cut = 0
  BY <1>1, <1>3 DEF CutPoint
<1> QED BY <1>1, <1>2, <1>3

LEMMA CompactedIsWhole ==
    ASSUME NEW ms, NEW it, Whole(ms, it), NEW cut \in 0..(Len(ms) - 1)
    PROVE  Whole(Compacted(ms, cut), it)
<1> DEFINE body == Tail(ms)
           pos == CutPoint(body, cut)
           x == <<ms[1], User>> \o SubSeq(body, pos + 1, Len(body))
<1>1. ms \in Seq(Message) /\ Len(ms) \in Nat /\ Len(ms) >= 2
  <2>1. ms \in Seq(Message)
    BY DEF Whole, Transcript
  <2> QED BY <2>1 DEF Whole, Transcript
<1>2. body \in Seq(Message) /\ Len(body) = Len(ms) - 1
  BY <1>1
<1>3. pos \in 0..(Len(ms) - 1)
  <2> HIDE DEF body
  <2>1. cut \in 0..Len(body)
    BY <1>2
  <2>2. CutPoint(body, cut) \in 0..Len(body)
    BY <1>2, <2>1, CutIsInside, Zenon
  <2> QED BY <1>2, <2>2
<1>4. Compacted(ms, cut) = IF pos = 0 THEN ms ELSE FixToolPairs(x)
  BY DEF Compacted
<1>5. CASE pos # 0
  <2>1. pos \in 1..(Len(ms) - 1)
    BY <1>3, <1>5
  <2> HIDE DEF pos
  <2>2. /\ x \in Seq(Message) /\ Len(x) = Len(ms) - (pos - 1) /\ x[1] = ms[1] /\ x[2] = User
        /\ \A k \in 3..Len(x) : x[k] = ms[k + (pos - 1)]
    BY <1>1, <2>1, TailOf, Zenon
  <2> HIDE DEF x
  <2>3. Whole(FixToolPairs(x), it)
    BY <2>1, <2>2, FixedIsWhole, Zenon
  <2> QED BY <1>4, <1>5, <2>3
<1> QED BY <1>4, <1>5

(* Call i of batch m *)
At(bs, m, i) == m \in DOMAIN bs /\ i \in DOMAIN bs[m]

(* Joined puts a call in one new place. *)
NewAt(J, bs, c, m, i) ==
    /\ ~ At(bs, m, i) /\ At(J, m, i) /\ J[m][i] = c
    /\ \A n, j : At(J, n, j) => At(bs, n, j) \/ (n = m /\ j = i)
    /\ \A n, j : At(bs, n, j) => At(J, n, j) /\ J[n][j] = bs[n][j]

\* A batch of several calls is of readonly tools.
Alone(bs) == \A m \in DOMAIN bs : Len(bs[m]) = 1 \/ \A i \in DOMAIN bs[m] : bs[m][i].tool \in Readonly

LEMMA JoinedAdds ==
    ASSUME NEW C, NEW bs \in Seq(Seq(C) \ {<<>>}), NEW c \in C
    PROVE  /\ \E m, i : NewAt(Joined(bs, c), bs, c, m, i)
           /\ Alone(bs) => Alone(Joined(bs, c))
<1> DEFINE L == Len(bs)
           J == Joined(bs, c)
<1>0. /\ L \in Nat /\ DOMAIN bs = 1..L
      /\ \A m \in 1..L : bs[m] \in Seq(C) /\ Len(bs[m]) \in Nat /\ Len(bs[m]) >= 1 /\ DOMAIN bs[m] = 1..Len(bs[m])
  OBVIOUS
<1>1. CASE c.tool \in Readonly /\ bs # <<>> /\ bs[L][1].tool \in Readonly
  <2> DEFINE b == bs[L]
             K == Len(b)
             B == Append(b, c)
  <2>1. J = [bs EXCEPT ![L] = B]
    BY <1>1 DEF Joined
  <2>2. L \in 1..L
    BY <1>0, <1>1
  <2>3. b \in Seq(C) /\ K \in Nat /\ K >= 1 /\ DOMAIN b = 1..K
    BY <1>0, <2>2
  <2>4. B \in Seq(C) /\ Len(B) = K + 1 /\ DOMAIN B = 1..(K + 1) /\ B[K + 1] = c /\ \A i \in 1..K : B[i] = b[i]
    BY <2>3
  <2>5. DOMAIN J = 1..L /\ J[L] = B /\ \A n \in 1..L : n # L => J[n] = bs[n]
    BY <2>1, <2>2, <1>0
  <2>8. K + 1 \notin 1..K /\ 1..K \subseteq 1..(K + 1) /\ \A i \in 1..(K + 1) : i \in 1..K \/ i = K + 1
    BY <2>3
  <2>9. b = bs[L] /\ DOMAIN bs = 1..L /\ K + 1 \in 1..(K + 1)
    BY <1>0, <2>3
  <2> HIDE DEF b, B, K, L, J
  <2>6. NewAt(J, bs, c, L, K + 1)
    <3>1. ~ At(bs, L, K + 1) /\ At(J, L, K + 1) /\ J[L][K + 1] = c
      BY <2>2, <2>3, <2>4, <2>5, <2>8, <2>9, Zenon DEF At
    <3>2. ASSUME NEW n, NEW j, At(J, n, j) PROVE At(bs, n, j) \/ (n = L /\ j = K + 1)
      BY <3>2, <2>3, <2>4, <2>5, <2>8, <2>9, Zenon DEF At
    <3>3. ASSUME NEW n, NEW j, At(bs, n, j) PROVE At(J, n, j) /\ J[n][j] = bs[n][j]
      <4>1. CASE n = L
        <5>1. j \in 1..K /\ J[n] = B /\ bs[n] = b
          BY <3>3, <4>1, <2>3, <2>5, <2>9, Zenon DEF At
        <5> QED BY <5>1, <4>1, <2>2, <2>4, <2>5, <2>8 DEF At
      <4>2. CASE n # L
        BY <3>3, <4>2, <2>5, <2>9, Zenon DEF At
      <4> QED BY <4>1, <4>2
    <3> QED BY <3>1, <3>2, <3>3, Zenon DEF NewAt
  <2>7. ASSUME Alone(bs) PROVE Alone(J)
    <3>1. \A i \in 1..K : b[i].tool \in Readonly
      <4>1. CASE K = 1
        <5>1. \A i \in 1..K : i = 1
          BY <4>1
        <5>2. b[1].tool \in Readonly
          BY <1>1, <2>9
        <5> QED BY <5>1, <5>2, Zenon
      <4>2. CASE K # 1
        BY <2>2, <2>3, <2>7, <2>9, <4>2, Zenon DEF Alone, K
      <4> QED BY <4>1, <4>2
    <3>2. \A i \in DOMAIN B : B[i].tool \in Readonly
      BY <1>1, <2>4, <2>8, <3>1, Zenon
    <3> QED BY <2>5, <2>7, <2>9, <3>2, Zenon DEF Alone
  <2> QED BY <2>6, <2>7 DEF J
<1>2. CASE ~ (c.tool \in Readonly /\ bs # <<>> /\ bs[L][1].tool \in Readonly)
  <2>1. J = Append(bs, <<c>>)
    BY <1>2 DEF Joined
  <2>2. /\ DOMAIN J = 1..(L + 1) /\ J[L + 1] = <<c>>
        /\ \A n \in 1..L : J[n] = bs[n]
    BY <2>1, <1>0
  <2>3. L + 1 \notin 1..L /\ L + 1 \in 1..(L + 1) /\ 1..L \subseteq 1..(L + 1)
        /\ \A n \in 1..(L + 1) : n \in 1..L \/ n = L + 1
    BY <1>0
  <2>4. DOMAIN <<c>> = {1} /\ <<c>>[1] = c /\ Len(<<c>>) = 1
    OBVIOUS
  <2>5. DOMAIN bs = 1..L
    BY <1>0
  <2> HIDE DEF J, L
  <2>6. NewAt(J, bs, c, L + 1, 1)
    <3>1. ~ At(bs, L + 1, 1) /\ At(J, L + 1, 1) /\ J[L + 1][1] = c
      BY <2>2, <2>3, <2>4, <2>5 DEF At
    <3>2. ASSUME NEW n, NEW j, At(J, n, j) PROVE At(bs, n, j) \/ (n = L + 1 /\ j = 1)
      <4>1. CASE n = L + 1
        BY <3>2, <4>1, <2>2, <2>4 DEF At
      <4>2. CASE n # L + 1
        BY <3>2, <4>2, <2>2, <2>3, <2>5, Zenon DEF At
      <4> QED BY <4>1, <4>2
    <3>3. \A n, j : At(bs, n, j) => At(J, n, j) /\ J[n][j] = bs[n][j]
      BY <2>2, <2>3, <2>5, Zenon DEF At
    <3> QED BY <3>1, <3>2, <3>3, Zenon DEF NewAt
  <2>7. ASSUME Alone(bs) PROVE Alone(J)
    <3>1. ASSUME NEW n \in 1..L PROVE Len(J[n]) = 1 \/ \A i \in DOMAIN J[n] : J[n][i].tool \in Readonly
      BY <2>2, <2>5, <2>7, Zenon DEF Alone
    <3>2. Len(J[L + 1]) = 1
      BY <2>2, <2>4
    <3> QED BY <2>2, <2>3, <3>1, <3>2, Zenon DEF Alone
  <2> QED BY <2>6, <2>7 DEF J
<1> QED BY <1>1, <1>2

\* The batches hold the first n elements of s, each once.
Covers(bs, s, n) ==
    /\ \A m, i : At(bs, m, i) => \E j \in 1..n : bs[m][i] = s[j]
    /\ \A j \in 1..n : \E m, i : At(bs, m, i) /\ bs[m][i] = s[j]

\* No id is called for twice.
EachOnce(bs) ==
    \A m, i, n, j : At(bs, m, i) /\ At(bs, n, j) /\ bs[m][i].id = bs[n][j].id => m = n /\ i = j

LEMMA CoversGrow ==
    ASSUME NEW bs, NEW J, NEW s, NEW n \in Nat, NEW m, NEW i, NewAt(J, bs, s[n + 1], m, i),
           Covers(bs, s, n), EachOnce(bs), \A j \in 1..n : s[j].id # s[n + 1].id
    PROVE  Covers(J, s, n + 1) /\ EachOnce(J)
<1>0. n + 1 \in 1..(n + 1) /\ 1..n \subseteq 1..(n + 1) /\ \A j \in 1..(n + 1) : j \in 1..n \/ j = n + 1
  OBVIOUS
<1>1. /\ ~ At(bs, m, i) /\ At(J, m, i) /\ J[m][i] = s[n + 1]
      /\ \A a, b : At(J, a, b) => At(bs, a, b) \/ (a = m /\ b = i)
      /\ \A a, b : At(bs, a, b) => At(J, a, b) /\ J[a][b] = bs[a][b]
  BY Zenon DEF NewAt
<1>6. /\ \A a, b : At(bs, a, b) => \E j \in 1..n : bs[a][b] = s[j]
      /\ \A j \in 1..n : \E a, b : At(bs, a, b) /\ bs[a][b] = s[j]
  BY DEF Covers
<1>2. ASSUME NEW a, NEW b, At(J, a, b) PROVE \E j \in 1..(n + 1) : J[a][b] = s[j]
  <2>1. CASE At(bs, a, b)
    <3>1. PICK j \in 1..n : bs[a][b] = s[j]
      BY <1>6, <2>1
    <3> QED BY <1>0, <1>1, <2>1, <3>1
  <2>2. CASE ~ At(bs, a, b)
    BY <1>0, <1>1, <1>2, <2>2
  <2> QED BY <2>1, <2>2
<1>3. ASSUME NEW j \in 1..(n + 1) PROVE \E a, b : At(J, a, b) /\ J[a][b] = s[j]
  <2>1. CASE j = n + 1
    BY <1>1, <2>1, Zenon
  <2>2. CASE j \in 1..n
    <3>1. PICK a, b : At(bs, a, b) /\ bs[a][b] = s[j]
      BY <1>6, <2>2
    <3> QED BY <1>1, <3>1
  <2> QED BY <1>0, <2>1, <2>2
<1>4. ASSUME NEW a, NEW b, At(bs, a, b) PROVE J[a][b].id # s[n + 1].id
  <2>1. PICK j \in 1..n : bs[a][b] = s[j]
    BY <1>4, <1>6
  <2> QED BY <1>1, <1>4, <2>1
<1>5. ASSUME NEW a, NEW b, NEW e, NEW f, At(J, a, b), At(J, e, f), J[a][b].id = J[e][f].id
      PROVE  a = e /\ b = f
  <2>1. CASE At(bs, a, b) /\ At(bs, e, f)
    BY <1>1, <1>5, <2>1, Zenon DEF EachOnce
  <2>2. CASE At(bs, a, b) /\ ~ At(bs, e, f)
    <3>1. e = m /\ f = i
      BY <1>1, <1>5, <2>2
    <3> QED BY <1>1, <1>4, <1>5, <2>2, <3>1
  <2>3. CASE ~ At(bs, a, b) /\ At(bs, e, f)
    <3>1. a = m /\ b = i
      BY <1>1, <1>5, <2>3
    <3> QED BY <1>1, <1>4, <1>5, <2>3, <3>1
  <2>4. CASE ~ At(bs, a, b) /\ ~ At(bs, e, f)
    BY <1>1, <1>5, <2>4
  <2> QED BY <2>1, <2>2, <2>3, <2>4
<1> QED BY <1>2, <1>3, <1>5, Zenon DEF Covers, EachOnce

\* The calls of s have different ids.
OnceEach(s) == \A i, j \in DOMAIN s : s[i].id = s[j].id => i = j

LEMMA BatchedCovers ==
    ASSUME NEW C, NEW s \in Seq(C), OnceEach(s)
    PROVE  Covers(Batched(s), s, Len(s)) /\ EachOnce(Batched(s)) /\ Alone(Batched(s))
<1> DEFINE N == Len(s)
<1>1. N \in Nat /\ DOMAIN s = 1..N /\ \A i \in 1..N : s[i] \in C
  OBVIOUS
<1>2. PICK g : BatchLoop(g, s, C) /\ g[N] = Batched(s)
  BY BatchedLoop, Zenon
<1>3. /\ g[0] = <<>> /\ \A n \in 1..N : g[n] = Joined(g[n-1], s[n])
      /\ \A n \in 0..N : g[n] \in Seq(Seq(C) \ {<<>>})
  BY <1>2, Zenon DEF BatchLoop
<1> DEFINE Done(n) == Covers(g[n], s, n) /\ EachOnce(g[n]) /\ Alone(g[n])
           Good == {n \in 0..N : Done(n)}
<1> HIDE DEF N
<1>4. 0 \in Good
  <2>1. 0 \in 0..N /\ 1..0 = {} /\ DOMAIN << >> = {}
    BY <1>1
  <2>2. Covers(<<>>, s, 0) /\ EachOnce(<<>>) /\ Alone(<<>>)
    BY <2>1, Zenon DEF Covers, EachOnce, Alone, At
  <2> QED BY <1>3, <2>1, <2>2, Zenon
<1>5. ASSUME NEW n \in 1..N, n - 1 \in Good PROVE n \in Good
  <2> DEFINE k == n - 1
             bs == g[k]
             J == g[n]
  <2>1. k \in Nat /\ k + 1 = n /\ k \in 0..N /\ n \in 0..N
    BY <1>1
  <2>2. bs \in Seq(Seq(C) \ {<<>>}) /\ s[n] \in C /\ J = Joined(bs, s[n])
    BY <1>1, <1>3, <2>1, Zenon
  <2>3. Covers(bs, s, k) /\ EachOnce(bs) /\ Alone(bs)
    BY <1>5
  <2>4. \A j \in 1..k : s[j].id # s[n].id
    <3> SUFFICES ASSUME NEW j \in 1..k, s[j].id = s[n].id PROVE FALSE
      OBVIOUS
    <3>1. j \in 1..N /\ j # n
      BY <1>1, <2>1
    <3> QED BY <1>1, <3>1, Zenon DEF OnceEach
  <2> HIDE DEF k, bs, J
  <2>5. Alone(J) /\ \E m, i : NewAt(J, bs, s[n], m, i)
    BY <2>2, <2>3, JoinedAdds, Zenon
  <2>6. PICK m, i : NewAt(J, bs, s[k + 1], m, i)
    BY <2>1, <2>5
  <2>7. Covers(J, s, k + 1) /\ EachOnce(J)
    <3>1. \A j \in 1..k : s[j].id # s[k + 1].id
      BY <2>1, <2>4
    <3> QED BY <2>1, <2>3, <2>6, <3>1, CoversGrow, Zenon
  <2> QED BY <2>1, <2>5, <2>7 DEF J
<1> HIDE DEF Good
<1>6. \A n \in 0..N : n \in Good
  BY <1>1, <1>4, <1>5, CountUp, Zenon
<1>7. N \in 0..N
  BY <1>1
<1>8. Done(N)
  BY <1>6, <1>7 DEF Good
<1> QED BY <1>2, <1>8 DEF N

\* A result for id follows message a; a call with id waits in a batch.
Got(ms, a, id) == \E j \in (a + 1)..Len(ms) : ms[j].id = id
Open(bs, id) == \E m, i : At(bs, m, i) /\ bs[m][i].id = id
Named(s, id) == \E i \in DOMAIN s : s[i].id = id

\* Message a waits for the results of the calls in bs.
Waiting(ms, bs, it, a) ==
  /\ Transcript(ms, it)
  /\ a \in 1..Len(ms) /\ ms[a].role = "assistant" /\ PairedTo(ms, a - 1)
  /\ \A j \in (a + 1)..Len(ms) : ms[j].role = "tool"
  /\ \A i, j \in (a + 1)..Len(ms) : ms[i].id = ms[j].id => i = j
  /\ \A id : id \in IdsOf(ms[a]) <=> Open(bs, id) \/ Got(ms, a, id)
  /\ \A id : ~ (Open(bs, id) /\ Got(ms, a, id))
  /\ EachOnce(bs)

LEMMA NothingWaits ==
    ASSUME NEW ms, NEW it, NEW a, Waiting(ms, <<>>, it, a)
    PROVE  Whole(ms, it)
<1>1. ms \in Seq(Message) /\ Distinct(ms)
  BY DEF Waiting, Transcript
<1>2. \A id : ~ Open(<<>>, id)
  <2>1. DOMAIN << >> = {}
    OBVIOUS
  <2> QED BY <2>1, Zenon DEF Open, At
<1>3. \A id : id \in IdsOf(ms[a]) <=> Got(ms, a, id)
  BY <1>2, Zenon DEF Waiting
<1>4. \A j \in (a + 1)..Len(ms) : ms[j].role = "tool" /\ ms[j].id \in IdsOf(ms[a])
  BY <1>3, Zenon DEF Got, Waiting
<1>5. \A id \in IdsOf(ms[a]) : \E j \in (a + 1)..Len(ms) : ms[j].id = id
  BY <1>3, Zenon DEF Got
<1>6. /\ a \in 1..Len(ms) /\ ms[a].role = "assistant" /\ PairedTo(ms, a - 1)
      /\ \A i, j \in (a + 1)..Len(ms) : ms[i].id = ms[j].id => i = j
  BY Zenon DEF Waiting
<1>7. PairedTo(ms, Len(ms))
  BY <1>1, <1>4, <1>5, <1>6, PairsClose, Zenon
<1> QED BY <1>7 DEF Whole, Waiting

(* The results of the calls in s arrive; those in cs still wait. *)
LEMMA ResultsArrive ==
    ASSUME NEW ms, NEW bs, NEW it, NEW a, Waiting(ms, bs, it, a),
           NEW s \in Seq(ToolCall), OnceEach(s), NEW cs, EachOnce(cs),
           \A id : Open(bs, id) <=> Open(cs, id) \/ Named(s, id),
           \A id : ~ (Open(cs, id) /\ Named(s, id)),
           NEW ns, ns = ms \o [i \in DOMAIN s |-> Result(s[i].id)]
    PROVE  Waiting(ns, cs, it, a)
<1> DEFINE M == Len(ms)
           K == Len(s)
           r == [i \in DOMAIN s |-> Result(s[i].id)]
<1>1. /\ ms \in Seq(Message) /\ M \in Nat /\ M >= 2 /\ ms[1] = System /\ Distinct(ms) /\ Before(ms, it)
      /\ a \in 1..M /\ DOMAIN ms = 1..M
  <2>1. ms \in Seq(Message)
    BY DEF Waiting, Transcript
  <2> QED BY <2>1 DEF Waiting, Transcript
<1>2. DOMAIN s = 1..K /\ K \in Nat /\ \A i \in 1..K : s[i].id \in Nat \X Nat
  <2>1. DOMAIN s = 1..K /\ K \in Nat /\ \A i \in 1..K : s[i] \in ToolCall
    OBVIOUS
  <2> QED BY <2>1 DEF ToolCall
<1>3. \A i \in 1..K : Result(s[i].id) \in Message /\ Result(s[i].id).role = "tool" /\ Result(s[i].id).id = s[i].id
  BY <1>2, Kinds4
<1>4. r \in Seq(Message) /\ Len(r) = K /\ \A i \in 1..K : r[i] = Result(s[i].id)
  BY <1>2, <1>3
<1> HIDE DEF r
<1>5. /\ ns \in Seq(Message) /\ Len(ns) = M + K /\ DOMAIN ns = 1..(M + K)
      /\ \A i \in 1..M : ns[i] = ms[i]
      /\ \A i \in 1..K : ns[M + i] = r[i]
  <2>1. ns = ms \o r
    BY DEF r
  <2>2. ms \in Seq(Message) /\ r \in Seq(Message) /\ Len(r) = K /\ K \in Nat
    BY <1>1, <1>2, <1>4
  <2>3. ns \in Seq(Message) /\ Len(ns) = Len(ms) + Len(r)
    BY <2>1, <2>2, ConcatProperties, Zenon
  <2>4. \A i \in 1..Len(ms) : ns[i] = ms[i]
    <3>1. Len(ms) \in Nat /\ Len(r) \in Nat
      BY <1>1, <2>2, Zenon
    <3>2. \A i \in 1..Len(ms) : i \in 1..(Len(ms) + Len(r)) /\ i <= Len(ms)
      BY ONLY <3>1
    <3>3. \A i \in 1..(Len(ms) + Len(r)) : ns[i] = IF i <= Len(ms) THEN ms[i] ELSE r[i - Len(ms)]
      <4>1. \A i \in 1..(Len(ms) + Len(r)) : (ms \o r)[i] = IF i <= Len(ms) THEN ms[i] ELSE r[i - Len(ms)]
        BY ONLY <2>2, ConcatProperties
      <4> QED BY <2>1, <4>1, Zenon
    <3> QED BY <3>2, <3>3, Zenon
  <2>5. \A i \in 1..Len(r) : ns[Len(ms) + i] = r[i]
    BY <2>1, <2>2
  <2>6. DOMAIN ns = 1..Len(ns)
    BY <2>3
  <2> QED BY <2>2, <2>3, <2>4, <2>5, <2>6, Zenon
<1> HIDE DEF M, K
<1>6. ASSUME NEW j \in (M + 1)..(M + K)
      PROVE  j - M \in 1..K /\ ns[j] \in Message /\ ns[j].role = "tool" /\ ns[j].id = s[j - M].id
  <2>1. j - M \in 1..K /\ M + (j - M) = j
    BY <1>1, <1>2
  <2> QED BY <1>3, <1>4, <1>5, <2>1
<1>7. \A j \in (M + 1)..(M + K) : IdsOf(ns[j]) = {} /\ ToolCalls(ns[j]) = <<>>
  BY <1>6, MessageFacts
<1>8. /\ \A j \in 1..(M + K) : j \in 1..M \/ j \in (M + 1)..(M + K)
      /\ a \in 1..(M + K) /\ 1 \in 1..M
      /\ \A j \in (a + 1)..(M + K) : j \in (a + 1)..M \/ j \in (M + 1)..(M + K)
      /\ (a + 1)..M \subseteq 1..M /\ (a + 1)..M \subseteq (a + 1)..(M + K)
      /\ (M + 1)..(M + K) \subseteq (a + 1)..(M + K)
  <2>1. M \in Nat /\ K \in Nat /\ a \in 1..M
    BY <1>1, <1>2
  <2> QED BY ONLY <2>1
<1>9. Transcript(ns, it)
  <2>1. Distinct(ns)
    <3>1. \A i, j \in 1..(M + K) : i # j => IdsOf(ns[i]) \cap IdsOf(ns[j]) = {}
      <4>1. \A i, j \in 1..M : i # j => IdsOf(ns[i]) \cap IdsOf(ns[j]) = {}
        BY <1>1, <1>5, Zenon DEF Distinct
      <4> SUFFICES ASSUME NEW i \in 1..(M + K), NEW j \in 1..(M + K), i # j
                   PROVE  IdsOf(ns[i]) \cap IdsOf(ns[j]) = {}
        OBVIOUS
      <4>2. CASE i \in 1..M /\ j \in 1..M
        BY <4>1, <4>2
      <4>3. CASE i \notin 1..M \/ j \notin 1..M
        <5>1. IdsOf(ns[i]) = {} \/ IdsOf(ns[j]) = {}
          BY <4>3, <1>7, <1>8, Zenon
        <5> QED BY <5>1
      <4> QED BY <4>2, <4>3
    <3>2. ASSUME NEW i \in 1..(M + K), NEW p \in DOMAIN ToolCalls(ns[i]), NEW q \in DOMAIN ToolCalls(ns[i]),
                 ToolCalls(ns[i])[p].id = ToolCalls(ns[i])[q].id
          PROVE  p = q
      <4>1. CASE i \in 1..M
        BY <1>1, <1>5, <3>2, <4>1, Zenon DEF Distinct
      <4>2. CASE i \in (M + 1)..(M + K)
        <5>1. DOMAIN ToolCalls(ns[i]) = {}
          <6>1. ToolCalls(ns[i]) = <<>>
            BY <1>7, <4>2, Zenon
          <6>2. DOMAIN << >> = {}
            OBVIOUS
          <6> QED BY <6>1, <6>2, Zenon
        <5> QED BY <5>1
      <4> QED BY <1>8, <4>1, <4>2
    <3> QED BY <1>5, <3>1, <3>2, Zenon DEF Distinct
  <2>2. Before(ns, it)
    <3>1. ASSUME NEW i \in 1..(M + K), NEW id \in IdsOf(ns[i]) PROVE id[1] < it
      <4>1. i \in 1..M
        BY <1>7, <1>8, <3>1
      <4> QED BY <1>1, <1>5, <3>1, <4>1, Zenon DEF Before
    <3> QED BY <1>5, <3>1, Zenon DEF Before
  <2>3. Len(ns) >= 2 /\ ns[1] = System
    BY <1>1, <1>2, <1>5, <1>8
  <2> QED BY <1>5, <2>1, <2>2, <2>3 DEF Transcript
<1>10. ns[a].role = "assistant" /\ ns[a] = ms[a] /\ PairedTo(ns, a - 1)
  <2>1. ns[a] = ms[a]
    BY <1>1, <1>5
  <2>2. a - 1 \in 0..Len(ms) /\ \A i \in 1..(a - 1) : ns[i] = ms[i]
    BY <1>1, <1>5 DEF M
  <2>3. PairedTo(ms, a - 1) /\ ms[a].role = "assistant"
    BY Zenon DEF Waiting
  <2> QED BY <1>1, <2>1, <2>2, <2>3, PairsAgree
<1>11. \A id : Got(ns, a, id) <=> Got(ms, a, id) \/ Named(s, id)
  <2>1. ASSUME NEW id, Got(ns, a, id) PROVE Got(ms, a, id) \/ Named(s, id)
    <3>1. PICK j \in (a + 1)..(M + K) : ns[j].id = id
      BY <1>5, <2>1 DEF Got
    <3>2. CASE j \in (a + 1)..M
      BY <1>5, <1>8, <3>1, <3>2 DEF Got, M
    <3>3. CASE j \in (M + 1)..(M + K)
      BY <1>2, <1>6, <3>1, <3>3 DEF Named
    <3> QED BY <1>8, <3>2, <3>3
  <2>2. ASSUME NEW id, Got(ms, a, id) PROVE Got(ns, a, id)
    <3>1. PICK j \in (a + 1)..M : ms[j].id = id
      BY <2>2 DEF Got, M
    <3> QED BY <1>5, <1>8, <3>1 DEF Got
  <2>3. ASSUME NEW id, Named(s, id) PROVE Got(ns, a, id)
    <3>1. PICK i \in 1..K : s[i].id = id
      BY <1>2, <2>3 DEF Named
    <3>2. M + i \in (M + 1)..(M + K)
      BY <1>1, <1>2
    <3>3. ns[M + i].id = id
      BY <1>3, <1>4, <1>5, <3>1
    <3> QED BY <1>5, <1>8, <3>2, <3>3 DEF Got
  <2> QED BY <2>1, <2>2, <2>3
<1>12. \A id : id \in IdsOf(ns[a]) <=> Open(cs, id) \/ Got(ns, a, id)
  <2>1. \A id : id \in IdsOf(ms[a]) <=> Open(bs, id) \/ Got(ms, a, id)
    BY Zenon DEF Waiting
  <2> QED BY <1>10, <1>11, <2>1, Zenon
<1>13. \A id : ~ (Open(cs, id) /\ Got(ns, a, id))
  <2>1. \A id : ~ (Open(bs, id) /\ Got(ms, a, id))
    BY Zenon DEF Waiting
  <2> QED BY <1>11, <2>1, Zenon
<1>14. \A j \in (a + 1)..(M + K) : ns[j].role = "tool"
  <2>1. \A j \in (a + 1)..M : ms[j].role = "tool"
    BY Zenon DEF Waiting, M
  <2> QED BY <1>5, <1>6, <1>8, <2>1, Zenon
<1>15. ASSUME NEW i \in (a + 1)..(M + K), NEW j \in (a + 1)..(M + K), ns[i].id = ns[j].id
       PROVE  i = j
  <2>1. ASSUME NEW p \in (a + 1)..M, NEW q \in (M + 1)..(M + K) PROVE ns[p].id # ns[q].id
    <3>1. Got(ms, a, ns[p].id)
      BY <1>5, <1>8 DEF Got, M
    <3>2. Named(s, ns[q].id)
      BY <1>2, <1>6 DEF Named
    <3>3. \A id : ~ (Open(bs, id) /\ Got(ms, a, id))
      BY Zenon DEF Waiting
    <3>4. \A id : Named(s, id) => ~ Got(ms, a, id)
      BY <3>3, Zenon
    <3> QED BY <3>1, <3>2, <3>4
  <2>2. CASE i \in (a + 1)..M /\ j \in (a + 1)..M
    <3>1. \A p, q \in (a + 1)..M : ms[p].id = ms[q].id => p = q
      BY Zenon DEF Waiting, M
    <3>2. ns[i] = ms[i] /\ ns[j] = ms[j]
      BY <1>5, <1>8, <2>2
    <3> QED BY <1>15, <2>2, <3>1, <3>2
  <2>3. CASE i \in (M + 1)..(M + K) /\ j \in (M + 1)..(M + K)
    <3>1. i - M \in DOMAIN s /\ j - M \in DOMAIN s /\ s[i - M].id = s[j - M].id
      BY <1>2, <1>6, <1>15, <2>3
    <3>2. i - M = j - M
      BY <3>1, Zenon DEF OnceEach
    <3> QED BY <1>1, <3>2
  <2> QED BY <1>8, <1>15, <2>1, <2>2, <2>3, Zenon
<1> QED BY <1>5, <1>8, <1>9, <1>10, <1>12, <1>13, <1>14, <1>15, Zenon DEF Waiting

LEMMA WholeFacts ==
    ASSUME NEW ms, NEW it, Whole(ms, it)
    PROVE  /\ ms \in Seq(Message) /\ Len(ms) \in Nat /\ DOMAIN ms = 1..Len(ms) /\ Len(ms) >= 2 /\ ms[1] = System
           /\ Distinct(ms) /\ Before(ms, it) /\ PairedTo(ms, Len(ms))
           /\ \A i \in 1..Len(ms) : ms[i] \in Message
<1>1. ms \in Seq(Message)
  BY DEF Whole, Transcript
<1> QED BY <1>1 DEF Whole, Transcript

LEMMA Appended ==
    ASSUME NEW ms \in Seq(Message), NEW m \in Message, NEW ns, ns = Append(ms, m)
    PROVE  /\ ns \in Seq(Message) /\ Len(ns) = Len(ms) + 1 /\ DOMAIN ns = 1..(Len(ms) + 1)
           /\ ns[Len(ms) + 1] = m /\ \A i \in 1..Len(ms) : ns[i] = ms[i]
OBVIOUS

(* A message is appended whose ids no earlier message has. *)
LEMMA TranscriptGrows ==
    ASSUME NEW ms, NEW it \in Nat, NEW k \in Nat, Transcript(ms, it), it <= k, NEW m \in Message,
           NEW ns, ns = Append(ms, m),
           \A i \in DOMAIN ms : IdsOf(ms[i]) \cap IdsOf(m) = {},
           \A a, b \in DOMAIN ToolCalls(m) : ToolCalls(m)[a].id = ToolCalls(m)[b].id => a = b,
           \A id \in IdsOf(m) : id[1] < k
    PROVE  Transcript(ns, k)
<1> DEFINE L == Len(ms)
<1>1. ms \in Seq(Message) /\ L \in Nat /\ DOMAIN ms = 1..L /\ L >= 2 /\ ms[1] = System
  <2>1. ms \in Seq(Message)
    BY DEF Transcript
  <2> QED BY <2>1 DEF Transcript
<1>2. Distinct(ms) /\ Before(ms, it)
  BY DEF Transcript
<1>3. /\ ns \in Seq(Message) /\ Len(ns) = L + 1 /\ DOMAIN ns = 1..(L + 1)
      /\ ns[L + 1] = m /\ \A i \in 1..L : ns[i] = ms[i]
  BY <1>1, Appended
<1>4. \A i \in 1..(L + 1) : i \in 1..L \/ i = L + 1
  BY <1>1
<1> HIDE DEF L
<1>5. \A i, j \in DOMAIN ns : i # j => IdsOf(ns[i]) \cap IdsOf(ns[j]) = {}
  <2> SUFFICES ASSUME NEW i \in 1..(L + 1), NEW j \in 1..(L + 1), i # j
               PROVE  IdsOf(ns[i]) \cap IdsOf(ns[j]) = {}
    BY <1>3, Zenon
  <2>1. CASE i \in 1..L /\ j \in 1..L
    BY <1>1, <1>2, <1>3, <2>1, Zenon DEF Distinct
  <2>2. CASE i = L + 1 /\ j \in 1..L
    BY <1>1, <1>3, <2>2
  <2>3. CASE i \in 1..L /\ j = L + 1
    BY <1>1, <1>3, <2>3
  <2> QED BY <1>4, <2>1, <2>2, <2>3
<1>6. \A i \in DOMAIN ns : \A a, b \in DOMAIN ToolCalls(ns[i]) :
        ToolCalls(ns[i])[a].id = ToolCalls(ns[i])[b].id => a = b
  <2> SUFFICES ASSUME NEW i \in 1..(L + 1)
               PROVE  \A a, b \in DOMAIN ToolCalls(ns[i]) :
                        ToolCalls(ns[i])[a].id = ToolCalls(ns[i])[b].id => a = b
    BY <1>3, Zenon
  <2>1. CASE i \in 1..L
    <3>1. i \in DOMAIN ms /\ ns[i] = ms[i]
      BY <1>1, <1>3, <2>1
    <3>2. \A a, b \in DOMAIN ToolCalls(ms[i]) : ToolCalls(ms[i])[a].id = ToolCalls(ms[i])[b].id => a = b
      BY <1>2, <3>1, Zenon DEF Distinct
    <3> QED BY <3>1, <3>2
  <2>2. CASE i = L + 1
    <3>1. ns[i] = m
      BY <1>3, <2>2
    <3> QED BY <3>1, Zenon
  <2> QED BY <1>4, <2>1, <2>2
<1>7. Before(ns, k)
  <2> SUFFICES ASSUME NEW i \in 1..(L + 1), NEW id \in IdsOf(ns[i]) PROVE id[1] < k
    BY <1>3, Zenon DEF Before
  <2>1. CASE i \in 1..L
    <3>1. id[1] < it /\ id \in IdsOf(ms[i]) /\ ms[i] \in Message
      BY <1>1, <1>2, <1>3, <2>1 DEF Before, L
    <3>2. PICK c \in 1..Due(ms[i]) : id = ToolCalls(ms[i])[c].id
      BY <3>1, MessageFacts
    <3>3. ToolCalls(ms[i])[c] \in ToolCall
      BY <3>1, MessageFacts DEF Due
    <3>4. id[1] \in Nat
      BY <3>2, <3>3 DEF ToolCall
    <3> QED BY <3>1, <3>4
  <2>2. CASE i = L + 1
    BY <1>3, <2>2
  <2> QED BY <1>4, <2>1, <2>2
<1>8. Len(ns) >= 2 /\ ns[1] = System
  BY <1>1, <1>3
<1> QED BY <1>3, <1>5, <1>6, <1>7, <1>8 DEF Transcript, Distinct

\* A message that neither calls a tool nor answers a call
Plain(m) == m \in Message /\ m.role # "tool" /\ ToolCalls(m) = <<>>

LEMMA PlainMessages == Plain(System) /\ Plain(User) /\ Plain(Assistant(<<>>))
<1>1. << >> \in Seq(ToolCall)
  OBVIOUS
<1>2. Assistant(<<>>) \in Message /\ Assistant(<<>>).role = "assistant" /\ ToolCalls(Assistant(<<>>)) = <<>>
  BY <1>1, Kinds4, Zenon
<1> QED BY <1>2, Kinds4, MessageFacts DEF Plain

LEMMA WholeGrows ==
    ASSUME NEW ms, NEW it \in Nat, Whole(ms, it), NEW m, Plain(m)
    PROVE  Whole(Append(ms, m), it)
<1> DEFINE ns == Append(ms, m)
<1>1. ms \in Seq(Message) /\ Len(ms) \in Nat /\ PairedTo(ms, Len(ms)) /\ Transcript(ms, it)
  BY WholeFacts DEF Whole
<1>2. m \in Message /\ m.role # "tool" /\ ToolCalls(m) = <<>>
  BY DEF Plain
<1>3. Due(m) = 0 /\ IdsOf(m) = {} /\ DOMAIN ToolCalls(m) = {}
  <2>1. Due(m) = 0 /\ DOMAIN ToolCalls(m) = {}
    BY <1>2 DEF Due
  <2> QED BY <2>1, Zenon DEF IdsOf
<1>4. /\ ns \in Seq(Message) /\ Len(ns) = Len(ms) + 1
      /\ ns[Len(ms) + 1] = m /\ \A i \in 1..Len(ms) : ns[i] = ms[i]
  BY <1>1, <1>2, Appended
<1>5. Transcript(ns, it)
  <2>1. it <= it /\ ns = Append(ms, m)
    OBVIOUS
  <2>2. /\ \A i \in DOMAIN ms : IdsOf(ms[i]) \cap IdsOf(m) = {}
        /\ \A a, b \in DOMAIN ToolCalls(m) : ToolCalls(m)[a].id = ToolCalls(m)[b].id => a = b
        /\ \A id \in IdsOf(m) : id[1] < it
    BY <1>3
  <2> HIDE DEF ns
  <2> QED BY <1>1, <1>2, <2>1, <2>2, TranscriptGrows, Zenon
<1> HIDE DEF ns
<1>6. PairedTo(ns, Len(ms))
  BY <1>1, <1>4, PairsAgree
<1>7. PairedTo(ns, Len(ms) + 1)
  BY <1>1, <1>2, <1>3, <1>4, <1>6, PairsGrow
<1> QED BY <1>4, <1>5, <1>7 DEF Whole, ns

LEMMA WholeLater ==
    ASSUME NEW ms, NEW it \in Nat, Whole(ms, it)
    PROVE  Whole(ms, it + 1)
<1>1. ms \in Seq(Message) /\ DOMAIN ms = 1..Len(ms) /\ \A i \in 1..Len(ms) : ms[i] \in Message
  BY WholeFacts
<1>2. ASSUME NEW i \in DOMAIN ms, NEW id \in IdsOf(ms[i]) PROVE id[1] < it + 1
  <2>1. id[1] < it /\ ms[i] \in Message
    BY <1>1 DEF Whole, Transcript, Before
  <2>2. PICK c \in 1..Due(ms[i]) : id = ToolCalls(ms[i])[c].id
    BY <2>1, MessageFacts
  <2>3. ToolCalls(ms[i])[c] \in ToolCall
    BY <2>1, MessageFacts DEF Due
  <2>4. id[1] \in Nat
    BY <2>2, <2>3 DEF ToolCall
  <2> QED BY <2>1, <2>4
<1> QED BY <1>2 DEF Whole, Transcript, Before

(* The model calls tools in iteration it. *)
LEMMA CallsWait ==
    ASSUME NEW ms, NEW it \in Nat, Whole(ms, it), NEW reqs \in Seq(ToolCall),
           \A i \in DOMAIN reqs : reqs[i].id = <<it, i>>
    PROVE  Waiting(Append(ms, Assistant(reqs)), <<reqs>>, it + 1, Len(ms) + 1)
<1> DEFINE m == Assistant(reqs)
           ns == Append(ms, m)
           L == Len(ms)
           bs == <<reqs>>
<1>1. /\ ms \in Seq(Message) /\ L \in Nat /\ DOMAIN ms = 1..L /\ PairedTo(ms, L) /\ Transcript(ms, it)
      /\ Before(ms, it)
  BY WholeFacts DEF Whole
<1>2. m \in Message /\ m.role = "assistant" /\ ToolCalls(m) = reqs
  BY Kinds4
<1>3. \A id : id \in IdsOf(m) <=> \E i \in DOMAIN reqs : id = reqs[i].id
  BY <1>2, Zenon DEF IdsOf
<1> HIDE DEF m
<1>4. /\ ns \in Seq(Message) /\ Len(ns) = L + 1
      /\ ns[L + 1] = m /\ \A i \in 1..L : ns[i] = ms[i]
  BY <1>1, <1>2, Appended
<1>5. Transcript(ns, it + 1)
  <2>1. it + 1 \in Nat /\ it <= it + 1 /\ ns = Append(ms, m)
    OBVIOUS
  <2>2. ASSUME NEW i \in DOMAIN ms PROVE IdsOf(ms[i]) \cap IdsOf(m) = {}
    <3> SUFFICES ASSUME NEW id, id \in IdsOf(ms[i]), id \in IdsOf(m) PROVE FALSE
      OBVIOUS
    <3>3. PICK k \in DOMAIN reqs : id = reqs[k].id
      BY <1>3, Zenon
    <3>1. id = <<it, k>>
      BY <3>3
    <3>2. id[1] < it /\ id[1] = it
      BY <1>1, <3>1 DEF Before
    <3> QED BY <3>2
  <2>3. \A a, b \in DOMAIN ToolCalls(m) : ToolCalls(m)[a].id = ToolCalls(m)[b].id => a = b
    BY <1>2
  <2>4. \A id \in IdsOf(m) : id[1] < it + 1
    BY <1>3
  <2> HIDE DEF ns
  <2> QED BY <1>1, <1>2, <2>1, <2>2, <2>3, <2>4, TranscriptGrows, Zenon
<1> HIDE DEF ns, L
<1>6. PairedTo(ns, (L + 1) - 1)
  <2>1. (L + 1) - 1 = L
    BY <1>1
  <2>2. PairedTo(ns, L)
    BY <1>1, <1>4, PairsAgree DEF L
  <2> QED BY <2>1, <2>2
<1>7. L + 1 \in 1..Len(ns) /\ ((L + 1) + 1)..Len(ns) = {}
  BY <1>1, <1>4
<1>8. DOMAIN bs = {1} /\ bs[1] = reqs
  OBVIOUS
<1> HIDE DEF bs
<1>9. \A id : Open(bs, id) <=> id \in IdsOf(m)
  <2>1. ASSUME NEW id, Open(bs, id) PROVE id \in IdsOf(m)
    <3>1. PICK p, i : At(bs, p, i) /\ bs[p][i].id = id
      BY <2>1 DEF Open
    <3>2. p = 1 /\ i \in DOMAIN reqs
      BY <1>8, <3>1 DEF At
    <3> QED BY <1>3, <1>8, <3>1, <3>2
  <2>2. ASSUME NEW id, id \in IdsOf(m) PROVE Open(bs, id)
    <3>1. PICK i \in DOMAIN reqs : id = reqs[i].id
      BY <1>3, <2>2
    <3>2. At(bs, 1, i) /\ bs[1][i].id = id
      BY <1>8, <3>1 DEF At
    <3> QED BY <3>2 DEF Open
  <2> QED BY <2>1, <2>2
<1>10. \A id : ~ Got(ns, L + 1, id)
  BY <1>7, Zenon DEF Got
<1>11. EachOnce(bs)
  <2> SUFFICES ASSUME NEW p, NEW i, NEW n, NEW j, At(bs, p, i), At(bs, n, j), bs[p][i].id = bs[n][j].id
               PROVE  p = n /\ i = j
    BY Zenon DEF EachOnce
  <2>1. p = 1 /\ n = 1 /\ i \in DOMAIN reqs /\ j \in DOMAIN reqs
    BY <1>8 DEF At
  <2>2. <<it, i>> = <<it, j>>
    BY <1>8, <2>1
  <2> QED BY <2>1, <2>2
<1>12. Waiting(ns, bs, it + 1, L + 1)
  BY <1>2, <1>4, <1>5, <1>6, <1>7, <1>9, <1>10, <1>11, Zenon DEF Waiting
<1> QED BY <1>12 DEF ns, m, bs, L

LEMMA ProcessAnswers ==
    ASSUME NEW ms, NEW reqs \in Seq(ToolCall), NEW it, NEW a, Waiting(ms, <<reqs>>, it, a), NEW ns,
           ns = ms \o AnswersOf(reqs)
    PROVE  LET todo == Picked(reqs, DOMAIN reqs \ Answered(reqs))
           IN  Waiting(ns, Batched(todo), it, a) /\ Alone(Batched(todo))
<1> DEFINE A == Answered(reqs)
           I == DOMAIN reqs \ A
           done == Picked(reqs, A)
           todo == Picked(reqs, I)
           n == Len(reqs)
           bs == <<reqs>>
           cs == Batched(todo)
<1>1. DOMAIN reqs = 1..n /\ n \in Nat /\ A \subseteq 1..n
  BY DEF Answered
<1> HIDE DEF A
<1>2. DOMAIN bs = {1} /\ bs[1] = reqs
  OBVIOUS
<1> HIDE DEF bs
<1>3. OnceEach(reqs)
  <2> SUFFICES ASSUME NEW i \in DOMAIN reqs, NEW j \in DOMAIN reqs, reqs[i].id = reqs[j].id PROVE i = j
    BY Zenon DEF OnceEach
  <2>1. At(bs, 1, i) /\ At(bs, 1, j) /\ bs[1][i].id = bs[1][j].id
    BY <1>2 DEF At
  <2>2. EachOnce(bs)
    BY Zenon DEF Waiting, bs
  <2> QED BY <2>1, <2>2, Zenon DEF EachOnce
<1>4. done \in Seq(ToolCall) /\ \E f : Picks(f, reqs, A, done, n)
  BY PickedPicks, Zenon
<1>5. todo \in Seq(ToolCall) /\ \E f : Picks(f, reqs, I, todo, n)
  <2> HIDE DEF I
  <2> QED BY PickedPicks, Zenon
<1>6. PICK f : Picks(f, reqs, A, done, n)
  BY <1>4
<1>7. PICK g : Picks(g, reqs, I, todo, n)
  BY <1>5
<1> HIDE DEF done, todo, n
<1>8. ASSUME NEW p, p \in Seq(ToolCall), NEW h, NEW J, J \subseteq 1..n, Picks(h, reqs, J, p, n)
      PROVE  /\ OnceEach(p)
             /\ \A id : Named(p, id) <=> \E i \in J : reqs[i].id = id
  <2>1. /\ \A k \in DOMAIN p : h[k] \in J /\ h[k] \in 1..n /\ p[k] = reqs[h[k]]
        /\ \A k, m \in DOMAIN p : k < m => h[k] < h[m]
        /\ \A i \in J : \E k \in DOMAIN p : h[k] = i
    BY <1>8 DEF Picks
  <2>2. OnceEach(p)
    <3> SUFFICES ASSUME NEW i \in DOMAIN p, NEW j \in DOMAIN p, p[i].id = p[j].id PROVE i = j
      BY Zenon DEF OnceEach
    <3>1. h[i] = h[j]
      <4>1. p[i] = reqs[h[i]] /\ p[j] = reqs[h[j]] /\ h[i] \in DOMAIN reqs /\ h[j] \in DOMAIN reqs
        BY <1>1, <2>1, Zenon DEF n
      <4>2. reqs[h[i]].id = reqs[h[j]].id
        BY <4>1
      <4> QED BY <1>3, <4>1, <4>2, Zenon DEF OnceEach
    <3>2. i \in Nat /\ j \in Nat /\ h[i] \in Nat /\ h[j] \in Nat
      BY <1>8, <2>1
    <3>3. ~ i < j /\ ~ j < i
      BY <2>1, <3>1, <3>2
    <3> QED BY <3>2, <3>3
  <2>3. ASSUME NEW id, Named(p, id) PROVE \E i \in J : reqs[i].id = id
    <3>1. PICK k \in DOMAIN p : p[k].id = id
      BY <2>3 DEF Named
    <3> QED BY <2>1, <3>1
  <2>4. ASSUME NEW id, NEW i \in J, reqs[i].id = id PROVE Named(p, id)
    <3>1. PICK k \in DOMAIN p : h[k] = i
      BY <2>1
    <3> QED BY <2>1, <2>4, <3>1 DEF Named
  <2> QED BY <2>2, <2>3, <2>4
<1>9. OnceEach(done) /\ \A id : Named(done, id) <=> \E i \in A : reqs[i].id = id
  BY <1>1, <1>4, <1>6, <1>8, Zenon
<1>10. OnceEach(todo) /\ \A id : Named(todo, id) <=> \E i \in I : reqs[i].id = id
  <2>1. I \subseteq 1..n
    BY <1>1
  <2> HIDE DEF I
  <2> QED BY <1>5, <1>7, <1>8, <2>1, Zenon
<1>11. Covers(cs, todo, Len(todo)) /\ EachOnce(cs) /\ Alone(cs)
  BY <1>5, <1>10, BatchedCovers, Zenon
<1>12. DOMAIN todo = 1..Len(todo)
  BY <1>5
<1> HIDE DEF cs
<1>13. \A id : Open(cs, id) <=> Named(todo, id)
  <2>0. /\ \A m, i : At(cs, m, i) => \E j \in 1..Len(todo) : cs[m][i] = todo[j]
        /\ \A j \in 1..Len(todo) : \E m, i : At(cs, m, i) /\ cs[m][i] = todo[j]
    BY <1>11 DEF Covers
  <2>1. ASSUME NEW id, Open(cs, id) PROVE Named(todo, id)
    <3>1. PICK m, i : At(cs, m, i) /\ cs[m][i].id = id
      BY <2>1 DEF Open
    <3>2. PICK j \in 1..Len(todo) : cs[m][i] = todo[j]
      BY <2>0, <3>1
    <3> QED BY <1>12, <3>1, <3>2 DEF Named
  <2>2. ASSUME NEW id, Named(todo, id) PROVE Open(cs, id)
    <3>1. PICK j \in 1..Len(todo) : todo[j].id = id
      BY <1>12, <2>2 DEF Named
    <3>2. PICK m, i : At(cs, m, i) /\ cs[m][i] = todo[j]
      BY <2>0
    <3> QED BY <3>1, <3>2 DEF Open
  <2> QED BY <2>1, <2>2
<1>14. \A id : Open(bs, id) <=> \E i \in 1..n : reqs[i].id = id
  <2>1. ASSUME NEW id, Open(bs, id) PROVE \E i \in 1..n : reqs[i].id = id
    <3>1. PICK m, i : At(bs, m, i) /\ bs[m][i].id = id
      BY <2>1 DEF Open
    <3>2. m = 1 /\ i \in DOMAIN reqs
      BY <1>2, <3>1 DEF At
    <3> QED BY <1>1, <1>2, <3>1, <3>2 DEF n
  <2>2. ASSUME NEW id, NEW i \in 1..n, reqs[i].id = id PROVE Open(bs, id)
    <3>1. At(bs, 1, i) /\ bs[1][i].id = id
      BY <1>1, <1>2, <2>2 DEF At, n
    <3> QED BY <3>1 DEF Open
  <2> QED BY <2>1, <2>2
<1>15. \A i : i \in 1..n <=> i \in A \/ i \in I
  BY <1>1 DEF n
<1>16. \A id : Open(bs, id) <=> Open(cs, id) \/ Named(done, id)
  BY <1>9, <1>10, <1>13, <1>14, <1>15, Zenon
<1>17. \A id : ~ (Open(cs, id) /\ Named(done, id))
  <2> SUFFICES ASSUME NEW id, Open(cs, id), Named(done, id) PROVE FALSE
    OBVIOUS
  <2>1. PICK i \in I : reqs[i].id = id
    BY <1>10, <1>13
  <2>2. PICK j \in A : reqs[j].id = id
    BY <1>9
  <2>3. i \in DOMAIN reqs /\ j \in DOMAIN reqs /\ i # j
    BY <1>1, <2>1, <2>2 DEF n
  <2> QED BY <1>3, <2>1, <2>2, <2>3, Zenon DEF OnceEach
<1>18. ns = ms \o [i \in DOMAIN done |-> Result(done[i].id)]
  BY DEF AnswersOf, done, A
<1>19. Waiting(ms, bs, it, a)
  BY DEF bs
<1>20. Waiting(ns, cs, it, a)
  BY <1>4, <1>9, <1>11, <1>16, <1>17, <1>18, <1>19, ResultsArrive, ZenonT(40)
<1>21. cs = Batched(Picked(reqs, DOMAIN reqs \ Answered(reqs)))
  BY DEF cs, todo, A
<1> QED BY <1>11, <1>20, <1>21, Zenon

(* The first batch has run. *)
LEMMA BatchAnswers ==
    ASSUME NEW ms, NEW bs \in Seq(Seq(ToolCall) \ {<<>>}), bs # <<>>, NEW it, NEW a, Waiting(ms, bs, it, a),
           Alone(bs), NEW ns, ns = ms \o ResultsOf(bs[1])
    PROVE  Waiting(ns, Tail(bs), it, a) /\ Alone(Tail(bs))
<1> DEFINE cs == Tail(bs)
           s == bs[1]
<1>1. /\ cs \in Seq(Seq(ToolCall) \ {<<>>})
      /\ \A n \in DOMAIN cs : n + 1 \in DOMAIN bs /\ cs[n] = bs[n + 1]
      /\ 1 \in DOMAIN bs /\ s \in Seq(ToolCall)
  BY BatchesGoOn, Zenon
<1>2. DOMAIN bs = 1..Len(bs) /\ Len(bs) \in Nat /\ DOMAIN cs = 1..(Len(bs) - 1)
  OBVIOUS
<1>3. \A n \in DOMAIN bs : n = 1 \/ (n - 1 \in DOMAIN cs /\ (n - 1) + 1 = n)
  BY <1>2
<1>4. \A n \in DOMAIN cs : n + 1 # 1 /\ n \in Nat
  BY <1>2
<1> HIDE DEF cs, s
<1>5. EachOnce(bs)
  BY Zenon DEF Waiting
<1>6. EachOnce(cs)
  <2> SUFFICES ASSUME NEW p, NEW i, NEW n, NEW j, At(cs, p, i), At(cs, n, j), cs[p][i].id = cs[n][j].id
               PROVE  p = n /\ i = j
    BY Zenon DEF EachOnce
  <2>1. p \in DOMAIN cs /\ n \in DOMAIN cs
    BY DEF At
  <2>2. At(bs, p + 1, i) /\ At(bs, n + 1, j) /\ bs[p + 1][i].id = bs[n + 1][j].id
    BY <1>1, <2>1 DEF At
  <2>3. p + 1 = n + 1 /\ i = j
    BY <1>5, <2>2, Zenon DEF EachOnce
  <2> QED BY <1>4, <2>1, <2>3
<1>7. OnceEach(s)
  <2> SUFFICES ASSUME NEW i \in DOMAIN s, NEW j \in DOMAIN s, s[i].id = s[j].id PROVE i = j
    BY Zenon DEF OnceEach
  <2>1. At(bs, 1, i) /\ At(bs, 1, j) /\ bs[1][i].id = bs[1][j].id
    BY <1>1 DEF At, s
  <2> QED BY <1>5, <2>1, Zenon DEF EachOnce
<1>8. ASSUME NEW id
      PROVE  Open(bs, id) <=> Open(cs, id) \/ Named(s, id)
  <2>1. ASSUME Open(bs, id) PROVE Open(cs, id) \/ Named(s, id)
    <3>1. PICK n, i : At(bs, n, i) /\ bs[n][i].id = id
      BY <2>1 DEF Open
    <3>2. CASE n = 1
      BY <3>1, <3>2 DEF At, Named, s
    <3>3. CASE n # 1
      <4>1. n - 1 \in DOMAIN cs /\ cs[n - 1] = bs[n]
        BY <1>1, <1>3, <3>1, <3>3 DEF At
      <4> QED BY <3>1, <4>1 DEF At, Open
    <3> QED BY <3>2, <3>3
  <2>2. ASSUME Open(cs, id) PROVE Open(bs, id)
    <3>1. PICK n, i : At(cs, n, i) /\ cs[n][i].id = id
      BY <2>2 DEF Open
    <3>2. At(bs, n + 1, i) /\ bs[n + 1][i].id = id
      BY <1>1, <3>1 DEF At
    <3> QED BY <3>2 DEF Open
  <2>3. ASSUME Named(s, id) PROVE Open(bs, id)
    <3>1. PICK i \in DOMAIN s : s[i].id = id
      BY <2>3 DEF Named
    <3>2. At(bs, 1, i) /\ bs[1][i].id = id
      BY <1>1, <3>1 DEF At, s
    <3> QED BY <3>2 DEF Open
  <2> QED BY <2>1, <2>2, <2>3
<1>9. ASSUME NEW id, Open(cs, id), Named(s, id) PROVE FALSE
  <2>1. PICK n, i : At(cs, n, i) /\ cs[n][i].id = id
    BY <1>9 DEF Open
  <2>2. At(bs, n + 1, i) /\ bs[n + 1][i].id = id /\ n + 1 # 1
    BY <1>1, <1>4, <2>1 DEF At
  <2>3. PICK j \in DOMAIN s : s[j].id = id
    BY <1>9 DEF Named
  <2>4. At(bs, 1, j) /\ bs[1][j].id = id
    BY <1>1, <2>3 DEF At, s
  <2> QED BY <1>5, <2>2, <2>4, Zenon DEF EachOnce
<1>10. Alone(cs)
  <2> SUFFICES ASSUME NEW n \in DOMAIN cs
               PROVE  Len(cs[n]) = 1 \/ \A i \in DOMAIN cs[n] : cs[n][i].tool \in Readonly
    BY Zenon DEF Alone
  <2>1. n + 1 \in DOMAIN bs /\ cs[n] = bs[n + 1]
    BY <1>1
  <2>2. Len(bs[n + 1]) = 1 \/ \A i \in DOMAIN bs[n + 1] : bs[n + 1][i].tool \in Readonly
    BY <2>1, Zenon DEF Alone
  <2> QED BY <2>1, <2>2
<1>11. ns = ms \o [i \in DOMAIN s |-> Result(s[i].id)]
  BY DEF ResultsOf, s
<1>12. Waiting(ns, cs, it, a)
  BY <1>1, <1>6, <1>7, <1>8, <1>9, <1>11, ResultsArrive, Zenon
<1> QED BY <1>10, <1>12 DEF cs

-----------------------------------------------------------------------------
(* What the loop keeps: between iterations its transcript is whole, while  *)
(* tools run it waits for their results, unless the run was cancelled: a   *)
(* cancelled run may skip results, and never streams again.                *)
TranscriptInv ==
  /\ pc \in {"stream", "retry"} => Whole(messages, iter)
  /\ pc \in {"top", "squeeze"} /\ ~ cancel => Whole(messages, iter + 1)
  /\ pc \in {"process", "batch", "single", "evidence"} /\ ~ cancel =>
       \E a : Waiting(messages, batches, iter + 1, a)
  /\ pc \in {"batch", "single", "evidence"} /\ ~ cancel => Alone(batches)

LEMMA FirstMessages == Whole(<<System, User>>, 1)
<1> DEFINE ms == <<System, User>>
<1>1. ms \in Seq(Message) /\ Len(ms) = 2 /\ DOMAIN ms = 1..2 /\ ms[1] = System /\ ms[2] = User
  BY DEF Message
<1> HIDE DEF ms
<1>2. \A i \in 1..2 : Due(ms[i]) = 0 /\ IdsOf(ms[i]) = {} /\ DOMAIN ToolCalls(ms[i]) = {} /\ ms[i].role # "tool"
  <2>1. \A m : Plain(m) => Due(m) = 0 /\ IdsOf(m) = {} /\ DOMAIN ToolCalls(m) = {} /\ m.role # "tool"
    BY DEF Plain, Due, IdsOf
  <2>2. \A i \in 1..2 : ms[i] = System \/ ms[i] = User
    BY <1>1
  <2> QED BY <2>1, <2>2, PlainMessages
<1>3. Distinct(ms)
  BY <1>1, <1>2, Zenon DEF Distinct
<1>4. Before(ms, 1)
  BY <1>1, <1>2, Zenon DEF Before
<1>5. PairedTo(ms, 2)
  <2>1. ASSUME NEW i \in 1..2 PROVE Block(ms, i, 2)
    <3>1. Due(ms[i]) = 0 /\ IdsOf(ms[i]) = {} /\ 1..0 = {} /\ i + 0 <= 2
      BY <1>2
    <3> QED BY <3>1 DEF Block
  <2>2. ASSUME NEW j \in 1..2 PROVE Owned(ms, j)
    BY <1>2 DEF Owned
  <2> QED BY <2>1, <2>2, Zenon DEF PairedTo
<1>6. Len(ms) >= 2
  BY <1>1
<1> QED BY <1>1, <1>3, <1>4, <1>5, <1>6 DEF Whole, Transcript, ms

(* The top of an iteration keeps the transcript whole. *)
LEMMA WholeAtTheTop == LimitsInv /\ TranscriptInv /\ Top => Whole(messages', iter')
<1> SUFFICES ASSUME LimitsInv, TranscriptInv, Top PROVE Whole(messages', iter')
  OBVIOUS
<1> DEFINE ms == Drained(messages)
<1>1. pc = "top" /\ ~ cancel /\ iter' = iter + 1 /\ iter \in Nat /\ iter + 1 \in Nat
  BY DEF Top, LimitsInv, CountsInv
<1>2. Whole(messages, iter + 1)
  BY <1>1 DEF TranscriptInv
<1>3. Whole(ms, iter + 1)
  <2>1. ms = messages \/ ms = Append(messages, User)
    BY Zenon DEF Drained
  <2>2. Whole(Append(messages, User), iter + 1)
    BY <1>1, <1>2, PlainMessages, WholeGrows, Zenon
  <2> QED BY <1>2, <2>1, <2>2
<1> HIDE DEF ms
<1>4. ASSUME NEW ns, Whole(ns, iter + 1) PROVE Whole(Nudged(ns), iter + 1)
  <2>1. Nudged(ns) = ns \/ Nudged(ns) = Append(ns, User)
    BY Zenon DEF Nudged
  <2>2. Whole(Append(ns, User), iter + 1)
    BY <1>1, <1>4, PlainMessages, WholeGrows, Zenon
  <2> QED BY <1>4, <2>1, <2>2
<1>5. ASSUME NEW cut \in 0..(Len(ms) - 1) PROVE Whole(Compacted(ms, cut), iter + 1)
  BY <1>3, CompactedIsWhole, Zenon
<1>6. \/ messages' = Nudged(ms)
      \/ \E cut \in 0..(Len(ms) - 1) : messages' = Nudged(Compacted(ms, cut))
  BY Zenon DEF Top, ms
<1>7. Whole(messages', iter + 1)
  BY <1>3, <1>4, <1>5, <1>6, Zenon
<1> QED BY <1>1, <1>7

(* A response with tool calls. *)
LEMMA WaitsForCalls ==
    LimitsInv /\ LimitsInv' /\ TranscriptInv /\ CallTools
      => \E a : Waiting(messages', batches', iter' + 1, a)
<1> SUFFICES ASSUME LimitsInv, LimitsInv', TranscriptInv, CallTools
             PROVE  \E a : Waiting(messages', batches', iter' + 1, a)
  OBVIOUS
<1>1. pc \in {"stream", "retry"} /\ pc' = "process" /\ iter' = iter /\ iter \in Nat
  BY DEF CallTools, LimitsInv, CountsInv
<1>2. Whole(messages, iter)
  BY <1>1 DEF TranscriptInv
<1>3. PICK r \in Responses :
        LET reqs == [i \in DOMAIN r |-> [id |-> <<iter, i>>, tool |-> r[i]]]
        IN  messages' = Append(messages, Assistant(reqs)) /\ batches' = <<reqs>>
  BY DEF CallTools
<1> DEFINE reqs == [i \in DOMAIN r |-> [id |-> <<iter, i>>, tool |-> r[i]]]
<1>4. \A i \in DOMAIN reqs : reqs[i].id = <<iter, i>>
  OBVIOUS
<1>5. messages' = Append(messages, Assistant(reqs)) /\ batches' = <<reqs>>
  BY <1>3
<1> HIDE DEF reqs
<1>6. reqs \in Seq(ToolCall)
  <2>1. batches' \in Seq(Seq(ToolCall))
    BY <1>1 DEF LimitsInv, BatchInv
  <2>2. 1 \in DOMAIN batches' /\ batches'[1] = reqs
    BY <1>5
  <2> QED BY <2>1, <2>2
<1>7. Waiting(Append(messages, Assistant(reqs)), <<reqs>>, iter + 1, Len(messages) + 1)
  BY <1>1, <1>2, <1>4, <1>6, CallsWait, Zenon
<1> QED BY <1>1, <1>5, <1>7, Zenon

(* The calls that are answered without running anything. *)
LEMMA WaitsForBatches ==
    LimitsInv /\ TranscriptInv /\ Process /\ ~ cancel
      => (\E a : Waiting(messages', batches', iter' + 1, a)) /\ Alone(batches')
<1> SUFFICES ASSUME LimitsInv, TranscriptInv, Process, ~ cancel
             PROVE  (\E a : Waiting(messages', batches', iter' + 1, a)) /\ Alone(batches')
  OBVIOUS
<1> DEFINE reqs == batches[1]
<1>1. pc = "process" /\ iter' = iter
  BY DEF Process
<1>2. batches = <<reqs>> /\ reqs \in Seq(ToolCall)
  <2>1. batches \in Seq(Seq(ToolCall)) /\ Len(batches) = 1
    BY <1>1 DEF LimitsInv, BatchInv
  <2> QED BY <2>1
<1>3. PICK a : Waiting(messages, batches, iter + 1, a)
  BY <1>1 DEF TranscriptInv
<1>4. /\ batches' = Batched(Picked(reqs, DOMAIN reqs \ Answered(reqs)))
      /\ messages' = messages \o AnswersOf(reqs)
  BY Zenon DEF Process
<1> HIDE DEF reqs
<1>5. Waiting(messages, <<reqs>>, iter + 1, a)
  BY <1>2, <1>3
<1>6. Waiting(messages', batches', iter + 1, a) /\ Alone(batches')
  BY <1>2, <1>4, <1>5, ProcessAnswers
<1> QED BY <1>1, <1>6, Zenon

(* A batch that runs; recording evidence is a batch of one call. *)
LEMMA WaitsForTheRest ==
    LimitsInv /\ TranscriptInv /\ (RunBatch \/ EvidenceWrites) /\ ~ cancel
      => (\E a : Waiting(messages', batches', iter' + 1, a)) /\ Alone(batches')
<1> SUFFICES ASSUME LimitsInv, TranscriptInv, RunBatch \/ EvidenceWrites, ~ cancel
             PROVE  (\E a : Waiting(messages', batches', iter' + 1, a)) /\ Alone(batches')
  OBVIOUS
<1>1. /\ pc \in {"batch", "single", "evidence"} /\ iter' = iter /\ batches # <<>>
      /\ batches' = Tail(batches)
  BY DEF RunBatch, EvidenceWrites, Launching, LimitsInv, BatchInv
<1>2. batches \in Seq(Seq(ToolCall) \ {<<>>})
  BY <1>1 DEF LimitsInv, BatchInv
<1>3. PICK a : Waiting(messages, batches, iter + 1, a)
  BY <1>1 DEF TranscriptInv
<1>4. Alone(batches)
  BY <1>1 DEF TranscriptInv
<1>5. messages' = messages \o ResultsOf(batches[1])
  <2>1. CASE RunBatch
    BY <2>1, Zenon DEF RunBatch
  <2>2. CASE EvidenceWrites
    <3>1. messages' = Append(messages, Result(batches[1][1].id)) /\ batches[1][1].tool = GoalTool
      BY <2>2 DEF EvidenceWrites, LimitsInv, BatchInv
    <3>2. 1 \in DOMAIN batches /\ batches[1] \in Seq(ToolCall) /\ 1 \in DOMAIN batches[1]
      BY <1>1, <1>2, BatchesGoOn, Zenon
    <3>3. Len(batches[1]) = 1
      BY <1>4, <3>1, <3>2, LoopAssumption DEF Alone
    <3>4. DOMAIN batches[1] = 1..1
      BY <3>2, <3>3
    <3> DEFINE b == batches[1]
               R == Result(b[1].id)
    <3>5. ResultsOf(b) = <<R>>
      <4>1. ResultsOf(b) = [i \in 1..1 |-> Result(b[i].id)]
        BY <3>4 DEF ResultsOf
      <4>2. \A i \in 1..1 : i = 1
        OBVIOUS
      <4>3. <<R>> = [i \in 1..1 |-> R]
        OBVIOUS
      <4> QED BY <4>1, <4>2, <4>3
    <3>6. messages \in Seq(Message)
      BY <1>3 DEF Waiting, Transcript
    <3> HIDE DEF R
    <3>7. Append(messages, R) = messages \o <<R>>
      BY <3>6
    <3> QED BY <3>1, <3>5, <3>7 DEF R
  <2> QED BY <2>1, <2>2
<1>6. Waiting(messages', Tail(batches), iter + 1, a) /\ Alone(Tail(batches))
  BY <1>1, <1>2, <1>3, <1>4, <1>5, BatchAnswers, Zenon
<1> QED BY <1>1, <1>6, Zenon

LEMMA TranscriptStepKeeps == LimitsInv /\ LimitsInv' /\ TranscriptInv /\ LoopNext => TranscriptInv'
<1> SUFFICES ASSUME LimitsInv, LimitsInv', TranscriptInv, LoopNext PROVE TranscriptInv'
  OBVIOUS
<1> USE DEF bounds, loopState, transcript
<1>1. iter \in Nat /\ iter + 1 \in Nat
  BY DEF LimitsInv, CountsInv
<1>2. ASSUME UNCHANGED <<pc, iter, messages, batches>>, cancel => cancel' PROVE TranscriptInv'
  BY <1>2 DEF TranscriptInv
<1>3. CASE Cancel \/ BackgroundEnds \/ Others
  BY <1>2, <1>3 DEF Cancel, BackgroundEnds, Others
<1>4. ASSUME pc' \in {"idle", "end"} PROVE TranscriptInv'
  BY <1>4 DEF TranscriptInv
<1>5. CASE TopEnds \/ StreamCancelled \/ End
  BY <1>4, <1>5 DEF TopEnds, StreamCancelled, End, Return
<1>6. ASSUME pc' = "top", Whole(messages', iter' + 1) PROVE TranscriptInv'
  BY <1>6 DEF TranscriptInv
<1>7. CASE Start
  <2>1. pc' = "top" /\ iter' = 0 /\ messages' = <<System, User>> /\ 0 + 1 = 1
    BY <1>7 DEF Start
  <2> QED BY <1>6, <2>1, FirstMessages
<1>8. CASE Top
  <2>1. pc' = "stream" /\ Whole(messages', iter')
    BY <1>8, WholeAtTheTop DEF Top
  <2> QED BY <2>1 DEF TranscriptInv
<1>9. CASE StreamFails
  <2>1. CASE Fail
    BY <1>4, <2>1 DEF Fail, Return
  <2>2. CASE pc = "stream" /\ pc' = "retry" /\ UNCHANGED <<iter, messages>>
    BY <2>2 DEF TranscriptInv
  <2> QED BY <1>9, <2>1, <2>2 DEF StreamFails
<1>10. ASSUME pc \in {"stream", "retry"} PROVE Whole(messages, iter + 1)
  <2>1. Whole(messages, iter)
    BY <1>10 DEF TranscriptInv
  <2> QED BY <1>1, <2>1, WholeLater, Zenon
<1>11. CASE Filtered
  <2>1. /\ pc \in {"stream", "retry"} /\ iter' = iter /\ pc' \in {"end", "top"}
        /\ messages' = messages \/ messages' = Append(messages, System)
    BY <1>11 DEF Filtered
  <2>2. Whole(messages, iter + 1) /\ Whole(Append(messages, System), iter + 1)
    BY <1>1, <1>10, <2>1, PlainMessages, WholeGrows, Zenon
  <2>3. Whole(messages', iter' + 1)
    BY <2>1, <2>2
  <2> QED BY <1>4, <1>6, <2>1, <2>3
<1>12. CASE AnswerText
  <2>1. /\ pc \in {"stream", "retry"} /\ iter' = iter
        /\ pc' = "end" \/ (pc' = "top" /\ messages' = messages \o <<Assistant(<<>>), User>>)
    BY <1>12 DEF AnswerText
  <2> DEFINE m == Assistant(<<>>)
  <2> HIDE DEF m
  <2>2. Whole(messages, iter + 1)
    BY <1>10, <2>1
  <2>3. Whole(Append(messages, m), iter + 1)
    BY <1>1, <2>2, PlainMessages, WholeGrows, Zenon DEF m
  <2>4. Whole(Append(Append(messages, m), User), iter + 1)
    BY <1>1, <2>3, PlainMessages, WholeGrows, Zenon
  <2>5. messages \o <<m, User>> = Append(Append(messages, m), User)
    <3>1. messages \in Seq(Message)
      BY <2>2 DEF Whole, Transcript
    <3> HIDE DEF User
    <3>2. User \in Message /\ m \in Message
      BY PlainMessages, Zenon DEF Plain, m
    <3> QED BY <3>1, <3>2
  <2>6. CASE pc' = "top" /\ messages' = messages \o <<Assistant(<<>>), User>>
    <3>1. Whole(messages', iter' + 1)
      BY <2>1, <2>4, <2>5, <2>6, Zenon DEF m
    <3> QED BY <1>6, <2>6, <3>1
  <2> QED BY <1>4, <2>1, <2>6
<1>13. CASE CallTools
  <2>1. pc' = "process" /\ \E a : Waiting(messages', batches', iter' + 1, a)
    BY <1>13, WaitsForCalls DEF CallTools
  <2> QED BY <2>1 DEF TranscriptInv
<1>14. ASSUME pc' \in {"single", "batch"}, UNCHANGED cancel,
              ~ cancel => (\E a : Waiting(messages', batches', iter' + 1, a)) /\ Alone(batches')
       PROVE  TranscriptInv'
  BY <1>14 DEF TranscriptInv
<1>15. CASE Process
  <2>1. pc' \in {"single", "batch"} /\ UNCHANGED cancel
    BY <1>15 DEF Process
  <2> QED BY <1>14, <1>15, <2>1, WaitsForBatches
<1>16. CASE RunBatch \/ EvidenceWrites
  <2>1. pc' \in {"single", "batch"} /\ UNCHANGED cancel
    BY <1>16 DEF RunBatch, EvidenceWrites
  <2> QED BY <1>14, <1>16, <2>1, WaitsForTheRest
<1>17. CASE EvidenceReads
  <2>1. pc \in {"batch", "single"} /\ pc' = "evidence" /\ UNCHANGED <<iter, messages, batches, cancel>>
    BY <1>17 DEF EvidenceReads, Launching
  <2> QED BY <2>1 DEF TranscriptInv
<1>18. CASE ToolsDone
  <2>1. pc = "batch" /\ pc' \in {"squeeze", "top"} /\ UNCHANGED <<iter, messages, cancel>>
    BY <1>18 DEF ToolsDone
  <2>2. ASSUME ~ cancel PROVE Whole(messages, iter + 1)
    <3>1. batches = <<>>
      BY <1>18, <2>2 DEF ToolsDone, MayLaunch
    <3>2. PICK a : Waiting(messages, batches, iter + 1, a)
      BY <2>1, <2>2 DEF TranscriptInv
    <3> QED BY <3>1, <3>2, NothingWaits
  <2> QED BY <2>1, <2>2 DEF TranscriptInv
<1>19. CASE Squeeze
  <2>1. CASE Fail
    BY <1>4, <2>1 DEF Fail, Return
  <2>2. CASE /\ pc = "squeeze" /\ pc' = "top" /\ UNCHANGED <<iter, cancel>>
             /\ \E cut \in 0..(Len(messages) - 1) : messages' = Compacted(messages, cut)
    <3>1. PICK cut \in 0..(Len(messages) - 1) : messages' = Compacted(messages, cut)
      BY <2>2
    <3>2. ASSUME ~ cancel PROVE Whole(messages', iter + 1)
      <4>1. Whole(messages, iter + 1)
        BY <2>2, <3>2 DEF TranscriptInv
      <4>2. Whole(Compacted(messages, cut), iter + 1)
        BY <3>1, <4>1, CompactedIsWhole, Zenon
      <4> QED BY <3>1, <4>2
    <3> QED BY <2>2, <3>2 DEF TranscriptInv
  <2> QED BY <1>19, <2>1, <2>2 DEF Squeeze
<1> QED BY <1>3, <1>5, <1>7, <1>8, <1>9, <1>11, <1>12, <1>13, <1>15, <1>16, <1>17, <1>18, <1>19
        DEF LoopNext, LoopStep

LEMMA WholeIsPaired == TranscriptInv => TranscriptPairs
<1> SUFFICES ASSUME TranscriptInv, pc \in {"stream", "retry"} PROVE TranscriptPairs
  BY DEF TranscriptPairs
<1>1. messages \in Seq(Message) /\ PairedTo(messages, Len(messages))
  <2>1. Whole(messages, iter)
    BY DEF TranscriptInv
  <2> QED BY <2>1 DEF Whole, Transcript
<1>2. DOMAIN messages = 1..Len(messages)
  BY <1>1
<1> QED BY <1>1, <1>2, Zenon DEF TranscriptPairs, PairedTo, Block, Owned, Due

\* For any tools, responses, limits and cuts, and whenever the cancel flag is
\* set: every transcript the provider is sent pairs each tool call with one
\* result and has no other result (loop.py, _process_tool_calls,
\* _auto_compact and _fix_tool_pairs).
THEOREM TranscriptsAreAlwaysPaired == LoopSpec => []TranscriptPairs
<1>1. LoopInit => TranscriptInv
  BY DEF LoopInit, TranscriptInv
<1>2. LimitsInv /\ LimitsInv' /\ TranscriptInv /\ [LoopNext]_loopVars => TranscriptInv'
  <2>1. UNCHANGED loopVars /\ TranscriptInv => TranscriptInv'
    BY DEF loopVars, transcript, TranscriptInv
  <2> QED BY <2>1, TranscriptStepKeeps
<1> QED BY <1>1, <1>2, LimitsHoldAtFirst, LimitsStepKeeps, WholeIsPaired, PTL DEF LoopSpec
=============================================================================

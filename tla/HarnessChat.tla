----------------------------- MODULE HarnessChat -----------------------------
(***************************************************************************)
(* web/app.py and orchestrator/harness_agent.py: one browser page talks    *)
(* over a WebSocket to the server's event loop, which handles every        *)
(* message in a task of its own.  A chat message starts a run of the       *)
(* LangGraph graph on a new checkpoint thread in the worker pool, an       *)
(* approve message resumes the thread the session holds at that moment.    *)
(*                                                                         *)
(* Threads are named by the message that started them and a list of picks  *)
(* by the run that selected it.  LangGraph is external: a run saves a      *)
(* checkpoint of the graph's state before each node, a resume goes on from *)
(* the last checkpoint of its thread, and the value it brings is seen only *)
(* by the node it goes on with.                                            *)
(***************************************************************************)
EXTENDS Integers, Sequences, FiniteSets

CONSTANTS
    MaxMessages,  \* bound: messages the page sends
    PicksEach,    \* stocks in a selection
    Workers,      \* threads of the pool
    Filled        \* Filled[m]: whether the account field may be filled in by then

ASSUME ChatAssumption ==
    /\ MaxMessages \in Nat \ {0} /\ PicksEach \in Nat \ {0} /\ Workers \in Nat \ {0}
    /\ Filled \in [1..MaxMessages -> SUBSET BOOLEAN]

VARIABLES
    conn,         \* the WebSocket: "closed", "open", and "gone" for good
    sess,         \* the SessionState object _sessions holds, 0 if none
    state,        \* state[k]: the SessionState objects
    inbox,        \* tasks created for messages, not yet run by the event loop
    pool,         \* work submitted to the ThreadPoolExecutor, not yet started
    task,         \* task[m]: the handling of message m
    ckpt,         \* ckpt[t]: the last checkpoint of thread t
    cards,        \* selections the page shows with an unused submit button
    log           \* picks _execute has handed to the executor, or failed on

vars == <<conn, sess, state, inbox, pool, task, ckpt, cards, log>>

Messages == 1..MaxMessages

(* A text with an order keyword, with a select keyword, or for the LLM. *)
Texts == {"order", "select", "other"}

PicksOf(m) == {[sel |-> m, k |-> k] : k \in 1..PicksEach}

(* connect makes the first SessionState; _manager.state makes the other for *)
(* a task that runs after disconnect.                                       *)
States == {1, 2}

NewState == [account |-> FALSE, instructions |-> << >>, last_picks |-> {}, thread_id |-> 0]

NoMessage == [type |-> "none", text |-> "other", account |-> FALSE, picks |-> {}]

(* HarnessState and the node to run next. *)
NoGraph == [next |-> "none", instructions |-> << >>, pending |-> {}, picks |-> {},
            confirmed |-> {}]

NoTask == [msg |-> NoMessage, phase |-> "unsent", of |-> 0, thread |-> 0,
           graph |-> NoGraph, resume |-> FALSE, calm |-> TRUE]

Init ==
    /\ conn = "closed" /\ sess = 0
    /\ state = [k \in States |-> NewState]
    /\ inbox = << >> /\ pool = << >>
    /\ task = [m \in Messages |-> NoTask]
    /\ ckpt = [m \in Messages |-> NoGraph]
    /\ cards = {} /\ log = {}

Over(m) == task[m].phase \in {"ended", "error"}
Idle == \A m \in Messages : task[m].phase = "unsent" \/ Over(m)
Calm == \A m \in Messages : task[m].calm
Attempted(m) == {e.pick : e \in {x \in log : x.task = m}}

-----------------------------------------------------------------------------
(* The page and the event loop. *)

Connect ==
    /\ conn = "closed"
    /\ conn' = "open" /\ sess' = 1
    /\ UNCHANGED <<state, inbox, pool, task, ckpt, cards, log>>

(* The page is gone; what runs goes on. *)
Disconnect ==
    /\ conn = "open"
    /\ conn' = "gone" /\ sess' = 0
    /\ cards' = {}
    /\ UNCHANGED <<state, inbox, pool, task, ckpt, log>>

(* ws_endpoint makes a task for the next message; calm records that every   *)
(* message before it had been answered.                                     *)
Receive(m, msg) ==
    /\ conn = "open"
    /\ task[m].phase = "unsent" /\ \A k \in 1..m-1 : task[k].phase # "unsent"
    /\ task' = [task EXCEPT ![m].msg = msg, ![m].phase = "queued", ![m].calm = Idle]
    /\ inbox' = Append(inbox, m)

SendText(m, text, account) ==
    /\ Receive(m, [NoMessage EXCEPT !.type = "message", !.text = text, !.account = account])
    /\ UNCHANGED <<conn, sess, state, pool, ckpt, cards, log>>

(* The submit button of a selection sends the cards that are ticked, once. *)
SendApprove(m, c, picks) ==
    /\ c \in cards /\ picks # {}
    /\ Receive(m, [NoMessage EXCEPT !.type = "approve", !.picks = picks])
    /\ cards' = cards \ {c}
    /\ UNCHANGED <<conn, sess, state, pool, ckpt, log>>

(* _manager.state *)
Session == IF sess = 0 THEN 2 ELSE sess

Handled(m) == inbox # << >> /\ Head(inbox) = m /\ inbox' = Tail(inbox) /\ sess' = Session

(* _handle_message up to run_in_executor: the thread of the session is      *)
(* replaced before the run starts.                                          *)
HandleMessage(m) ==
    LET k       == Session
        account == state[k].account \/ task[m].msg.account
    IN  /\ Handled(m) /\ task[m].msg.type = "message"
        /\ state' = [state EXCEPT ![k].account = account,
                                  ![k].thread_id = IF account THEN m ELSE @]
        /\ task' = [task EXCEPT ![m].phase = IF account THEN "pooled" ELSE "error",
                                ![m].of = k, ![m].thread = m,
                                ![m].graph = [task[m].graph EXCEPT
                                                 !.instructions = state[k].instructions,
                                                 !.pending = state[k].last_picks]]
        /\ pool' = IF account THEN Append(pool, m) ELSE pool
        /\ UNCHANGED <<conn, ckpt, cards, log>>

(* _handle_approve up to run_in_executor; without a thread it is an error. *)
HandleApprove(m) ==
    LET k     == Session
        known == state[k].thread_id # 0
    IN  /\ Handled(m) /\ task[m].msg.type = "approve"
        /\ task' = [task EXCEPT ![m].phase = IF known THEN "pooled" ELSE "error",
                                ![m].of = k, ![m].thread = state[k].thread_id]
        /\ pool' = IF known THEN Append(pool, m) ELSE pool
        /\ UNCHANGED <<conn, state, ckpt, cards, log>>

(* The handlers after run_in_executor: a chat message's run gives the       *)
(* session its instructions, and its picks if there are any.                *)
HandlerEnds(m) ==
    LET g == task[m].graph
    IN  /\ task[m].phase = "returned"
        /\ task' = [task EXCEPT ![m].phase = "ended"]
        /\ state' = IF task[m].msg.type = "approve" THEN state
                    ELSE [state EXCEPT ![task[m].of].instructions = g.instructions,
                                       ![task[m].of].last_picks =
                                           IF g.picks = {} THEN @ ELSE g.picks]
        /\ UNCHANGED <<conn, sess, inbox, pool, ckpt, cards, log>>

-----------------------------------------------------------------------------
(* The graph, in a worker thread. *)

Busy == {m \in Messages : task[m].phase = "running"}

StartsNext(m) ==
    /\ pool # << >> /\ Head(pool) = m /\ pool' = Tail(pool)
    /\ Cardinality(Busy) < Workers

(* run m saves g, and goes on or returns. *)
Save(m, g, phase) ==
    /\ task' = [task EXCEPT ![m].graph = g, ![m].phase = phase, ![m].resume = FALSE]
    /\ ckpt' = [ckpt EXCEPT ![task[m].thread] = g]

RunStarts(m) ==
    /\ StartsNext(m) /\ task[m].msg.type = "message"
    /\ Save(m, [task[m].graph EXCEPT !.next = "interpret"], "running")
    /\ UNCHANGED <<conn, sess, state, inbox, cards, log>>

(* A thread that waits, or that another run is working on or has failed in, *)
(* goes on from its checkpoint; on one that is at its end nothing is run.   *)
ResumeStarts(m) ==
    LET g == ckpt[task[m].thread]
    IN  /\ StartsNext(m) /\ task[m].msg.type = "approve"
        /\ task' = IF g.next = "end" THEN [task EXCEPT ![m].phase = "returned"]
                   ELSE [task EXCEPT ![m].phase = "running", ![m].graph = g,
                                     ![m].resume = (g.next = "wait_approval")]
        /\ UNCHANGED <<conn, sess, state, inbox, ckpt, cards, log>>

At(m, node) == task[m].phase = "running" /\ task[m].graph.next = node

(* Mutant: a refinement replaces the ones before it. *)
InterpretForgetful(text, t, g) ==
    {h \in {[g EXCEPT !.next = "execute", !.confirmed = g.pending],
            [g EXCEPT !.next = "select", !.instructions = << >>],
            [g EXCEPT !.next = "select", !.instructions = <<t>>],
            [g EXCEPT !.next = "chat_reply"]} :
       /\ text = "order" => h.next = "execute"
       /\ text = "select" => h.next = "select" /\ h.instructions = << >>
       /\ text = "other" => h.next # "select" \/ h.instructions # << >>}

(* _interpret: the keywords decide, or else the LLM does; what it takes for *)
(* a selection refines the instructions.                                    *)
InterpretText(text, t, g) ==
    LET order  == [g EXCEPT !.next = "execute", !.confirmed = g.pending]
        select == [g EXCEPT !.next = "select", !.instructions = << >>]
        refine == [g EXCEPT !.next = "select", !.instructions = Append(@, t)]
        chat   == [g EXCEPT !.next = "chat_reply"]
    IN  CASE text = "order"  -> {order}
          [] text = "select" -> {select}
          [] text = "other"  -> {order, refine, chat}

Interpret(m) ==
    /\ At(m, "interpret")
    /\ \E g \in InterpretText(task[task[m].thread].msg.text, task[m].thread, task[m].graph) :
         Save(m, g, "running")
    /\ UNCHANGED <<conn, sess, state, inbox, pool, cards, log>>

(* Mutant: the selection goes straight to execution. *)
SelectedUnasked(g, picks) ==
    [g EXCEPT !.picks = picks, !.confirmed = picks,
              !.next = IF picks = {} THEN "end" ELSE "execute"]

(* The edge after select. *)
Selected(g, picks) ==
    [g EXCEPT !.picks = picks, !.next = IF picks = {} THEN "end" ELSE "wait_approval"]

(* _select: the LLM answers with picks, which the page shows, or with none. *)
Select(m) ==
    /\ At(m, "select")
    /\ \E picks \in {PicksOf(m), {}} :
         LET g == Selected(task[m].graph, picks)
         IN  /\ Save(m, g, IF g.next = "end" THEN "returned" ELSE "running")
             /\ cards' = IF picks # {} /\ conn = "open" THEN cards \cup {m} ELSE cards
    /\ UNCHANGED <<conn, sess, state, inbox, pool, log>>

(* Mutant: the worker waits for the approval. *)
InterruptBlocking(m) ==
    /\ At(m, "wait_approval") /\ ~task[m].resume
    /\ task' = [task EXCEPT ![m].phase = "running"]
    /\ UNCHANGED <<conn, sess, state, inbox, pool, ckpt, cards, log>>

(* _wait_approval without an answer: the run returns and frees its worker. *)
Interrupt(m) ==
    /\ At(m, "wait_approval") /\ ~task[m].resume
    /\ task' = [task EXCEPT ![m].phase = "returned"]
    /\ UNCHANGED <<conn, sess, state, inbox, pool, ckpt, cards, log>>

(* _wait_approval with the answer of an approve message, and its edge. *)
Confirmed(g, picks) == [g EXCEPT !.confirmed = picks, !.next = "execute"]

WaitApproval(m) ==
    /\ At(m, "wait_approval") /\ task[m].resume
    /\ Save(m, Confirmed(task[m].graph, task[m].msg.picks), "running")
    /\ UNCHANGED <<conn, sess, state, inbox, pool, cards, log>>

Todo(m) == task[m].graph.confirmed \ Attempted(m)

(* _execute: the next pick goes to the executor, or raises: a pick that     *)
(* does not validate, an executor that fails.  The exception is caught in   *)
(* the loop, reported to the page, and the pick is not tried again.         *)
ExecutePick(m) ==
    /\ At(m, "execute")
    /\ \E p \in Todo(m), raised \in BOOLEAN :
         /\ \A q \in Todo(m) : p.k <= q.k
         /\ log' = log \cup {[task |-> m, pick |-> p, raised |-> raised]}
    /\ UNCHANGED <<conn, sess, state, inbox, pool, task, ckpt, cards>>

(* The end of _execute, also when there was nothing to execute. *)
ExecuteEnds(m) ==
    /\ At(m, "execute") /\ Todo(m) = {}
    /\ Save(m, [task[m].graph EXCEPT !.next = "end"], "returned")
    /\ UNCHANGED <<conn, sess, state, inbox, pool, cards, log>>

ChatReply(m) ==
    /\ At(m, "chat_reply")
    /\ Save(m, [task[m].graph EXCEPT !.next = "end"], "returned")
    /\ UNCHANGED <<conn, sess, state, inbox, pool, cards, log>>

(* The LLM client or the selection raises; the handler reports it. *)
RunRaises(m) ==
    /\ \/ At(m, "interpret") /\ task[task[m].thread].msg.text = "other"
       \/ At(m, "select")
       \/ At(m, "chat_reply")
    /\ task' = [task EXCEPT ![m].phase = "error"]
    /\ UNCHANGED <<conn, sess, state, inbox, pool, ckpt, cards, log>>

Page(m) ==
    \/ \E text \in Texts, account \in Filled[m] : SendText(m, text, account)
    \/ \E c \in cards : \E picks \in SUBSET PicksOf(c) : SendApprove(m, c, picks)

Server(m) ==
    \/ HandleMessage(m) \/ HandleApprove(m) \/ HandlerEnds(m)
    \/ RunStarts(m) \/ ResumeStarts(m)
    \/ Interpret(m) \/ Select(m) \/ Interrupt(m) \/ WaitApproval(m)
    \/ ExecutePick(m) \/ ExecuteEnds(m) \/ ChatReply(m) \/ RunRaises(m)

Next ==
    \/ Connect
    \/ Disconnect
    \/ \E m \in Messages : Page(m)
    \/ \E m \in Messages : Server(m)

(* The event loop and the pool run what they are given, and a call of the   *)
(* LLM or of the executor returns or raises.                                *)
Fairness == \A m \in Messages : WF_vars(Server(m))

Spec == Init /\ [][Next]_vars /\ Fairness

-----------------------------------------------------------------------------
(* What the chat guarantees. *)

Approvals == {m \in Messages : task[m].msg.type = "approve"}

ApprovedPicks == UNION {task[m].msg.picks : m \in Approvals}

(* The picks the session was given by a selection that has ended.           *)
Remembered == UNION {task[m].graph.picks : m \in {k \in Messages : task[k].phase = "ended"}}

(* A run that selected stocks executes only picks some approve message      *)
(* brought, whatever else the user sends meanwhile.  A run that did not     *)
(* select executes, without any approval, only picks of a selection that    *)
(* has ended, and only for a text that is or was taken for an order.        *)
OrdersHaveGrounds ==
    \A m \in Messages :
        IF task[m].graph.picks # {} THEN Attempted(m) \subseteq ApprovedPicks
        ELSE Attempted(m) # {} => /\ Attempted(m) \subseteq Remembered
                                  /\ task[task[m].thread].msg.text # "select"

(* A run that came to its end tried every pick it was to execute, and each  *)
(* once: a pick that raises keeps none of the others from the executor.     *)
AllAttempted ==
    \A m \in Messages :
        /\ task[m].graph.next = "end" => task[m].graph.confirmed \subseteq Attempted(m)
        /\ \A d, e \in log : d.task = e.task /\ d.pick = e.pick => d = e

(* What is executed has its grounds, and an approval is carried out in full *)
(* (harness_agent.py, _interpret, _wait_approval and _execute).             *)
ApprovalsGovern == OrdersHaveGrounds /\ AllAttempted

(* readme.md:60: a selection reaches the executor only through an approve   *)
(* message.  The code does not have this property: a text order executes    *)
(* the session's last selection with no interrupt.                          *)
SelectionsNeedApproval == \A m \in Messages : Attempted(m) \subseteq ApprovedPicks

(* Every message is answered: runs that wait for an approval do not use up  *)
(* the pool.                                                                *)
MessagesAnswered == \A m \in Messages : (task[m].phase = "queued") ~> Over(m)

(* What becomes of a selection is exactly the list of the approve message   *)
(* that resumed it.                                                         *)
ApprovedListOnly ==
    \A m \in Messages : task[m].graph.picks # {} => Attempted(m) \subseteq task[m].msg.picks

(* The refinements answered since the last new selection are all in the     *)
(* instructions the next selection will get.                                *)
InstructionsAccumulate ==
    Idle =>
      \A m \in Messages :
        LET own == ckpt[m].instructions
        IN  /\ task[m].phase = "ended" /\ task[m].of = 1
            /\ own # << >> /\ own[Len(own)] = m
            /\ \A k \in m+1..MaxMessages :
                 task[k].phase = "ended" => task[k].msg.text # "select"
            => \E n \in DOMAIN state[1].instructions : state[1].instructions[n] = m

(* A user who waits for every answer is understood: refinements accumulate  *)
(* and an approval executes its own list (web/app.py, _handle_message and   *)
(* _handle_approve).                                                        *)
CalmUserIsUnderstood == Calm => InstructionsAccumulate /\ ApprovedListOnly
=============================================================================

------------------------- MODULE HarnessChatProofs -------------------------
(***************************************************************************)
(* Proofs about the chat, for any number of messages in flight, picks and  *)
(* workers: what is executed has its grounds and is carried out in full    *)
(* (ApprovalsStandFirst), and a user who waits for the answers is          *)
(* understood (WaitingIsEnough).                                           *)
(*                                                                         *)
(* The first needs what the graph's edges say of a state anywhere, in a    *)
(* run or in a checkpoint (GraphInv), that nothing is executed by a run    *)
(* that has not come to execute (LogInv), and that what an order may       *)
(* execute without a selection of its own came from one that has ended     *)
(* (RecallInv).  The second needs more: who waits has one message under    *)
(* way (CalmInv, BusyInv), so that a checkpoint is what the last run on    *)
(* its thread left (CkptAt), and what a session knows is what the ended    *)
(* runs left (SessionAt, Accumulated).                                     *)
(***************************************************************************)
EXTENDS HarnessChat, SequenceTheorems, TLAPS

Nodes == {"none", "interpret", "select", "chat_reply", "wait_approval", "execute", "end"}
Phases == {"unsent", "queued", "pooled", "running", "returned", "ended", "error"}
Picks == [sel : Messages, k : 1..PicksEach]

MessageType == [type : {"none", "message", "approve"}, text : Texts, account : BOOLEAN,
                picks : SUBSET Picks]
GraphType == [next : Nodes, instructions : Seq(Messages), pending : SUBSET Picks,
              picks : SUBSET Picks, confirmed : SUBSET Picks]
TaskType == [msg : MessageType, phase : Phases, of : {0} \cup States, thread : {0} \cup Messages,
             graph : GraphType, resume : BOOLEAN, calm : BOOLEAN]
StateType == [account : BOOLEAN, instructions : Seq(Messages), last_picks : SUBSET Picks,
              thread_id : {0} \cup Messages]

TypeInv ==
    /\ conn \in {"closed", "open", "gone"} /\ sess \in {0} \cup States
    /\ state \in [States -> StateType]
    /\ inbox \in Seq(Messages) /\ pool \in Seq(Messages)
    /\ task \in [Messages -> TaskType]
    /\ ckpt \in [Messages -> GraphType]
    /\ cards \subseteq Messages
    /\ log \subseteq [task : Messages, pick : Picks, raised : BOOLEAN]

(* The messages in q are in the given phase, and none is in q twice. *)
Queue(q, phase, tasks) ==
    /\ \A i \in 1..Len(q) : tasks[q[i]].phase = phase
    /\ \A i, j \in 1..Len(q) : q[i] = q[j] => i = j

QueueInv == Queue(inbox, "queued", task) /\ Queue(pool, "pooled", task)

(* What the handling of message m has come to. *)
TaskInv(t, m) ==
    /\ t.phase = "unsent" => t = NoTask
    /\ t.phase \in {"unsent", "queued", "pooled"} => t.graph.next = "none" /\ ~t.resume
    /\ t.phase # "unsent" => t.msg.type # "none"
    /\ t.phase \notin {"unsent", "queued", "error"} => t.thread # 0 /\ t.of # 0
    /\ t.phase \notin {"unsent", "queued"} /\ t.msg.type = "message" => t.thread = m
    /\ t.resume => t.msg.type = "approve"

TasksInv == \A m \in Messages : TaskInv(task[m], m)

(* A thread was opened by a chat message. *)
IsThread(t, tasks) == t # 0 => tasks[t].msg.type = "message"

ThreadsInv ==
    /\ \A k \in States : IsThread(state[k].thread_id, task)
    /\ \A m \in Messages : IsThread(task[m].thread, task)

Early == {"none", "interpret", "select", "chat_reply"}
Late == {"execute", "end"}

(* What the edges of the graph make of its state, given the approved picks. *)
GraphInv(g, approved) ==
    /\ g.next \in Early => g.picks = {}
    /\ g.next \notin Late => g.confirmed = {}
    /\ g.picks # {} => g.confirmed \subseteq approved

GraphsInv ==
    \A m \in Messages : GraphInv(task[m].graph, ApprovedPicks) /\ GraphInv(ckpt[m], ApprovedPicks)

(* What a run has executed, if it selected, and if it is at its end. *)
SelectedApproved ==
    \A m \in Messages : task[m].graph.picks # {} => Attempted(m) \subseteq ApprovedPicks
AllTried ==
    \A m \in Messages : task[m].graph.next = "end" => task[m].graph.confirmed \subseteq Attempted(m)
RunsGovern == SelectedApproved /\ AllTried

LogInv == \A e \in log : task[e.task].graph.next \in Late

IInv == TypeInv /\ QueueInv /\ TasksInv /\ ThreadsInv /\ GraphsInv /\ LogInv /\ RunsGovern

-----------------------------------------------------------------------------
(* The user who waits. *)

(* A message sent when every earlier one was answered. *)
CalmInv ==
    \A m \in Messages : task[m].calm /\ task[m].phase # "unsent" =>
        \A k \in 1..m-1 : Over(k)

(* Some run is executing on thread t. *)
Executing(t) ==
    \E m \in Messages : task[m].thread = t /\ At(m, "execute")

(* A checkpoint stays at execute only while a run executes on its thread,   *)
(* and only chat messages have one.                                         *)
BusyInv == \A t \in Messages : ckpt[t].next = "execute" => Executing(t)
OwnerInv == \A t \in Messages : task[t].msg.type # "message" => ckpt[t] = NoGraph

Underway == {"queued", "pooled", "running", "returned"}
Settled == {"wait_approval", "execute", "end"}

(* The checkpoint of a thread is the graph of the run that works on it;     *)
(* once its chat message has ended the thread waits or is over.             *)
CkptAt(m) ==
    /\ task[m].msg.type = "message" =>
         /\ task[m].phase \in {"running", "returned"} => ckpt[m] = task[m].graph
         /\ task[m].phase = "returned" => task[m].graph.next \in Settled
         /\ task[m].phase = "ended" =>
              ckpt[m].instructions = task[m].graph.instructions /\ ckpt[m].next \in Settled
    /\ task[m].msg.type = "approve" /\ task[m].phase = "running" =>
         ckpt[task[m].thread] = task[m].graph

(* What an approval that resumes brings is all it executes. *)
ListAt(m) ==
    task[m].graph.picks # {} => /\ task[m].graph.confirmed \subseteq task[m].msg.picks
                                /\ Attempted(m) \subseteq task[m].msg.picks

(* Every entry of q is in r. *)
Carries(q, r) == \A i \in 1..Len(q) : \E j \in 1..Len(r) : r[j] = q[i]

(* A chat message under way in the page's session knows what the session    *)
(* knows, unless it asks for a new selection.                               *)
SessionAt(m) ==
    /\ task[m].phase \in {"pooled", "running", "returned"}
    /\ task[m].msg.type = "message" /\ task[m].of = 1
    /\ task[m].msg.text # "select"
    => Carries(state[1].instructions, task[m].graph.instructions)

(* A refinement since the last new selection is known to the session.       *)
Refines(m) ==
    LET own == ckpt[m].instructions
    IN  /\ task[m].phase = "ended" /\ task[m].of = 1
        /\ own # << >> /\ own[Len(own)] = m
        /\ \A k \in m+1..MaxMessages : task[k].phase = "ended" => task[k].msg.text # "select"

Known(m) == \E i \in 1..Len(state[1].instructions) : state[1].instructions[i] = m

Accumulated == \A m \in Messages : Refines(m) => Known(m)

MessagesInv == \A m \in Messages : CkptAt(m) /\ ListAt(m) /\ SessionAt(m)

ChatInv == /\ IInv /\ CalmInv /\ BusyInv /\ OwnerInv
           /\ Calm => MessagesInv /\ Accumulated

-----------------------------------------------------------------------------
(* Queues. *)

(* The handling of message m alone has changed. *)
Only(m) == \A k \in Messages : k # m => task'[k] = task[k]

(* A queue is left alone by what m does, unless m is in it and leaves the   *)
(* phase.                                                                   *)
LEMMA QueueStays ==
    ASSUME NEW q \in Seq(Messages), NEW phase, NEW m \in Messages, Only(m), Queue(q, phase, task),
           task[m].phase # phase \/ task'[m].phase = phase
    PROVE  Queue(q, phase, task')
<1> SUFFICES ASSUME NEW i \in 1..Len(q) PROVE task'[q[i]].phase = phase
  BY DEF Queue
<1>1. q[i] \in Messages /\ task[q[i]].phase = phase
  BY DEF Queue
<1> QED BY <1>1 DEF Only

(* A message joins a queue. *)
LEMMA QueueAppends ==
    ASSUME NEW q \in Seq(Messages), NEW phase, NEW m \in Messages, Only(m), Queue(q, phase, task),
           task[m].phase # phase, task'[m].phase = phase
    PROVE  Queue(Append(q, m), phase, task')
<1> DEFINE r == Append(q, m)
<1>1. /\ r \in Seq(Messages) /\ Len(r) = Len(q) + 1 /\ r[Len(r)] = m
      /\ \A i \in 1..Len(q) : r[i] = q[i] /\ q[i] \in Messages
  OBVIOUS
<1>2. \A i \in 1..Len(q) : q[i] # m
  BY DEF Queue
<1>3. Queue(q, phase, task')
  BY QueueStays
<1> HIDE DEF r
<1>4. \A i \in 1..Len(r) : task'[r[i]].phase = phase
  BY <1>1, <1>3 DEF Queue
<1>5. ASSUME NEW i \in 1..Len(r), NEW j \in 1..Len(r), r[i] = r[j]
      PROVE  i = j
  <2>1. CASE i <= Len(q) /\ j <= Len(q)
    BY <1>1, <1>3, <1>5, <2>1 DEF Queue
  <2>2. CASE i = Len(r) /\ j <= Len(q)
    BY <1>1, <1>2, <1>5, <2>2
  <2>3. CASE i <= Len(q) /\ j = Len(r)
    BY <1>1, <1>2, <1>5, <2>3
  <2>4. CASE i = Len(r) /\ j = Len(r)
    BY <2>4
  <2> QED BY <1>1, <2>1, <2>2, <2>3, <2>4
<1>6. Queue(r, phase, task')
  BY <1>4, <1>5 DEF Queue
<1> QED BY <1>6 DEF r

(* The first message leaves a queue, and may do what it likes. *)
LEMMA QueueShrinks ==
    ASSUME NEW q \in Seq(Messages), NEW phase, NEW m \in Messages, Only(m), Queue(q, phase, task),
           q # << >>, Head(q) = m
    PROVE  Queue(Tail(q), phase, task')
<1> DEFINE r == Tail(q)
<1>1. /\ r \in Seq(Messages) /\ Len(q) > 0 /\ Len(r) = Len(q) - 1 /\ q[1] = m
      /\ \A i \in 1..Len(r) : r[i] = q[i + 1]
  OBVIOUS
<1> HIDE DEF r
<1>2. \A i \in 1..Len(r) : i + 1 \in 1..Len(q) /\ q[i + 1] \in Messages /\ 1 \in 1..Len(q)
  BY <1>1
<1>3. \A i \in 1..Len(r) : r[i] # m /\ task[r[i]].phase = phase /\ r[i] \in Messages
  BY <1>1, <1>2 DEF Queue
<1>4. \A i \in 1..Len(r) : task'[r[i]].phase = phase
  BY <1>3 DEF Only
<1>5. \A i, j \in 1..Len(r) : r[i] = r[j] => i = j
  BY <1>1, <1>2 DEF Queue
<1>6. Queue(r, phase, task')
  BY <1>4, <1>5 DEF Queue
<1> QED BY <1>6 DEF r

(* The first message of a queue is in its phase. *)
LEMMA HeadPhase ==
    ASSUME NEW q \in Seq(Messages), NEW phase, Queue(q, phase, task), q # << >>
    PROVE  Head(q) \in Messages /\ task[Head(q)].phase = phase
<1>1. 1 \in 1..Len(q) /\ q[1] = Head(q) /\ q[1] \in Messages
  OBVIOUS
<1> QED BY <1>1 DEF Queue

-----------------------------------------------------------------------------
(* What a step of one message keeps. *)

(* The approved picks only grow. *)
LEMMA ApprovedGrow ==
    ASSUME NEW m \in Messages, Only(m), TasksInv,
           task'[m].msg = task[m].msg \/ task[m].phase = "unsent"
    PROVE  ApprovedPicks \subseteq ApprovedPicks'
<1> SUFFICES ASSUME NEW a \in Messages, task[a].msg.type = "approve"
             PROVE  task'[a].msg = task[a].msg
  BY DEF ApprovedPicks, Approvals
<1> QED BY DEF Only, TasksInv, TaskInv, NoTask, NoMessage

(* What has to be shown of a step that touches message m and, it may be,    *)
(* the checkpoints.                                                         *)
LEMMA OneMoves ==
    ASSUME IInv, NEW m \in Messages, Only(m),
           task'[m].msg = task[m].msg \/ (task[m].phase = "unsent" /\ task'[m].thread = 0),
           TaskInv(task'[m], m), IsThread(task'[m].thread, task'),
           \A k \in States : state'[k].thread_id \in {state[k].thread_id, 0, task'[m].thread},
           GraphInv(task'[m].graph, ApprovedPicks'),
           \A k \in Messages : ckpt'[k] # ckpt[k] => GraphInv(ckpt'[k], ApprovedPicks'),
           task[m].graph.next \in Late => task'[m].graph.next \in Late,
           log' = log,
           task'[m].graph.next = "end" => task'[m].graph.confirmed \subseteq Attempted(m),
           task'[m].graph.picks # {} => Attempted(m) \subseteq ApprovedPicks'
    PROVE  TasksInv' /\ ThreadsInv' /\ GraphsInv' /\ LogInv' /\ RunsGovern'
<1>1. TasksInv /\ ThreadsInv /\ GraphsInv /\ LogInv /\ RunsGovern /\ TypeInv
  BY DEF IInv
<1>2. ApprovedPicks \subseteq ApprovedPicks'
  BY <1>1, ApprovedGrow
<1>3. TasksInv'
  BY <1>1 DEF TasksInv, Only
<1>4. ThreadsInv'
  <2>1. \A t \in {0} \cup Messages : IsThread(t, task) => IsThread(t, task')
    <3> SUFFICES ASSUME NEW t \in Messages, task[t].msg.type = "message"
                 PROVE  task'[t].msg.type = "message"
      BY DEF IsThread, Messages
    <3> QED BY <1>1 DEF Only, TasksInv, TaskInv, NoTask, NoMessage
  <2>2. \A k \in States : IsThread(state'[k].thread_id, task')
    BY <1>1, <2>1 DEF ThreadsInv, TypeInv, StateType, IsThread
  <2>3. \A k \in Messages : IsThread(task'[k].thread, task')
    BY <1>1, <2>1 DEF ThreadsInv, TypeInv, TaskType, Only
  <2> QED BY <2>2, <2>3 DEF ThreadsInv
<1>5. GraphsInv'
  BY <1>1, <1>2 DEF GraphsInv, GraphInv, Only
<1>6. LogInv'
  BY <1>1 DEF LogInv, TypeInv, Only
<1>7. RunsGovern'
  <2>1. \A k \in Messages : Attempted(k)' = Attempted(k)
    BY DEF Attempted
  <2>2. SelectedApproved'
    BY <1>1, <1>2, <2>1 DEF RunsGovern, SelectedApproved, Only
  <2>3. AllTried'
    BY <1>1, <2>1 DEF RunsGovern, AllTried, Only
  <2> QED BY <2>2, <2>3 DEF RunsGovern
<1> QED BY <1>3, <1>4, <1>5, <1>6, <1>7

-----------------------------------------------------------------------------
(* The steps of the page and the event loop. *)

(* The records a message starts from. *)
LEMMA Blanks ==
    /\ NoGraph \in GraphType /\ NoMessage \in MessageType /\ NoTask \in TaskType
    /\ NewState \in StateType
    /\ \A m \in Messages : PicksOf(m) \subseteq Picks
<1>1. NoGraph \in GraphType
  BY DEF NoGraph, GraphType, Nodes
<1>2. NoMessage \in MessageType
  BY DEF NoMessage, MessageType, Texts
<1>3. NoTask \in TaskType
  BY <1>1, <1>2 DEF NoTask, TaskType, Phases
<1>4. NewState \in StateType
  BY DEF NewState, StateType
<1>5. \A m \in Messages : PicksOf(m) \subseteq Picks
  BY DEF PicksOf, Picks
<1> QED BY <1>1, <1>2, <1>3, <1>4, <1>5

(* The chat begins in order. *)
LEMMA InitHolds == Init => IInv
<1> SUFFICES ASSUME Init PROVE IInv
  OBVIOUS
<1>1. TypeInv
  BY Blanks DEF Init, TypeInv
<1>2. QueueInv
  BY DEF Init, QueueInv, Queue
<1>3. TasksInv
  BY DEF Init, TasksInv, TaskInv, NoTask, NoGraph
<1>4. ThreadsInv
  BY DEF Init, ThreadsInv, IsThread, NoTask, NewState
<1>5. GraphsInv
  BY DEF Init, GraphsInv, GraphInv, NoTask, NoGraph
<1>6. LogInv
  BY DEF Init, LogInv
<1>7. RunsGovern
  BY DEF Init, RunsGovern, SelectedApproved, AllTried, Attempted, NoTask, NoGraph
<1> QED BY <1>1, <1>2, <1>3, <1>4, <1>5, <1>6, <1>7 DEF IInv

(* A message arrives. *)
LEMMA ReceiveKeeps ==
    ASSUME IInv, NEW m \in Messages, NEW msg \in MessageType, msg.type # "none",
           Receive(m, msg), UNCHANGED <<conn, sess, state, pool, ckpt, log>>, cards' \subseteq cards
    PROVE  IInv'
<1>1. TypeInv /\ QueueInv /\ TasksInv /\ ThreadsInv /\ GraphsInv /\ LogInv /\ RunsGovern
  BY DEF IInv
<1>2. task[m] = NoTask /\ task[m].phase = "unsent"
  BY <1>1 DEF Receive, TasksInv, TaskInv
<1>3. /\ Only(m) /\ task' \in [Messages -> TaskType]
      /\ task'[m] = [NoTask EXCEPT !.msg = msg, !.phase = "queued", !.calm = Idle]
  <2>1. Idle \in BOOLEAN
    BY DEF Idle
  <2>2. [NoTask EXCEPT !.msg = msg, !.phase = "queued", !.calm = Idle] \in TaskType
    BY <2>1, Blanks DEF TaskType, Phases
  <2> QED BY <1>1, <1>2, <2>2 DEF Receive, TypeInv, Only
<1>4. TypeInv'
  BY <1>1, <1>3 DEF TypeInv, Receive
<1>5. QueueInv'
  <2>1. Queue(inbox', "queued", task')
    BY <1>1, <1>2, <1>3, QueueAppends DEF QueueInv, TypeInv, Receive, NoTask
  <2>2. Queue(pool', "pooled", task')
    BY <1>1, <1>2, <1>3, QueueStays DEF QueueInv, TypeInv
  <2> QED BY <2>1, <2>2 DEF QueueInv
<1>6. TaskInv(task'[m], m) /\ task'[m].thread = 0 /\ task'[m].graph = NoGraph
  BY <1>3 DEF TaskInv, NoTask, NoGraph
<1>7. /\ GraphInv(task'[m].graph, ApprovedPicks') /\ task'[m].graph.next \notin Late
      /\ task'[m].graph.picks = {} /\ task[m].graph.next \notin Late
  BY <1>2, <1>6 DEF GraphInv, NoGraph, Late, NoTask
<1>8. TasksInv' /\ ThreadsInv' /\ GraphsInv' /\ LogInv' /\ RunsGovern'
  BY <1>2, <1>3, <1>6, <1>7, OneMoves DEF IsThread, Late
<1> QED BY <1>4, <1>5, <1>8 DEF IInv

(* The page sends a message or an approval. *)
LEMMA PageKeeps == ASSUME IInv, NEW m \in Messages, Page(m) PROVE IInv'
<1>1. ASSUME NEW text \in Texts, NEW account \in Filled[m], SendText(m, text, account)
      PROVE  IInv'
  <2> DEFINE msg == [NoMessage EXCEPT !.type = "message", !.text = text, !.account = account]
  <2>1. msg \in MessageType /\ msg.type # "none"
    BY ChatAssumption, Blanks DEF MessageType, Messages
  <2> QED BY <1>1, <2>1, ReceiveKeeps DEF SendText
<1>2. ASSUME NEW c \in cards, NEW picks \in SUBSET PicksOf(c), SendApprove(m, c, picks)
      PROVE  IInv'
  <2> DEFINE msg == [NoMessage EXCEPT !.type = "approve", !.picks = picks]
  <2>1. picks \subseteq Picks
    BY Blanks DEF IInv, TypeInv
  <2>2. msg \in MessageType /\ msg.type # "none"
    BY <2>1, Blanks DEF MessageType
  <2> QED BY <1>2, <2>2, ReceiveKeeps DEF SendApprove
<1> QED BY <1>1, <1>2 DEF Page

(* A task of the event loop takes the first message up. *)
LEMMA HandlingStarts ==
    ASSUME IInv, NEW m \in Messages, Handled(m)
    PROVE  /\ task[m].phase = "queued" /\ Session \in States
           /\ task[m].graph.next = "none" /\ ~task[m].resume
           /\ task[m].graph.picks = {} /\ task[m].graph.confirmed = {}
           /\ task[m] \in TaskType /\ state[Session] \in StateType
           /\ inbox' \in Seq(Messages) /\ sess' \in States
<1>1. TypeInv /\ QueueInv /\ TasksInv /\ GraphsInv
  BY DEF IInv
<1>2. task[m].phase = "queued"
  BY <1>1, HeadPhase DEF Handled, QueueInv, TypeInv
<1>3. Session \in States
  BY <1>1 DEF Session, TypeInv, States
<1>4. task[m].graph.next = "none" /\ ~task[m].resume
  BY <1>1, <1>2 DEF TasksInv, TaskInv
<1>5. task[m].graph.picks = {} /\ task[m].graph.confirmed = {}
  BY <1>1, <1>4 DEF GraphsInv, GraphInv, Early, Late
<1> QED BY <1>1, <1>2, <1>3, <1>4, <1>5 DEF TypeInv, Handled

LEMMA HandleMessageKeeps == ASSUME IInv, NEW m \in Messages, HandleMessage(m) PROVE IInv'
<1> DEFINE k == Session
           account == state[k].account \/ task[m].msg.account
<1>1. TypeInv /\ QueueInv /\ TasksInv /\ ThreadsInv /\ GraphsInv /\ LogInv /\ RunsGovern
  BY DEF IInv
<1>2. /\ task[m].phase = "queued" /\ k \in States
      /\ task[m].graph.next = "none" /\ ~task[m].resume
      /\ task[m].graph.picks = {} /\ task[m].graph.confirmed = {}
      /\ task[m] \in TaskType /\ state[k] \in StateType
      /\ inbox' \in Seq(Messages) /\ sess' \in States
  BY HandlingStarts DEF HandleMessage
<1> DEFINE t == [task[m] EXCEPT !.phase = IF account THEN "pooled" ELSE "error",
                                !.of = k, !.thread = m,
                                !.graph = [task[m].graph EXCEPT
                                              !.instructions = state[k].instructions,
                                              !.pending = state[k].last_picks]]
<1>3. account \in BOOLEAN
  BY <1>2 DEF StateType, TaskType, MessageType
<1>4. task' = [task EXCEPT ![m] = t]
  BY <1>1 DEF HandleMessage, TypeInv
<1>5. t \in TaskType
  <2>1. [task[m].graph EXCEPT !.instructions = state[k].instructions,
                              !.pending = state[k].last_picks] \in GraphType
    BY <1>2 DEF TaskType, GraphType, StateType
  <2> QED BY <1>2, <2>1 DEF TaskType, Phases
<1>6. Only(m) /\ task'[m] = t /\ task' \in [Messages -> TaskType]
  BY <1>1, <1>4, <1>5 DEF Only, TypeInv
<1>7. /\ t.msg = task[m].msg /\ t.msg.type = "message" /\ t.thread = m /\ t.of = k /\ ~t.resume
      /\ t.phase = (IF account THEN "pooled" ELSE "error")
      /\ t.graph.next = "none" /\ t.graph.picks = {} /\ t.graph.confirmed = {}
  BY <1>2 DEF HandleMessage, TaskType, GraphType
<1> HIDE DEF t
<1>8. TypeInv'
  <2>1. state' \in [States -> StateType]
    BY <1>1, <1>2, <1>3 DEF HandleMessage, TypeInv, StateType
  <2>2. pool' \in Seq(Messages)
    BY <1>1 DEF HandleMessage, TypeInv
  <2> QED BY <1>1, <1>2, <1>6, <2>1, <2>2 DEF HandleMessage, TypeInv
<1>9. QueueInv'
  <2>1. Queue(inbox', "queued", task')
    BY <1>1, <1>6, QueueShrinks DEF HandleMessage, Handled, QueueInv, TypeInv
  <2>2. Queue(pool', "pooled", task')
    <3>1. CASE account
      <4>1. task'[m].phase = "pooled" /\ pool' = Append(pool, m)
        BY <1>6, <1>7, <3>1 DEF HandleMessage
      <4> QED BY <1>1, <1>2, <1>6, <4>1, QueueAppends DEF QueueInv, TypeInv
    <3>2. CASE ~account
      BY <1>1, <1>2, <1>6, <3>2, QueueStays DEF HandleMessage, QueueInv, TypeInv
    <3> QED BY <3>1, <3>2
  <2> QED BY <2>1, <2>2 DEF QueueInv
<1>10. TaskInv(t, m)
  BY <1>2, <1>7 DEF TaskInv, States, Messages
<1>11. \A j \in States : state'[j].thread_id \in {state[j].thread_id, t.thread}
  BY <1>1, <1>7 DEF HandleMessage, TypeInv, StateType
<1>12. GraphInv(t.graph, ApprovedPicks')
  BY <1>7 DEF GraphInv
<1>13. TasksInv' /\ ThreadsInv' /\ GraphsInv' /\ LogInv' /\ RunsGovern'
  BY <1>2, <1>6, <1>7, <1>10, <1>11, <1>12, OneMoves, ZenonT(40) DEF HandleMessage, IsThread, Late
<1> QED BY <1>8, <1>9, <1>13 DEF IInv

LEMMA HandleApproveKeeps == ASSUME IInv, NEW m \in Messages, HandleApprove(m) PROVE IInv'
<1> DEFINE k == Session
           known == state[k].thread_id # 0
           t == [task[m] EXCEPT !.phase = IF known THEN "pooled" ELSE "error",
                                !.of = k, !.thread = state[k].thread_id]
<1>1. TypeInv /\ QueueInv /\ TasksInv /\ ThreadsInv /\ GraphsInv /\ LogInv /\ RunsGovern
  BY DEF IInv
<1>2. /\ task[m].phase = "queued" /\ k \in States
      /\ task[m].graph.next = "none" /\ ~task[m].resume
      /\ task[m].graph.picks = {} /\ task[m].graph.confirmed = {}
      /\ task[m] \in TaskType /\ state[k] \in StateType
      /\ inbox' \in Seq(Messages) /\ sess' \in States
  BY HandlingStarts DEF HandleApprove
<1>3. task' = [task EXCEPT ![m] = t]
  BY <1>1 DEF HandleApprove, TypeInv
<1>4. t \in TaskType
  BY <1>2 DEF TaskType, StateType, Phases
<1>5. Only(m) /\ task'[m] = t /\ task' \in [Messages -> TaskType]
  BY <1>1, <1>3, <1>4 DEF Only, TypeInv
<1>6. /\ t.msg = task[m].msg /\ t.msg.type = "approve" /\ t.thread = state[k].thread_id
      /\ t.of = k /\ ~t.resume /\ t.graph = task[m].graph
      /\ t.phase = (IF known THEN "pooled" ELSE "error")
  BY <1>2 DEF HandleApprove, TaskType
<1> HIDE DEF t
<1>7. TypeInv'
  <2>1. pool' \in Seq(Messages)
    BY <1>1 DEF HandleApprove, TypeInv
  <2> QED BY <1>1, <1>2, <1>5, <2>1 DEF HandleApprove, TypeInv
<1>8. QueueInv'
  <2>1. Queue(inbox', "queued", task')
    BY <1>1, <1>5, QueueShrinks DEF HandleApprove, Handled, QueueInv, TypeInv
  <2>2. Queue(pool', "pooled", task')
    <3>1. CASE known
      BY <1>1, <1>2, <1>5, <1>6, <3>1, QueueAppends DEF HandleApprove, QueueInv, TypeInv
    <3>2. CASE ~known
      BY <1>1, <1>2, <1>5, <3>2, QueueStays DEF HandleApprove, QueueInv, TypeInv
    <3> QED BY <3>1, <3>2
  <2> QED BY <2>1, <2>2 DEF QueueInv
<1>9. TaskInv(t, m)
  BY <1>2, <1>6 DEF TaskInv, States
<1>10. IsThread(t.thread, task')
  <2>1. IsThread(t.thread, task)
    BY <1>1, <1>2, <1>6 DEF ThreadsInv
  <2>2. t.thread \in {0} \cup Messages
    BY <1>2, <1>6 DEF StateType
  <2> QED BY <1>5, <1>6, <2>1, <2>2 DEF IsThread, Only
<1>11. GraphInv(t.graph, ApprovedPicks')
  BY <1>2, <1>6 DEF GraphInv
<1>12. TasksInv' /\ ThreadsInv' /\ GraphsInv' /\ LogInv' /\ RunsGovern'
  BY <1>2, <1>5, <1>6, <1>9, <1>10, <1>11, OneMoves DEF HandleApprove, Late
<1> QED BY <1>7, <1>8, <1>12 DEF IInv

-----------------------------------------------------------------------------
(* The steps of the graph. *)

(* What Save does. *)
LEMMA SaveEffect ==
    ASSUME TypeInv, NEW m \in Messages, NEW g \in GraphType, NEW ph \in Phases, Save(m, g, ph)
    PROVE  /\ Only(m) /\ task' \in [Messages -> TaskType]
           /\ task'[m] = [task[m] EXCEPT !.graph = g, !.phase = ph, !.resume = FALSE]
           /\ task'[m].graph = g /\ task'[m].phase = ph /\ ~task'[m].resume
           /\ task'[m].msg = task[m].msg /\ task'[m].of = task[m].of
           /\ task'[m].thread = task[m].thread /\ task'[m].calm = task[m].calm
           /\ ckpt' \in [Messages -> GraphType]
           /\ \A t \in Messages : ckpt'[t] = IF t = task[m].thread THEN g ELSE ckpt[t]
<1>1. task \in [Messages -> TaskType] /\ task[m] \in TaskType /\ ckpt \in [Messages -> GraphType]
  BY DEF TypeInv
<1> DEFINE t == [task[m] EXCEPT !.graph = g, !.phase = ph, !.resume = FALSE]
<1>2. /\ t \in TaskType /\ t.graph = g /\ t.phase = ph /\ ~t.resume
      /\ t.msg = task[m].msg /\ t.of = task[m].of
      /\ t.thread = task[m].thread /\ t.calm = task[m].calm
  BY <1>1 DEF TaskType
<1>3. task' = [task EXCEPT ![m] = t]
  BY <1>1 DEF Save
<1> HIDE DEF t
<1>4. Only(m) /\ task' \in [Messages -> TaskType] /\ task'[m] = t
  BY <1>1, <1>2, <1>3 DEF Only
<1>5. /\ ckpt' \in [Messages -> GraphType]
      /\ \A k \in Messages : ckpt'[k] = IF k = task[m].thread THEN g ELSE ckpt[k]
  BY <1>1 DEF Save
<1> QED BY <1>2, <1>4, <1>5 DEF t

(* A run that saves a state the edges allow. *)
LEMMA SaveKeeps ==
    ASSUME IInv, NEW m \in Messages, NEW g \in GraphType, NEW ph \in {"running", "returned"},
           Save(m, g, ph), task[m].phase \in {"pooled", "running"},
           GraphInv(g, ApprovedPicks), task[m].graph.next \in Late => g.next \in Late,
           g.next = "end" => g.confirmed \subseteq Attempted(m),
           g.picks # {} => Attempted(m) \subseteq ApprovedPicks,
           UNCHANGED <<conn, sess, state, inbox, log>>, cards' \subseteq Messages,
           pool' \in Seq(Messages), Queue(pool', "pooled", task')
    PROVE  IInv'
<1>1. TypeInv /\ QueueInv /\ TasksInv /\ ThreadsInv
  BY DEF IInv
<1>2. /\ Only(m) /\ task' \in [Messages -> TaskType]
      /\ task'[m].graph = g /\ task'[m].phase = ph /\ ~task'[m].resume
      /\ task'[m].msg = task[m].msg /\ task'[m].of = task[m].of
      /\ task'[m].thread = task[m].thread
      /\ ckpt' \in [Messages -> GraphType]
      /\ \A t \in Messages : ckpt'[t] = IF t = task[m].thread THEN g ELSE ckpt[t]
  <2>1. ph \in Phases
    BY DEF Phases
  <2>2. TypeInv /\ Save(m, g, ph)
    BY <1>1
  <2>3. /\ Only(m) /\ task' \in [Messages -> TaskType]
        /\ task'[m] = [task[m] EXCEPT !.graph = g, !.phase = ph, !.resume = FALSE]
        /\ task'[m].graph = g /\ task'[m].phase = ph /\ ~task'[m].resume
        /\ task'[m].msg = task[m].msg /\ task'[m].of = task[m].of
        /\ task'[m].thread = task[m].thread /\ task'[m].calm = task[m].calm
        /\ ckpt' \in [Messages -> GraphType]
        /\ \A t \in Messages : ckpt'[t] = IF t = task[m].thread THEN g ELSE ckpt[t]
    BY ONLY <2>1, <2>2, SaveEffect, m \in Messages, g \in GraphType, ZenonT(40)
  <2> QED BY ONLY <2>3, Zenon
<1>3. TypeInv'
  BY <1>1, <1>2 DEF TypeInv
<1>4. QueueInv'
  BY <1>1, <1>2, QueueStays DEF QueueInv, TypeInv
<1>5. TaskInv(task'[m], m)
  BY <1>1, <1>2 DEF TasksInv, TaskInv
<1>6. IsThread(task'[m].thread, task')
  BY <1>1, <1>2 DEF ThreadsInv, IsThread, Only, TypeInv, TaskType
<1>7. GraphInv(g, ApprovedPicks') /\ (g.picks # {} => Attempted(m) \subseteq ApprovedPicks')
  BY <1>1, <1>2, ApprovedGrow DEF GraphInv
<1>8. \A k \in Messages : ckpt'[k] # ckpt[k] => ckpt'[k] = g
  BY <1>2
<1>9. TasksInv' /\ ThreadsInv' /\ GraphsInv' /\ LogInv' /\ RunsGovern'
  BY <1>2, <1>5, <1>6, <1>7, <1>8, OneMoves
<1> QED BY <1>3, <1>4, <1>9 DEF IInv

(* A run before execute has executed nothing. *)
LEMMA NothingYet ==
    ASSUME IInv, NEW m \in Messages, task[m].graph.next \notin Late
    PROVE  Attempted(m) = {}
BY DEF IInv, LogInv, Attempted

(* A step that changes the phase of m, its graph for the one of a           *)
(* checkpoint, or neither.                                                  *)
LEMMA PhaseKeeps ==
    ASSUME IInv, NEW m \in Messages, Only(m), task' \in [Messages -> TaskType],
           task'[m].phase \in {"running", "returned", "ended", "error"},
           task[m].phase \in {"pooled", "running", "returned"},
           task'[m].msg = task[m].msg, task'[m].of = task[m].of,
           task'[m].thread = task[m].thread,
           task'[m].resume => task[m].msg.type = "approve",
           \/ task'[m].graph = task[m].graph
           \/ /\ task[m].phase = "pooled" /\ task'[m].graph.next # "end"
              /\ \E t \in Messages : task'[m].graph = ckpt[t],
           UNCHANGED <<conn, sess, inbox, ckpt, log>>, cards' \subseteq Messages,
           state' \in [States -> StateType],
           \A k \in States : state'[k].thread_id = state[k].thread_id,
           pool' \in Seq(Messages), Queue(pool', "pooled", task')
    PROVE  IInv'
<1>1. TypeInv /\ QueueInv /\ TasksInv /\ ThreadsInv /\ GraphsInv /\ RunsGovern
  BY DEF IInv
<1>2. TypeInv'
  BY <1>1 DEF TypeInv
<1>3. QueueInv'
  BY <1>1, QueueStays DEF QueueInv, TypeInv
<1>4. TaskInv(task'[m], m)
  BY <1>1 DEF TasksInv, TaskInv
<1>5. IsThread(task'[m].thread, task')
  BY <1>1 DEF ThreadsInv, IsThread, Only, TypeInv, TaskType
<1>6. ApprovedPicks \subseteq ApprovedPicks'
  BY <1>1, ApprovedGrow
<1>7. GraphInv(task'[m].graph, ApprovedPicks')
  BY <1>1, <1>6 DEF GraphsInv, GraphInv
<1>8. task[m].phase = "pooled" => task[m].graph.next \notin Late
  BY <1>1 DEF TasksInv, TaskInv, Late
<1>9. task'[m].graph.next = "end" => task'[m].graph.confirmed \subseteq Attempted(m)
  BY <1>1 DEF RunsGovern, AllTried
<1>10. task'[m].graph.picks # {} => Attempted(m) \subseteq ApprovedPicks'
  BY <1>1, <1>6, <1>8, NothingYet DEF RunsGovern, SelectedApproved
<1>11. TasksInv' /\ ThreadsInv' /\ GraphsInv' /\ LogInv' /\ RunsGovern'
  BY <1>4, <1>5, <1>7, <1>8, <1>9, <1>10, OneMoves
<1> QED BY <1>2, <1>3, <1>11 DEF IInv

(* A run at a node of the graph. *)
LEMMA NodeFacts ==
    ASSUME IInv, NEW m \in Messages, NEW node, At(m, node)
    PROVE  /\ task[m] \in TaskType /\ task[m].graph \in GraphType
           /\ task[m].phase = "running" /\ task[m].graph.next = node
           /\ task[m].thread \in Messages /\ task[m].of \in States
           /\ GraphInv(task[m].graph, ApprovedPicks)
           /\ pool \in Seq(Messages) /\ cards \subseteq Messages
<1>1. TypeInv /\ TasksInv /\ GraphsInv
  BY DEF IInv
<1>2. task[m] \in TaskType /\ task[m].phase = "running" /\ task[m].graph.next = node
  BY <1>1 DEF TypeInv, At
<1>3. task[m].thread # 0 /\ task[m].of # 0
  BY <1>1, <1>2 DEF TasksInv, TaskInv
<1> QED BY <1>1, <1>2, <1>3 DEF TaskType, GraphsInv, TypeInv

(* The first piece of work in the pool is started. *)
LEMMA WorkStarts ==
    ASSUME IInv, NEW m \in Messages, StartsNext(m)
    PROVE  /\ task[m].phase = "pooled" /\ task[m].graph.next = "none"
           /\ task[m] \in TaskType /\ task[m].graph \in GraphType
           /\ task[m].thread \in Messages /\ task[m].of \in States
           /\ task[m].msg.type = "message" => task[m].thread = m
           /\ task[m].graph.picks = {} /\ task[m].graph.confirmed = {}
           /\ Attempted(m) = {}
           /\ pool' \in Seq(Messages) /\ cards \subseteq Messages
           /\ Only(m) => Queue(pool', "pooled", task')
<1>1. TypeInv /\ QueueInv /\ TasksInv /\ GraphsInv
  BY DEF IInv
<1>2. task[m].phase = "pooled" /\ task[m] \in TaskType
  BY <1>1, HeadPhase DEF StartsNext, QueueInv, TypeInv
<1>3. /\ task[m].graph.next = "none" /\ task[m].thread # 0 /\ task[m].of # 0
      /\ task[m].msg.type = "message" => task[m].thread = m
  BY <1>1, <1>2 DEF TasksInv, TaskInv
<1>4. /\ task[m].graph \in GraphType /\ task[m].thread \in Messages /\ task[m].of \in States
      /\ task[m].graph.picks = {} /\ task[m].graph.confirmed = {}
  BY <1>1, <1>2, <1>3 DEF TaskType, GraphsInv, GraphInv, Early, Late
<1>5. Attempted(m) = {}
  BY <1>3, NothingYet DEF Late
<1>6. pool' \in Seq(Messages) /\ cards \subseteq Messages
  BY <1>1 DEF StartsNext, TypeInv
<1>7. Only(m) => Queue(pool', "pooled", task')
  BY <1>1, QueueShrinks DEF StartsNext, QueueInv, TypeInv
<1> QED BY <1>2, <1>3, <1>4, <1>5, <1>6, <1>7

LEMMA RunStartsKeeps == ASSUME IInv, NEW m \in Messages, RunStarts(m) PROVE IInv'
<1> DEFINE g == [task[m].graph EXCEPT !.next = "interpret"]
<1>1. /\ StartsNext(m) /\ Save(m, g, "running")
      /\ UNCHANGED <<conn, sess, state, inbox, cards, log>>
  BY DEF RunStarts
<1>2. TypeInv /\ task[m].phase = "pooled" /\ task[m].graph \in GraphType
  BY <1>1, WorkStarts DEF IInv
<1>3. g \in GraphType /\ g.next = "interpret" /\ g.picks = {} /\ g.confirmed = {}
  <2>1. task[m].graph.picks = {} /\ task[m].graph.confirmed = {}
    BY <1>1, WorkStarts
  <2> QED BY <1>2, <2>1 DEF GraphType, Nodes
<1> HIDE DEF g
<1>4. Only(m)
  BY <1>1, <1>2, <1>3, SaveEffect DEF Phases
<1>5. /\ pool' \in Seq(Messages) /\ Queue(pool', "pooled", task') /\ cards' \subseteq Messages
      /\ task[m].graph.next \notin Late
  BY <1>1, <1>4, WorkStarts DEF Late
<1>6. GraphInv(g, ApprovedPicks)
  BY <1>3 DEF GraphInv
<1> QED BY <1>1, <1>2, <1>3, <1>5, <1>6, SaveKeeps

LEMMA ResumeStartsKeeps == ASSUME IInv, NEW m \in Messages, ResumeStarts(m) PROVE IInv'
<1> DEFINE g == ckpt[task[m].thread]
<1>1. StartsNext(m) /\ task[m].msg.type = "approve"
  BY DEF ResumeStarts
<1>2. /\ task[m].phase = "pooled" /\ task[m] \in TaskType /\ task[m].thread \in Messages
      /\ pool' \in Seq(Messages)
      /\ Only(m) => Queue(pool', "pooled", task')
  BY <1>1, WorkStarts
<1>3. TypeInv /\ g \in GraphType
  BY <1>2 DEF IInv, TypeInv
<1>4. /\ Only(m) /\ task' \in [Messages -> TaskType]
      /\ task'[m].phase \in {"running", "returned"}
      /\ task'[m].msg = task[m].msg /\ task'[m].of = task[m].of /\ task'[m].thread = task[m].thread
      /\ task'[m].graph = task[m].graph \/ (g.next # "end" /\ task'[m].graph = g)
  <2>1. CASE g.next = "end"
    <3> DEFINE t == [task[m] EXCEPT !.phase = "returned"]
    <3>1. task' = [task EXCEPT ![m] = t]
      BY <1>3, <2>1 DEF ResumeStarts, TypeInv
    <3>2. t \in TaskType
      BY <1>2 DEF TaskType, Phases
    <3>3. /\ t.phase = "returned" /\ t.msg = task[m].msg /\ t.of = task[m].of
          /\ t.thread = task[m].thread /\ t.graph = task[m].graph
      BY <1>2 DEF TaskType
    <3> HIDE DEF t
    <3> QED BY <1>3, <3>1, <3>2, <3>3 DEF TypeInv, Only
  <2>2. CASE g.next # "end"
    <3> DEFINE t == [task[m] EXCEPT !.phase = "running", !.graph = g,
                                    !.resume = (g.next = "wait_approval")]
    <3>1. task' = [task EXCEPT ![m] = t]
      BY <1>3, <2>2 DEF ResumeStarts, TypeInv
    <3>2. t \in TaskType
      BY <1>2, <1>3 DEF TaskType, Phases
    <3>3. /\ t.phase = "running" /\ t.msg = task[m].msg /\ t.of = task[m].of
          /\ t.thread = task[m].thread /\ t.graph = g
      BY <1>2 DEF TaskType
    <3> HIDE DEF t
    <3> QED BY <1>3, <2>2, <3>1, <3>2, <3>3 DEF TypeInv, Only
  <2> QED BY <2>1, <2>2
<1>5. /\ UNCHANGED <<conn, sess, state, inbox, ckpt, cards, log>>
      /\ cards' \subseteq Messages /\ state' \in [States -> StateType]
  BY <1>3 DEF ResumeStarts, TypeInv
<1>6. \/ task'[m].graph = task[m].graph
      \/ /\ task[m].phase = "pooled" /\ task'[m].graph.next # "end"
         /\ \E t \in Messages : task'[m].graph = ckpt[t]
  BY <1>2, <1>4
<1>7. /\ task'[m].phase \in {"running", "returned", "ended", "error"}
      /\ task'[m].resume => task[m].msg.type = "approve"
      /\ \A k \in States : state'[k].thread_id = state[k].thread_id
  BY <1>1, <1>4, <1>5
<1> HIDE DEF g
<1> QED BY <1>2, <1>4, <1>5, <1>6, <1>7, PhaseKeeps

(* What _interpret may make of a text. *)
Interpreted(h, text, t, g) ==
  /\ h \in GraphType /\ h.next \in {"select", "chat_reply", "execute"}
  /\ h.picks = g.picks
  /\ h.confirmed = IF h.next = "execute" THEN g.pending ELSE g.confirmed
  /\ \/ h.instructions = g.instructions
     \/ h.instructions = Append(g.instructions, t)
     \/ text = "select" /\ h.instructions = << >>

LEMMA InterpretFacts ==
    ASSUME NEW g \in GraphType, NEW text \in Texts, NEW t \in Messages,
           NEW h \in InterpretText(text, t, g)
    PROVE  Interpreted(h, text, t, g)
<1> DEFINE order  == [g EXCEPT !.next = "execute", !.confirmed = g.pending]
           select == [g EXCEPT !.next = "select", !.instructions = << >>]
           refine == [g EXCEPT !.next = "select", !.instructions = Append(g.instructions, t)]
           chat   == [g EXCEPT !.next = "chat_reply"]
<1>1. h \in {order, refine, chat} \/ (text = "select" /\ h = select)
  BY DEF InterpretText, Texts
<1>2. Append(g.instructions, t) \in Seq(Messages) /\ << >> \in Seq(Messages)
  BY DEF GraphType
<1>3. CASE h = order
  BY <1>3 DEF GraphType, Nodes, Interpreted
<1>4. CASE h = refine
  BY <1>2, <1>4 DEF GraphType, Nodes, Interpreted
<1>5. CASE h = chat
  BY <1>5 DEF GraphType, Nodes, Interpreted
<1>6. CASE text = "select" /\ h = select
  BY <1>2, <1>6 DEF GraphType, Nodes, Interpreted
<1> QED BY <1>1, <1>3, <1>4, <1>5, <1>6

LEMMA InterpretKeeps == ASSUME IInv, NEW m \in Messages, Interpret(m) PROVE IInv'
<1>1. At(m, "interpret") /\ UNCHANGED <<conn, sess, state, inbox, pool, cards, log>>
  BY DEF Interpret
<1>2. /\ TypeInv /\ QueueInv /\ task[m].thread \in Messages /\ task[m].graph \in GraphType
      /\ task[m].phase = "running" /\ task[m].graph.next = "interpret"
      /\ GraphInv(task[m].graph, ApprovedPicks)
  BY <1>1, NodeFacts DEF IInv
<1>3. task[task[m].thread].msg.text \in Texts
  BY <1>2 DEF TypeInv, TaskType, MessageType
<1>4. PICK g \in InterpretText(task[task[m].thread].msg.text, task[m].thread, task[m].graph) :
         Save(m, g, "running")
  BY DEF Interpret
<1>5. /\ g \in GraphType /\ g.next \in {"select", "chat_reply", "execute"}
      /\ g.picks = task[m].graph.picks
      /\ g.confirmed = IF g.next = "execute" THEN task[m].graph.pending
                                             ELSE task[m].graph.confirmed
  BY <1>2, <1>3, InterpretFacts DEF Interpreted
<1>6. g.picks = {} /\ GraphInv(g, ApprovedPicks)
  BY <1>2, <1>5 DEF GraphInv, Early, Late
<1>7. Only(m)
  BY <1>2, <1>4, <1>5, SaveEffect DEF Phases
<1>8. Queue(pool', "pooled", task') /\ pool' \in Seq(Messages) /\ cards' \subseteq Messages
  BY <1>1, <1>2, <1>7, QueueStays DEF QueueInv, TypeInv
<1> QED BY <1>1, <1>2, <1>4, <1>5, <1>6, <1>8, SaveKeeps DEF Late

LEMMA SelectKeeps == ASSUME IInv, NEW m \in Messages, Select(m) PROVE IInv'
<1>1. At(m, "select") /\ UNCHANGED <<conn, sess, state, inbox, pool, log>>
  BY DEF Select
<1>2. /\ TypeInv /\ QueueInv /\ task[m].graph \in GraphType
      /\ task[m].phase = "running" /\ task[m].graph.next = "select"
      /\ GraphInv(task[m].graph, ApprovedPicks)
  BY <1>1, NodeFacts DEF IInv
<1>3. PICK picks \in {PicksOf(m), {}} :
         /\ Save(m, Selected(task[m].graph, picks),
                 IF Selected(task[m].graph, picks).next = "end" THEN "returned" ELSE "running")
         /\ cards' = IF picks # {} /\ conn = "open" THEN cards \cup {m} ELSE cards
  BY DEF Select
<1> DEFINE g == Selected(task[m].graph, picks)
           ph == IF g.next = "end" THEN "returned" ELSE "running"
<1>4. /\ g \in GraphType /\ g.picks = picks /\ g.confirmed = {}
      /\ g.next \in {"end", "wait_approval"}
      /\ g.picks # {} => g.next = "wait_approval"
  <2>1. picks \subseteq Picks /\ task[m].graph.confirmed = {}
    BY <1>2, Blanks DEF GraphInv, Late
  <2> QED BY <1>2, <2>1 DEF Selected, GraphType, Nodes
<1>5. ph \in {"running", "returned"} /\ Save(m, g, ph)
  BY <1>3
<1> HIDE DEF g, ph
<1>6. GraphInv(g, ApprovedPicks)
  BY <1>4 DEF GraphInv, Early, Late
<1>7. Attempted(m) = {} /\ task[m].graph.next \notin Late
  BY <1>2, NothingYet DEF Late
<1>8. Only(m)
  <2>1. ph \in Phases
    BY <1>5 DEF Phases
  <2> QED BY <1>2, <1>4, <1>5, <2>1, SaveEffect
<1>9. Queue(pool', "pooled", task') /\ pool' \in Seq(Messages) /\ cards' \subseteq Messages
  BY <1>1, <1>2, <1>3, <1>8, QueueStays DEF QueueInv, TypeInv
<1> QED BY <1>1, <1>2, <1>4, <1>5, <1>6, <1>7, <1>9, SaveKeeps

(* A step that changes a phase only. *)
LEMMA PhaseOnlyKeeps ==
    ASSUME IInv, NEW m \in Messages, NEW ph \in {"returned", "ended", "error"},
           task[m].phase \in {"running", "returned"},
           task' = [task EXCEPT ![m].phase = ph],
           state' \in [States -> StateType],
           \A k \in States : state'[k].thread_id = state[k].thread_id,
           UNCHANGED <<conn, sess, inbox, pool, ckpt, cards, log>>
    PROVE  IInv'
<1>1. TypeInv /\ QueueInv /\ TasksInv /\ task[m] \in TaskType
  BY DEF IInv, TypeInv
<1> DEFINE t == [task[m] EXCEPT !.phase = ph]
<1>2. t \in TaskType
  BY <1>1 DEF TaskType, Phases
<1>3. /\ t.phase = ph /\ t.msg = task[m].msg /\ t.of = task[m].of
      /\ t.thread = task[m].thread /\ t.graph = task[m].graph /\ t.resume = task[m].resume
  BY <1>1 DEF TaskType
<1>4. task' = [task EXCEPT ![m] = t]
  BY <1>1 DEF TypeInv
<1> HIDE DEF t
<1>5. Only(m) /\ task' \in [Messages -> TaskType] /\ task'[m] = t
  BY <1>1, <1>2, <1>4 DEF TypeInv, Only
<1>6. Queue(pool', "pooled", task') /\ pool' \in Seq(Messages) /\ cards' \subseteq Messages
  BY <1>1, <1>5, QueueStays DEF QueueInv, TypeInv
<1>7. t.resume => task[m].msg.type = "approve"
  BY <1>1, <1>3 DEF TasksInv, TaskInv
<1> QED BY <1>3, <1>5, <1>6, <1>7, PhaseKeeps

LEMMA HandlerEndsKeeps == ASSUME IInv, NEW m \in Messages, HandlerEnds(m) PROVE IInv'
<1>1. TypeInv /\ task[m] \in TaskType /\ task[m].phase = "returned"
  BY DEF IInv, TypeInv, HandlerEnds
<1>2. state' \in [States -> StateType] /\ \A k \in States : state'[k].thread_id = state[k].thread_id
  <2> DEFINE g == task[m].graph
             k == task[m].of
  <2>1. g \in GraphType /\ k \in {0} \cup States
    BY <1>1 DEF TaskType
  <2>2. \/ state' = state
        \/ state' = [state EXCEPT ![k].instructions = g.instructions,
                                  ![k].last_picks = IF g.picks = {} THEN state[k].last_picks
                                                                     ELSE g.picks]
    BY <1>1 DEF HandlerEnds, TypeInv, States
  <2> DEFINE p == IF g.picks = {} THEN state[k].last_picks ELSE g.picks
             i == g.instructions
  <2>3. CASE k = 0
    BY <1>1, <2>2, <2>3 DEF TypeInv, States
  <2>4. CASE k \in States
    <3>1. i \in Seq(Messages) /\ p \subseteq Picks
      BY <1>1, <2>1, <2>4 DEF GraphType, TypeInv, StateType
    <3>2. \/ state' = state
          \/ state' = [state EXCEPT ![k].instructions = i, ![k].last_picks = p]
      BY <2>2
    <3> HIDE DEF i, p, g, k
    <3> DEFINE r == [state[k] EXCEPT !.instructions = i, !.last_picks = p]
    <3>3. r \in StateType /\ r.thread_id = state[k].thread_id
      BY <1>1, <2>4, <3>1 DEF TypeInv, StateType
    <3>4. state' = state \/ state' = [state EXCEPT ![k] = r]
      BY <1>1, <2>4, <3>2 DEF TypeInv
    <3> HIDE DEF r
    <3> QED BY <1>1, <2>4, <3>3, <3>4 DEF TypeInv
  <2> QED BY <2>1, <2>3, <2>4
<1>3. /\ task' = [task EXCEPT ![m].phase = "ended"]
      /\ UNCHANGED <<conn, sess, inbox, pool, ckpt, cards, log>>
  BY DEF HandlerEnds
<1> QED BY <1>1, <1>2, <1>3, PhaseOnlyKeeps

(* The interrupt and an exception leave the run's state as it was. *)
LEMMA InterruptKeeps == ASSUME IInv, NEW m \in Messages, Interrupt(m) PROVE IInv'
<1>1. /\ task[m].phase = "running" /\ task' = [task EXCEPT ![m].phase = "returned"]
      /\ UNCHANGED <<conn, sess, state, inbox, pool, ckpt, cards, log>>
  BY DEF Interrupt, At
<1>2. state' \in [States -> StateType]
  BY <1>1 DEF IInv, TypeInv
<1> QED BY <1>1, <1>2, PhaseOnlyKeeps

LEMMA RaisesKeeps == ASSUME IInv, NEW m \in Messages, RunRaises(m) PROVE IInv'
<1>1. /\ task[m].phase = "running" /\ task' = [task EXCEPT ![m].phase = "error"]
      /\ UNCHANGED <<conn, sess, state, inbox, pool, ckpt, cards, log>>
  BY DEF RunRaises, At
<1>2. state' \in [States -> StateType]
  BY <1>1 DEF IInv, TypeInv
<1> QED BY <1>1, <1>2, PhaseOnlyKeeps

LEMMA WaitApprovalKeeps == ASSUME IInv, NEW m \in Messages, WaitApproval(m) PROVE IInv'
<1> DEFINE g == Confirmed(task[m].graph, task[m].msg.picks)
<1>1. /\ At(m, "wait_approval") /\ task[m].resume /\ Save(m, g, "running")
      /\ UNCHANGED <<conn, sess, state, inbox, pool, cards, log>>
  BY DEF WaitApproval
<1>2. /\ TypeInv /\ QueueInv /\ TasksInv /\ task[m] \in TaskType /\ task[m].graph \in GraphType
      /\ task[m].phase = "running" /\ task[m].graph.next = "wait_approval"
  BY <1>1, NodeFacts DEF IInv
<1>3. task[m].msg.picks \subseteq Picks /\ task[m].msg.picks \subseteq ApprovedPicks
  <2>1. task[m].msg.type = "approve"
    BY <1>1, <1>2 DEF TasksInv, TaskInv
  <2> QED BY <1>2, <2>1 DEF ApprovedPicks, Approvals, TaskType, MessageType
<1>4. /\ g \in GraphType /\ g.next = "execute" /\ g.confirmed = task[m].msg.picks
      /\ g.picks = task[m].graph.picks
  BY <1>2, <1>3 DEF Confirmed, GraphType, Nodes
<1> HIDE DEF g
<1>5. GraphInv(g, ApprovedPicks)
  BY <1>3, <1>4 DEF GraphInv, Early, Late
<1>6. Attempted(m) = {}
  BY <1>2, NothingYet DEF Late
<1>7. Only(m)
  BY <1>1, <1>2, <1>4, SaveEffect DEF Phases
<1>8. Queue(pool', "pooled", task') /\ pool' \in Seq(Messages) /\ cards' \subseteq Messages
  BY <1>1, <1>2, <1>7, QueueStays DEF QueueInv, TypeInv
<1> QED BY <1>1, <1>2, <1>4, <1>5, <1>6, <1>8, SaveKeeps DEF Late

(* One pick more is executed: one that was approved, if it was selected. *)
LEMMA ExecuteKeeps == ASSUME IInv, NEW m \in Messages, ExecutePick(m) PROVE IInv'
<1>1. /\ At(m, "execute")
      /\ UNCHANGED <<conn, sess, state, inbox, pool, task, ckpt, cards>>
  BY DEF ExecutePick
<1>2. PICK p \in Todo(m), b \in BOOLEAN : log' = log \cup {[task |-> m, pick |-> p, raised |-> b]}
  BY DEF ExecutePick
<1>3. /\ task[m].graph \in GraphType /\ task[m].graph.next = "execute"
      /\ GraphInv(task[m].graph, ApprovedPicks)
  BY <1>1, NodeFacts
<1>4. p \in task[m].graph.confirmed /\ p \in Picks
  BY <1>2, <1>3 DEF Todo, GraphType
<1>5. TypeInv /\ QueueInv /\ TasksInv /\ ThreadsInv /\ GraphsInv /\ LogInv /\ RunsGovern
  BY DEF IInv
<1>6. TypeInv'
  BY <1>1, <1>2, <1>4, <1>5 DEF TypeInv
<1>7. ApprovedPicks' = ApprovedPicks
  BY <1>1 DEF ApprovedPicks, Approvals
<1>8. QueueInv' /\ TasksInv' /\ ThreadsInv' /\ GraphsInv'
  BY <1>1, <1>5, <1>7 DEF QueueInv, TasksInv, ThreadsInv, GraphsInv
<1>9. LogInv'
  BY <1>1, <1>2, <1>3, <1>5 DEF LogInv, Late
<1>10. \A k \in Messages : Attempted(k)' = IF k = m THEN Attempted(m) \cup {p} ELSE Attempted(k)
  <2> DEFINE e == [task |-> m, pick |-> p, raised |-> b]
  <2>1. e.task = m /\ e.pick = p /\ log' = log \cup {e}
    BY <1>2
  <2> HIDE DEF e
  <2> SUFFICES ASSUME NEW k \in Messages, NEW q
               PROVE  q \in Attempted(k)' <=> q \in Attempted(k) \/ (k = m /\ q = p)
    OBVIOUS
  <2>2. q \in Attempted(k)' <=> \E x \in log' : x.task = k /\ x.pick = q
    BY DEF Attempted
  <2>3. q \in Attempted(k) <=> \E x \in log : x.task = k /\ x.pick = q
    BY DEF Attempted
  <2> QED BY <2>1, <2>2, <2>3
<1>11. SelectedApproved'
  <2> SUFFICES ASSUME NEW k \in Messages, task[k].graph.picks # {}
               PROVE  Attempted(k)' \subseteq ApprovedPicks
    BY <1>1, <1>7 DEF SelectedApproved
  <2>1. Attempted(k) \subseteq ApprovedPicks
    BY <1>5 DEF RunsGovern, SelectedApproved
  <2>2. k = m => p \in ApprovedPicks
    BY <1>3, <1>4 DEF GraphInv
  <2> QED BY <1>10, <2>1, <2>2
<1>12. AllTried'
  BY <1>1, <1>5, <1>10 DEF RunsGovern, AllTried
<1> QED BY <1>6, <1>8, <1>9, <1>11, <1>12 DEF IInv, RunsGovern

(* The ends of a run. *)
LEMMA EndKeeps ==
    ASSUME IInv, NEW m \in Messages,
           \/ At(m, "execute") /\ Todo(m) = {}
           \/ At(m, "chat_reply"),
           Save(m, [task[m].graph EXCEPT !.next = "end"], "returned"),
           UNCHANGED <<conn, sess, state, inbox, pool, cards, log>>
    PROVE  IInv'
<1> DEFINE g == [task[m].graph EXCEPT !.next = "end"]
<1>1. /\ TypeInv /\ QueueInv /\ RunsGovern /\ task[m].graph \in GraphType
      /\ task[m].phase = "running" /\ GraphInv(task[m].graph, ApprovedPicks)
  BY NodeFacts DEF IInv
<1>2. /\ g \in GraphType /\ g.next = "end" /\ g.picks = task[m].graph.picks
      /\ g.confirmed = task[m].graph.confirmed
  BY <1>1 DEF GraphType, Nodes
<1>3. Save(m, g, "returned")
  OBVIOUS
<1> HIDE DEF g
<1>4. GraphInv(g, ApprovedPicks)
  BY <1>1, <1>2 DEF GraphInv, Early, Late
<1>5. g.confirmed \subseteq Attempted(m)
  <2>1. CASE At(m, "execute") /\ Todo(m) = {}
    BY <1>2, <2>1 DEF Todo
  <2>2. CASE At(m, "chat_reply")
    BY <1>1, <1>2, <2>2 DEF At, GraphInv, Late
  <2> QED BY <2>1, <2>2
<1>6. g.picks # {} => Attempted(m) \subseteq ApprovedPicks
  BY <1>1, <1>2 DEF RunsGovern, SelectedApproved
<1>7. Only(m)
  BY <1>1, <1>2, <1>3, SaveEffect DEF Phases
<1>8. Queue(pool', "pooled", task') /\ pool' \in Seq(Messages) /\ cards' \subseteq Messages
  BY <1>1, <1>7, QueueStays DEF QueueInv, TypeInv
<1> QED BY <1>1, <1>2, <1>3, <1>4, <1>5, <1>6, <1>8, SaveKeeps DEF Late

(* The connection alone changes none of this. *)
LEMMA Unmoved ==
    ASSUME IInv, UNCHANGED <<state, inbox, pool, task, ckpt, log>>
    PROVE  QueueInv' /\ TasksInv' /\ ThreadsInv' /\ GraphsInv' /\ LogInv' /\ RunsGovern'
<1>1. QueueInv /\ TasksInv /\ ThreadsInv /\ GraphsInv /\ LogInv /\ RunsGovern
  BY DEF IInv
<1>2. ApprovedPicks' = ApprovedPicks /\ \A m \in Messages : Attempted(m)' = Attempted(m)
  BY DEF ApprovedPicks, Approvals, Attempted
<1>3. QueueInv' /\ TasksInv' /\ ThreadsInv' /\ LogInv'
  BY <1>1 DEF QueueInv, TasksInv, ThreadsInv, LogInv
<1>4. GraphsInv'
  BY <1>1, <1>2 DEF GraphsInv
<1>5. RunsGovern'
  BY <1>1, <1>2 DEF RunsGovern, SelectedApproved, AllTried
<1> QED BY <1>3, <1>4, <1>5

(* The step lemma. *)
LEMMA StepKeeps == IInv /\ [Next]_vars => IInv'
<1> SUFFICES ASSUME IInv, [Next]_vars PROVE IInv'
  OBVIOUS
<1>1. ASSUME Connect \/ Disconnect PROVE IInv'
  <2>1. UNCHANGED <<state, inbox, pool, task, ckpt, log>> /\ cards' \subseteq cards
        /\ conn' \in {"open", "gone"} /\ sess' \in {0, 1}
    BY <1>1 DEF Connect, Disconnect
  <2>2. TypeInv'
    BY <2>1 DEF IInv, TypeInv, States
  <2>3. QueueInv' /\ TasksInv' /\ ThreadsInv' /\ GraphsInv' /\ LogInv' /\ RunsGovern'
    BY <2>1, Unmoved
  <2> QED BY <2>2, <2>3 DEF IInv
<1>2. ASSUME NEW m \in Messages, Server(m) PROVE IInv'
  BY <1>2, HandleMessageKeeps, HandleApproveKeeps, HandlerEndsKeeps, RunStartsKeeps,
     ResumeStartsKeeps, InterpretKeeps, SelectKeeps, InterruptKeeps, WaitApprovalKeeps,
     ExecuteKeeps, EndKeeps, RaisesKeeps DEF Server, ExecuteEnds, ChatReply
<1>3. ASSUME UNCHANGED vars PROVE IInv'
  <2>1. UNCHANGED <<conn, sess, state, inbox, pool, task, ckpt, cards, log>>
    BY <1>3 DEF vars
  <2>2. TypeInv'
    BY <2>1 DEF IInv, TypeInv
  <2>3. QueueInv' /\ TasksInv' /\ ThreadsInv' /\ GraphsInv' /\ LogInv' /\ RunsGovern'
    BY <2>1, Unmoved
  <2> QED BY <2>2, <2>3 DEF IInv
<1> QED BY <1>1, <1>2, <1>3, PageKeeps DEF Next

-----------------------------------------------------------------------------
(* What a run without a selection of its own executes. *)

(* In a run on thread t, or in its checkpoint: what is confirmed without a  *)
(* selection was pending, for a text that does not ask to select.           *)
Recalls(g, t, tasks) ==
    /\ g.next = "wait_approval" => g.picks # {}
    /\ g.confirmed # {} =>
         /\ t \in Messages /\ tasks[t].phase # "unsent"
         /\ g.picks = {} => g.confirmed \subseteq g.pending /\ tasks[t].msg.text # "select"

(* What is pending comes from a selection that has ended, and a run tries   *)
(* what it has confirmed, each pick once.                                   *)
RecallAt(m) ==
    /\ task[m].graph.pending \subseteq Remembered /\ Recalls(task[m].graph, task[m].thread, task)
    /\ ckpt[m].pending \subseteq Remembered /\ Recalls(ckpt[m], m, task)
    /\ Attempted(m) \subseteq task[m].graph.confirmed

Once == \A d, e \in log : d.task = e.task /\ d.pick = e.pick => d = e

RecallInv ==
    /\ \A k \in States : state[k].last_picks \subseteq Remembered
    /\ \A m \in Messages : RecallAt(m)
    /\ Once

(* What an ended selection left is kept. *)
LEMMA RememberedGrows ==
    ASSUME NEW m \in Messages, Only(m), task[m].phase # "ended"
    PROVE  Remembered \subseteq Remembered'
<1> SUFFICES ASSUME NEW k \in Messages, task[k].phase = "ended"
             PROVE  task'[k] = task[k]
  BY DEF Remembered
<1> QED BY DEF Only

(* What has to be shown of a step of message m that executes nothing. *)
LEMMA RecallMoves ==
    ASSUME RecallInv, NEW m \in Messages, Only(m), log' = log, task[m].phase # "ended",
           task'[m].msg = task[m].msg \/ task[m].phase = "unsent", task'[m].phase # "unsent",
           task'[m].graph.pending \subseteq Remembered, Recalls(task'[m].graph, task'[m].thread, task),
           \A k \in States : state'[k].last_picks = state[k].last_picks \/ state'[k].last_picks \subseteq Remembered',
           \A t \in Messages : ckpt'[t].pending \subseteq Remembered /\ Recalls(ckpt'[t], t, task),
           task'[m].graph.confirmed = task[m].graph.confirmed \/ Attempted(m) = {}
    PROVE  RecallInv'
<1>1. Remembered \subseteq Remembered'
  BY RememberedGrows
<1>2. ASSUME NEW t, NEW g, Recalls(g, t, task)
      PROVE  Recalls(g, t, task')
  <2>1. ASSUME t \in Messages, task[t].phase # "unsent"
        PROVE  task'[t].phase # "unsent" /\ task'[t].msg.text = task[t].msg.text
    BY <2>1 DEF Only
  <2> QED BY <1>2, <2>1 DEF Recalls
<1>3. \A k \in Messages : Attempted(k)' = Attempted(k)
  BY DEF Attempted
<1>4. ASSUME NEW k \in Messages PROVE RecallAt(k)'
  <2>1. RecallAt(k) /\ RecallAt(m)
    BY DEF RecallInv
  <2>2. ckpt'[k].pending \subseteq Remembered' /\ Recalls(ckpt'[k], k, task')
    BY <1>1, <1>2
  <2>3. task'[k].graph.pending \subseteq Remembered' /\ Recalls(task'[k].graph, task'[k].thread, task')
    <3>1. task'[k].graph.pending \subseteq Remembered /\ Recalls(task'[k].graph, task'[k].thread, task)
      BY <2>1 DEF RecallAt, Only
    <3> QED BY <1>1, <1>2, <3>1
  <2>4. Attempted(k) \subseteq task'[k].graph.confirmed
    BY <2>1 DEF RecallAt, Only
  <2> QED BY <1>3, <2>2, <2>3, <2>4 DEF RecallAt
<1>5. \A k \in States : state'[k].last_picks \subseteq Remembered'
  BY <1>1 DEF RecallInv
<1>6. Once'
  BY DEF RecallInv, Once
<1> QED BY <1>4, <1>5, <1>6 DEF RecallInv

(* A run that saves a state. *)
LEMMA SaveRecalls ==
    ASSUME IInv, RecallInv, NEW m \in Messages, NEW g \in GraphType, NEW ph \in {"running", "returned"},
           Save(m, g, ph), UNCHANGED <<state, log>>, task[m].phase \in {"pooled", "running"},
           g.pending = task[m].graph.pending, Recalls(g, task[m].thread, task),
           g.confirmed = task[m].graph.confirmed \/ Attempted(m) = {}
    PROVE  RecallInv'
<1>1. /\ Only(m) /\ task'[m].graph = g /\ task'[m].phase = ph
      /\ task'[m].msg = task[m].msg /\ task'[m].thread = task[m].thread
      /\ \A t \in Messages : ckpt'[t] = IF t = task[m].thread THEN g ELSE ckpt[t]
  <2>1. TypeInv /\ ph \in Phases
    BY DEF IInv, Phases
  <2> QED BY <2>1, SaveEffect
<1>2. \A t \in Messages : RecallAt(t)
  BY DEF RecallInv
<1>3. task'[m].graph.pending \subseteq Remembered
  BY <1>1, <1>2 DEF RecallAt
<1>4. \A t \in Messages : ckpt'[t].pending \subseteq Remembered /\ Recalls(ckpt'[t], t, task)
  BY <1>1, <1>2, <1>3 DEF RecallAt
<1> QED BY <1>1, <1>3, <1>4, RecallMoves

(* A step that changes the phase of a run, or more but not its graph. *)
LEMMA PhaseRecalls ==
    ASSUME RecallInv, NEW m \in Messages, Only(m), UNCHANGED <<ckpt, log>>, task[m].phase # "ended",
           task'[m].msg = task[m].msg \/ task[m].phase = "unsent", task'[m].phase # "unsent",
           task'[m].graph = task[m].graph,
           task'[m].thread = task[m].thread \/ task[m].graph.confirmed = {},
           \A k \in States : state'[k].last_picks = state[k].last_picks \/ state'[k].last_picks \subseteq Remembered'
    PROVE  RecallInv'
<1>1. \A t \in Messages : RecallAt(t)
  BY DEF RecallInv
<1>2. Recalls(task'[m].graph, task'[m].thread, task)
  BY <1>1 DEF RecallAt, Recalls
<1> QED BY <1>1, <1>2, RecallMoves DEF RecallAt

LEMMA ReceiveRecalls ==
    ASSUME IInv, RecallInv, NEW m \in Messages, NEW msg \in MessageType,
           Receive(m, msg), UNCHANGED <<state, ckpt, log>>
    PROVE  RecallInv'
<1>1. task[m].phase = "unsent" /\ task[m] \in TaskType
      /\ task' = [task EXCEPT ![m].msg = msg, ![m].phase = "queued", ![m].calm = Idle]
  BY DEF Receive, IInv, TypeInv
<1>2. /\ Only(m) /\ task'[m].phase = "queued" /\ task'[m].graph = task[m].graph
      /\ task'[m].thread = task[m].thread
  BY <1>1 DEF IInv, TypeInv, TaskType, Only
<1> QED BY <1>1, <1>2, PhaseRecalls

LEMMA PageRecalls == ASSUME IInv, RecallInv, NEW m \in Messages, Page(m) PROVE RecallInv'
<1>1. ASSUME NEW text \in Texts, NEW account \in Filled[m], SendText(m, text, account)
      PROVE  RecallInv'
  <2> DEFINE msg == [NoMessage EXCEPT !.type = "message", !.text = text, !.account = account]
  <2>1. msg \in MessageType
    BY ChatAssumption, Blanks DEF MessageType, Messages
  <2> QED BY <1>1, <2>1, ReceiveRecalls DEF SendText
<1>2. ASSUME NEW c \in cards, NEW picks \in SUBSET PicksOf(c), SendApprove(m, c, picks)
      PROVE  RecallInv'
  <2> DEFINE msg == [NoMessage EXCEPT !.type = "approve", !.picks = picks]
  <2>1. picks \subseteq Picks
    BY Blanks DEF IInv, TypeInv
  <2>2. msg \in MessageType
    BY <2>1, Blanks DEF MessageType
  <2> QED BY <1>2, <2>2, ReceiveRecalls DEF SendApprove
<1> QED BY <1>1, <1>2 DEF Page

(* The session's last picks are pending in the run of a chat message. *)
LEMMA HandleRecalls ==
    ASSUME IInv, RecallInv, NEW m \in Messages, HandleMessage(m) \/ HandleApprove(m)
    PROVE  RecallInv'
<1>1. /\ TypeInv /\ Handled(m) /\ UNCHANGED <<ckpt, log>>
  BY DEF IInv, HandleMessage, HandleApprove
<1>2. /\ task[m].phase = "queued" /\ task[m].graph.next = "none" /\ task[m] \in TaskType
      /\ task[m].graph.picks = {} /\ task[m].graph.confirmed = {} /\ Session \in States
  BY <1>1, HandlingStarts
<1>3. Attempted(m) = {}
  BY <1>2, NothingYet DEF Late
<1>4. \A t \in Messages : RecallAt(t)
  BY DEF RecallInv
<1>5. CASE HandleApprove(m)
  <2>1. Only(m) /\ task'[m].msg = task[m].msg /\ task'[m].phase # "unsent" /\ task'[m].graph = task[m].graph
    BY <1>1, <1>2, <1>5 DEF HandleApprove, Only, TypeInv, TaskType
  <2>2. state' = state
    BY <1>5 DEF HandleApprove
  <2> QED BY <1>1, <1>2, <2>1, <2>2, PhaseRecalls
<1>6. CASE HandleMessage(m)
  <2> DEFINE k == Session
             a == state[k].account \/ task[m].msg.account
             g == [task[m].graph EXCEPT !.instructions = state[k].instructions, !.pending = state[k].last_picks]
             h == IF a THEN m ELSE state[k].thread_id
             ph == IF a THEN "pooled" ELSE "error"
  <2>1. /\ state' = [state EXCEPT ![k].account = a, ![k].thread_id = h]
        /\ task' = [task EXCEPT ![m].phase = ph, ![m].of = k, ![m].thread = m, ![m].graph = g]
    BY <1>1, <1>2, <1>6 DEF HandleMessage, TypeInv
  <2>2. /\ g.next = "none" /\ g.confirmed = {} /\ g.pending = state[k].last_picks
        /\ ph \in {"pooled", "error"}
    BY <1>2 DEF TaskType, GraphType
  <2> HIDE DEF k, a, g, h, ph
  <2>3. Only(m) /\ task'[m].msg = task[m].msg /\ task'[m].phase = ph /\ task'[m].graph = g
    BY <1>1, <1>2, <2>1 DEF Only, TypeInv, TaskType
  <2>4. \A j \in States : state'[j].last_picks = state[j].last_picks
    BY <1>1, <2>1 DEF TypeInv, StateType
  <2>5. g.pending \subseteq Remembered /\ Recalls(g, task'[m].thread, task)
    BY <1>2, <2>2 DEF RecallInv, Recalls, k
  <2>6. \A t \in Messages : ckpt'[t].pending \subseteq Remembered /\ Recalls(ckpt'[t], t, task)
    BY <1>1, <1>4 DEF RecallAt
  <2> QED BY <1>1, <1>2, <1>3, <2>2, <2>3, <2>4, <2>5, <2>6, RecallMoves
<1> QED BY <1>5, <1>6

(* The end of a selection gives the session its picks. *)
LEMMA HandlerRecalls == ASSUME IInv, RecallInv, NEW m \in Messages, HandlerEnds(m) PROVE RecallInv'
<1>1. /\ TypeInv /\ task[m] \in TaskType /\ task[m].phase = "returned"
      /\ task' = [task EXCEPT ![m].phase = "ended"] /\ UNCHANGED <<ckpt, log>>
  BY DEF IInv, TypeInv, HandlerEnds
<1>2. /\ Only(m) /\ task'[m].phase = "ended" /\ task'[m].msg = task[m].msg
      /\ task'[m].thread = task[m].thread /\ task'[m].graph = task[m].graph
  BY <1>1 DEF TypeInv, TaskType, Only
<1>3. task[m].graph.picks \subseteq Remembered'
  BY <1>2 DEF Remembered
<1>4. \A k \in States : state'[k].last_picks = state[k].last_picks \/ state'[k].last_picks = task[m].graph.picks
  <2> DEFINE g == task[m].graph
             j == task[m].of
             p == IF g.picks = {} THEN state[j].last_picks ELSE g.picks
  <2>1. state' = IF task[m].msg.type = "approve" THEN state
                 ELSE [state EXCEPT ![j].instructions = g.instructions, ![j].last_picks = p]
    BY DEF HandlerEnds
  <2> HIDE DEF g, j, p
  <2>2. \A k \in States : state'[k].last_picks = state[k].last_picks \/ (k = j /\ state'[k].last_picks = p)
    BY <1>1, <2>1 DEF TypeInv, StateType
  <2> QED BY <2>2 DEF p, g, j
<1> QED BY <1>1, <1>2, <1>3, <1>4, PhaseRecalls

(* The thread of a run was opened by a message. *)
LEMMA AnyThread ==
    ASSUME NEW t \in Messages, IsThread(t, task), TaskInv(task[t], t)
    PROVE  task[t].phase # "unsent"
<1>1. t # 0
  BY DEF Messages
<1>2. NoTask.msg.type = "none"
  BY DEF NoTask, NoMessage
<1>3. task[t].msg.type = "message"
  BY <1>1 DEF IsThread
<1>4. ASSUME task[t] = NoTask PROVE FALSE
  BY <1>2, <1>3, <1>4
<1> QED BY <1>4 DEF TaskInv

(* What _interpret leaves a run that has no picks yet with. *)
LEMMA InterpretYields ==
    ASSUME TypeInv, NEW m \in Messages, Interpret(m),
           task[m].thread \in Messages, task[m].graph \in GraphType,
           task[m].graph.confirmed = {}, task[m].graph.picks = {}
    PROVE  \E g \in GraphType :
             /\ Save(m, g, "running") /\ g.next \in {"select", "chat_reply", "execute"}
             /\ g.picks = {} /\ g.pending = task[m].graph.pending
             /\ g.confirmed = IF g.next = "execute" THEN task[m].graph.pending ELSE {}
             /\ g.next = "execute" => task[task[m].thread].msg.text # "select"
<1>1. task[task[m].thread].msg.text \in Texts
  BY DEF TypeInv, TaskType, MessageType
<1>2. PICK g \in InterpretText(task[task[m].thread].msg.text, task[m].thread, task[m].graph) :
         Save(m, g, "running")
  BY DEF Interpret
<1>2a. Interpreted(g, task[task[m].thread].msg.text, task[m].thread, task[m].graph)
  BY <1>1, <1>2, InterpretFacts
<1>3. /\ g \in GraphType /\ g.next \in {"select", "chat_reply", "execute"}
      /\ g.picks = task[m].graph.picks
      /\ g.confirmed = IF g.next = "execute" THEN task[m].graph.pending
                                             ELSE task[m].graph.confirmed
  BY <1>2a DEF Interpreted
<1>4. g.pending = task[m].graph.pending
      /\ (g.next = "execute" => task[task[m].thread].msg.text # "select")
  BY <1>1, <1>2 DEF InterpretText, Texts, GraphType
<1> QED BY <1>2, <1>3, <1>4

LEMMA RunRecalls ==
    ASSUME IInv, RecallInv, NEW m \in Messages, RunStarts(m) \/ Interpret(m) \/ Select(m) \/ WaitApproval(m)
    PROVE  RecallInv'
<1>1. RecallAt(m) /\ TypeInv
  BY DEF RecallInv, IInv
<1>2. CASE RunStarts(m)
  <2> DEFINE g == [task[m].graph EXCEPT !.next = "interpret"]
  <2>1. Save(m, g, "running") /\ StartsNext(m) /\ UNCHANGED <<state, log>>
    BY <1>2 DEF RunStarts
  <2>2. task[m].phase = "pooled" /\ task[m].graph \in GraphType /\ task[m].graph.confirmed = {}
    BY <2>1, WorkStarts
  <2>3. /\ g \in GraphType /\ g.next = "interpret" /\ g.pending = task[m].graph.pending
        /\ g.confirmed = task[m].graph.confirmed
    BY <2>2 DEF GraphType, Nodes
  <2> HIDE DEF g
  <2>4. Recalls(g, task[m].thread, task)
    BY <2>2, <2>3 DEF Recalls
  <2> QED BY <2>1, <2>2, <2>3, <2>4, SaveRecalls
<1>3. CASE Interpret(m)
  <2>1. At(m, "interpret") /\ UNCHANGED <<state, log>>
    BY <1>3 DEF Interpret
  <2>2. /\ task[m].thread \in Messages /\ task[m].graph \in GraphType
        /\ task[m].phase = "running" /\ task[m].graph.next = "interpret"
        /\ task[m].graph.confirmed = {} /\ task[m].graph.picks = {}
    BY <2>1, NodeFacts DEF GraphInv, Early, Late
  <2>4. PICK g \in GraphType :
         /\ Save(m, g, "running") /\ g.next \in {"select", "chat_reply", "execute"} /\ g.picks = {}
         /\ g.pending = task[m].graph.pending
         /\ g.confirmed = IF g.next = "execute" THEN task[m].graph.pending ELSE {}
         /\ g.next = "execute" => task[task[m].thread].msg.text # "select"
    BY <1>1, <1>3, <2>2, InterpretYields
  <2>7. task[task[m].thread].phase # "unsent"
    <3>1. IsThread(task[m].thread, task) /\ TaskInv(task[task[m].thread], task[m].thread)
      BY <2>2 DEF IInv, ThreadsInv, TasksInv
    <3> QED BY <2>2, <3>1, AnyThread
  <2>8. Recalls(g, task[m].thread, task)
    BY <2>2, <2>4, <2>7 DEF Recalls
  <2>9. Attempted(m) = {}
    BY <2>2, NothingYet DEF Late
  <2> QED BY <2>1, <2>2, <2>4, <2>8, <2>9, SaveRecalls
<1>4. CASE Select(m)
  <2>1. At(m, "select") /\ UNCHANGED <<state, log>>
    BY <1>4 DEF Select
  <2>2. /\ task[m].graph \in GraphType /\ task[m].phase = "running" /\ task[m].graph.confirmed = {}
        /\ task[m].graph.next = "select"
    BY <2>1, NodeFacts DEF GraphInv, Late
  <2>3. PICK picks \in {PicksOf(m), {}} :
           Save(m, Selected(task[m].graph, picks),
                IF Selected(task[m].graph, picks).next = "end" THEN "returned" ELSE "running")
    BY <1>4 DEF Select
  <2> DEFINE g == Selected(task[m].graph, picks)
             ph == IF g.next = "end" THEN "returned" ELSE "running"
  <2>4. /\ g \in GraphType /\ g.confirmed = {} /\ g.pending = task[m].graph.pending
        /\ g.next = "wait_approval" => g.picks # {}
    <3>1. picks \subseteq Picks
      BY Blanks
    <3> QED BY <2>2, <3>1 DEF Selected, GraphType, Nodes
  <2>5. ph \in {"running", "returned"} /\ Save(m, g, ph)
    BY <2>3
  <2> HIDE DEF g, ph
  <2>6. Recalls(g, task[m].thread, task)
    BY <2>4 DEF Recalls
  <2> QED BY <2>1, <2>2, <2>4, <2>5, <2>6, SaveRecalls
<1>5. CASE WaitApproval(m)
  <2> DEFINE g == Confirmed(task[m].graph, task[m].msg.picks)
  <2>1. /\ At(m, "wait_approval") /\ Save(m, g, "running") /\ UNCHANGED <<state, log>>
    BY <1>5 DEF WaitApproval
  <2>2. /\ task[m].graph \in GraphType /\ task[m] \in TaskType /\ task[m].phase = "running"
        /\ task[m].thread \in Messages /\ task[m].graph.next = "wait_approval"
    BY <2>1, NodeFacts
  <2>3. task[m].msg.picks \subseteq Picks
    BY <2>2 DEF TaskType, MessageType
  <2>4. /\ g \in GraphType /\ g.next = "execute" /\ g.picks = task[m].graph.picks
        /\ g.pending = task[m].graph.pending
    BY <2>2, <2>3 DEF Confirmed, GraphType, Nodes
  <2> HIDE DEF g
  <2>5. task[task[m].thread].phase # "unsent"
    <3>1. IsThread(task[m].thread, task) /\ TaskInv(task[task[m].thread], task[m].thread)
      BY <2>2 DEF IInv, ThreadsInv, TasksInv
    <3> QED BY <2>2, <3>1, AnyThread
  <2>6. task[m].graph.picks # {}
    BY <1>1, <2>2 DEF RecallAt, Recalls
  <2>7. Recalls(g, task[m].thread, task)
    BY <2>2, <2>4, <2>5, <2>6 DEF Recalls
  <2>8. Attempted(m) = {}
    BY <2>2, NothingYet DEF Late
  <2> QED BY <2>1, <2>2, <2>4, <2>7, <2>8, SaveRecalls
<1> QED BY <1>2, <1>3, <1>4, <1>5

LEMMA EndRecalls ==
    ASSUME IInv, RecallInv, NEW m \in Messages, ExecuteEnds(m) \/ ChatReply(m)
    PROVE  RecallInv'
<1> DEFINE g == [task[m].graph EXCEPT !.next = "end"]
<1>1. /\ Save(m, g, "returned") /\ UNCHANGED <<state, log>>
      /\ At(m, "execute") \/ At(m, "chat_reply")
  BY DEF ExecuteEnds, ChatReply
<1>2. task[m].graph \in GraphType /\ task[m].phase = "running"
  BY <1>1, NodeFacts
<1>3. /\ g \in GraphType /\ g.next = "end" /\ g.pending = task[m].graph.pending
      /\ g.confirmed = task[m].graph.confirmed /\ g.picks = task[m].graph.picks
  BY <1>2 DEF GraphType, Nodes
<1> HIDE DEF g
<1>4. Recalls(g, task[m].thread, task)
  <2>1. RecallAt(m)
    BY DEF RecallInv
  <2> QED BY <1>3, <2>1 DEF RecallAt, Recalls
<1> QED BY <1>1, <1>2, <1>3, <1>4, SaveRecalls

(* A resumed run has the graph of its thread's checkpoint. *)
LEMMA ResumeRecalls == ASSUME IInv, RecallInv, NEW m \in Messages, ResumeStarts(m) PROVE RecallInv'
<1> DEFINE g == ckpt[task[m].thread]
<1>1. StartsNext(m) /\ UNCHANGED <<state, ckpt, log>>
  BY DEF ResumeStarts
<1>2. /\ task[m].phase = "pooled" /\ task[m] \in TaskType /\ task[m].thread \in Messages
      /\ Attempted(m) = {} /\ TypeInv
  BY <1>1, WorkStarts DEF IInv
<1>3. task' = IF g.next = "end" THEN [task EXCEPT ![m].phase = "returned"]
              ELSE [task EXCEPT ![m].phase = "running", ![m].graph = g,
                                ![m].resume = (g.next = "wait_approval")]
  BY DEF ResumeStarts
<1>4. RecallAt(m) /\ RecallAt(task[m].thread) /\ \A t \in Messages : RecallAt(t)
  BY <1>2 DEF RecallInv
<1>5. g.pending \subseteq Remembered /\ Recalls(g, task[m].thread, task)
  BY <1>4 DEF RecallAt
<1> HIDE DEF g
<1>6. /\ Only(m) /\ task'[m].msg = task[m].msg /\ task'[m].thread = task[m].thread
      /\ task'[m].phase \in {"returned", "running"}
      /\ task'[m].graph = task[m].graph \/ task'[m].graph = g
  <2>1. CASE g.next = "end"
    BY <1>2, <1>3, <2>1 DEF TypeInv, TaskType, Only
  <2>2. CASE g.next # "end"
    BY <1>2, <1>3, <2>2 DEF TypeInv, TaskType, Only
  <2> QED BY <2>1, <2>2
<1>7. task'[m].graph.pending \subseteq Remembered /\ Recalls(task'[m].graph, task'[m].thread, task)
  BY <1>4, <1>5, <1>6 DEF RecallAt
<1>8. \A t \in Messages : ckpt'[t].pending \subseteq Remembered /\ Recalls(ckpt'[t], t, task)
  BY <1>1, <1>4 DEF RecallAt
<1> QED BY <1>1, <1>2, <1>6, <1>7, <1>8, RecallMoves

LEMMA StopRecalls ==
    ASSUME IInv, RecallInv, NEW m \in Messages, Interrupt(m) \/ RunRaises(m)
    PROVE  RecallInv'
<1>1. PICK ph \in {"returned", "error"} : task' = [task EXCEPT ![m].phase = ph]
  BY DEF Interrupt, RunRaises
<1>2. task[m].phase = "running" /\ UNCHANGED <<state, ckpt, log>> /\ TypeInv
  BY DEF Interrupt, RunRaises, At, IInv
<1>3. /\ Only(m) /\ task'[m].phase = ph /\ task'[m].msg = task[m].msg
      /\ task'[m].thread = task[m].thread /\ task'[m].graph = task[m].graph
  BY <1>1, <1>2 DEF TypeInv, TaskType, Only
<1> QED BY <1>2, <1>3, PhaseRecalls

(* One more of the confirmed picks is tried. *)
LEMMA ExecuteRecalls == ASSUME IInv, RecallInv, NEW m \in Messages, ExecutePick(m) PROVE RecallInv'
<1>1. UNCHANGED <<state, task, ckpt>>
  BY DEF ExecutePick
<1>2. PICK p \in Todo(m), b \in BOOLEAN : log' = log \cup {[task |-> m, pick |-> p, raised |-> b]}
  BY DEF ExecutePick
<1> DEFINE e == [task |-> m, pick |-> p, raised |-> b]
<1>3. e.task = m /\ e.pick = p /\ log' = log \cup {e}
  BY <1>2
<1> HIDE DEF e
<1>4. \A d \in log : ~(d.task = m /\ d.pick = p)
  BY <1>2 DEF Todo, Attempted
<1>5. Once'
  BY <1>3, <1>4 DEF RecallInv, Once
<1>6. Remembered' = Remembered
  BY <1>1 DEF Remembered
<1>7. ASSUME NEW k \in Messages PROVE Attempted(k)' \subseteq task[k].graph.confirmed
  <2>1. Attempted(k) \subseteq task[k].graph.confirmed
    BY DEF RecallInv, RecallAt
  <2> SUFFICES ASSUME NEW x \in log', x.task = k PROVE x.pick \in task[k].graph.confirmed
    BY DEF Attempted
  <2>2. CASE x = e
    BY <1>2, <1>3, <2>2 DEF Todo
  <2>3. CASE x \in log
    BY <2>1, <2>3 DEF Attempted
  <2> QED BY <1>3, <2>2, <2>3
<1>8. \A k \in Messages : RecallAt(k)'
  BY <1>1, <1>6, <1>7 DEF RecallInv, RecallAt
<1> QED BY <1>1, <1>5, <1>6, <1>8 DEF RecallInv

LEMMA RecallBegins == Init => RecallInv
<1> SUFFICES ASSUME Init PROVE RecallInv
  OBVIOUS
<1>1. \A m \in Messages : task[m].graph = NoGraph /\ ckpt[m] = NoGraph /\ Attempted(m) = {}
  BY DEF Init, NoTask, Attempted
<1>2. \A k \in States : state[k].last_picks = {}
  BY DEF Init, NewState
<1>3. NoGraph.pending = {} /\ NoGraph.confirmed = {} /\ NoGraph.next = "none"
  BY DEF NoGraph
<1>4. \A m \in Messages : RecallAt(m)
  BY <1>1, <1>3 DEF RecallAt, Recalls
<1>5. Once
  BY DEF Init, Once
<1> QED BY <1>2, <1>4, <1>5 DEF RecallInv

LEMMA RecallStays == IInv /\ RecallInv /\ [Next]_vars => RecallInv'
<1> SUFFICES ASSUME IInv, RecallInv, [Next]_vars PROVE RecallInv'
  OBVIOUS
<1>1. ASSUME Connect \/ Disconnect \/ UNCHANGED vars PROVE RecallInv'
  <2>1. UNCHANGED <<state, task, ckpt, log>>
    BY <1>1 DEF Connect, Disconnect, vars
  <2> QED BY <2>1 DEF RecallInv, RecallAt, Once, Remembered, Attempted
<1>2. ASSUME NEW m \in Messages, Server(m) PROVE RecallInv'
  BY <1>2, HandleRecalls, HandlerRecalls, RunRecalls, EndRecalls, ResumeRecalls, StopRecalls,
     ExecuteRecalls DEF Server
<1> QED BY <1>1, <1>2, PageRecalls DEF Next

(* For any number of messages in flight, picks and workers: a run executes  *)
(* of its selection what some approve message brought, and without one only *)
(* picks of a selection that has ended, for a text that is or was taken for *)
(* an order; and a run that ends has tried every confirmed pick once,       *)
(* whether or not another raised (harness_agent.py, _interpret,             *)
(* _wait_approval and _execute).                                            *)
THEOREM ApprovalsStandFirst == Spec => []ApprovalsGovern
<1>1. IInv /\ RecallInv => ApprovalsGovern
  <2> SUFFICES ASSUME IInv, RecallInv PROVE ApprovalsGovern
    OBVIOUS
  <2>1. RunsGovern /\ Once /\ \A m \in Messages : RecallAt(m)
    BY DEF IInv, RecallInv
  <2>2. OrdersHaveGrounds
    <3> SUFFICES ASSUME NEW m \in Messages, task[m].graph.picks = {}, Attempted(m) # {}
                 PROVE  Attempted(m) \subseteq Remembered /\ task[task[m].thread].msg.text # "select"
      BY <2>1 DEF OrdersHaveGrounds, RunsGovern, SelectedApproved
    <3> QED BY <2>1 DEF RecallAt, Recalls
  <2>3. AllAttempted
    BY <2>1 DEF AllAttempted, RunsGovern, AllTried, Once
  <2> QED BY <2>2, <2>3 DEF ApprovalsGovern
<1> QED BY <1>1, InitHolds, StepKeeps, RecallBegins, RecallStays, PTL DEF Spec

-----------------------------------------------------------------------------
(* The user who waits for the answers. *)

(* One message is under way at a time. *)
LEMMA Alone ==
    ASSUME TypeInv, CalmInv, Calm, NEW m \in Messages, task[m].phase \in Underway
    PROVE  \A k \in Messages : k # m => task[k].phase \in {"unsent", "ended", "error"}
<1> SUFFICES ASSUME NEW k \in Messages, k # m, task[k].phase # "unsent"
             PROVE  Over(k)
  BY DEF Over
<1>1. task[k].calm /\ task[m].calm
  BY DEF Calm
<1>2. CASE k < m
  <2>1. k \in 1..m-1
    BY <1>2 DEF Messages
  <2> QED BY <1>1, <2>1 DEF CalmInv, Underway
<1>3. CASE m < k
  <2>1. m \in 1..k-1
    BY <1>3 DEF Messages
  <2>2. Over(m)
    BY <1>1, <2>1 DEF CalmInv
  <2> QED BY <2>2 DEF Over, Underway
<1> QED BY <1>2, <1>3 DEF Messages

(* A message under way goes on: what it keeps without anyone's patience. *)
LEMMA CalmKept ==
    ASSUME TypeInv, CalmInv, NEW m \in Messages, Only(m), task[m].phase \in Underway,
           task'[m].calm = task[m].calm
    PROVE  CalmInv' /\ (Calm' => Calm)
<1>1. \A k \in Messages : Over(k) => Over(k)'
  BY DEF Over, Only, Underway
<1>2. CalmInv'
  <2> SUFFICES ASSUME NEW j \in Messages, task'[j].calm, task'[j].phase # "unsent",
                      NEW k \in 1..j-1
               PROVE  Over(k)'
    BY DEF CalmInv
  <2>1. task[j].calm /\ task[j].phase # "unsent"
    BY DEF Only, Underway
  <2>2. k \in Messages
    BY ChatAssumption DEF Messages
  <2> QED BY <1>1, <2>1, <2>2 DEF CalmInv
<1>3. Calm' => Calm
  BY DEF Calm, Only
<1> QED BY <1>2, <1>3

(* A step that leaves the checkpoints alone keeps their owners. *)
LEMMA BusyKept ==
    ASSUME TypeInv, BusyInv, OwnerInv, NEW m \in Messages, Only(m), UNCHANGED ckpt,
           task'[m].msg = task[m].msg, ~At(m, "execute")
    PROVE  BusyInv' /\ OwnerInv'
<1>1. BusyInv'
  <2> SUFFICES ASSUME NEW t \in Messages, ckpt[t].next = "execute" PROVE Executing(t)'
    BY DEF BusyInv
  <2>1. PICK k \in Messages : task[k].thread = t /\ At(k, "execute")
    BY DEF BusyInv, Executing
  <2> QED BY <2>1 DEF Executing, At, Only
<1>2. OwnerInv'
  BY DEF OwnerInv, Only
<1> QED BY <1>1, <1>2

(* What has to be shown of a step of m before its handler ends. *)
LEMMA CalmMoves ==
    ASSUME ChatInv, Calm, NEW m \in Messages, Only(m), task[m].phase \in Underway,
           task'[m].phase # "ended", task'[m].msg = task[m].msg,
           state'[1].instructions = state[1].instructions,
           \A k \in Messages : k # m /\ task[k].phase = "ended" =>
              /\ ckpt'[k].instructions = ckpt[k].instructions
              /\ task[k].msg.type = "message" => ckpt'[k].next \in Settled,
           \A k \in Messages : k # m => Attempted(k)' = Attempted(k),
           CkptAt(m)', ListAt(m)', SessionAt(m)'
    PROVE  MessagesInv' /\ Accumulated'
<1>1. TypeInv /\ CalmInv /\ MessagesInv /\ Accumulated
  BY DEF ChatInv, IInv
<1>2. \A k \in Messages : k # m => task[k].phase \in {"unsent", "ended", "error"}
  BY <1>1, Alone
<1>3. ASSUME NEW k \in Messages, k # m PROVE CkptAt(k)' /\ ListAt(k)' /\ SessionAt(k)'
  <2>1. task'[k] = task[k] /\ task[k].phase \in {"unsent", "ended", "error"}
    BY <1>2, <1>3 DEF Only
  <2>2. CkptAt(k) /\ ListAt(k)
    BY <1>1 DEF MessagesInv
  <2>3. CkptAt(k)'
    BY <1>3, <2>1, <2>2 DEF CkptAt
  <2>4. ListAt(k)'
    BY <1>3, <2>1, <2>2 DEF ListAt
  <2>5. SessionAt(k)'
    BY <2>1 DEF SessionAt
  <2> QED BY <2>3, <2>4, <2>5
<1>4. MessagesInv'
  BY <1>3 DEF MessagesInv
<1>5. ASSUME NEW q \in Messages, Refines(q)' PROVE Known(q)'
  <2>1. q # m /\ task'[q] = task[q] /\ task[q].phase = "ended"
    BY <1>5 DEF Refines, Only
  <2>2. ckpt'[q].instructions = ckpt[q].instructions
    BY <2>1
  <2>3. \A k \in q+1..MaxMessages : task[k].phase = "ended" => task[k].msg.text # "select"
    <3> SUFFICES ASSUME NEW k \in q+1..MaxMessages, task[k].phase = "ended"
                 PROVE  task[k].msg.text # "select"
      OBVIOUS
    <3>1. k \in Messages /\ k # m
      BY ChatAssumption DEF Messages, Underway
    <3> QED BY <1>5, <3>1 DEF Refines, Only
  <2>4. Refines(q)
    BY <1>5, <2>1, <2>2, <2>3 DEF Refines
  <2> QED BY <1>1, <2>4 DEF Accumulated, Known
<1>6. Accumulated'
  BY <1>5 DEF Accumulated
<1> QED BY <1>4, <1>6

(* A run that saves a state, for the user who waits. *)
LEMMA SaveUnderstands ==
    ASSUME ChatInv, NEW m \in Messages, NEW g \in GraphType, NEW ph \in {"running", "returned"},
           Save(m, g, ph),
           \/ task[m].phase = "running"
           \/ task[m].phase = "pooled" /\ task[m].msg.type = "message",
           task[m].graph.next = "execute" => g.next = "end",
           g.next = "execute" => ph = "running",
           ph = "returned" => g.next = "end",
           task[m].graph.next \in Settled =>
              g.next \in Settled /\ g.instructions = task[m].graph.instructions,
           task[m].msg.type = "message" /\ task[m].msg.text # "select" =>
              Carries(task[m].graph.instructions, g.instructions),
           Calm => (g.picks # {} => g.confirmed \subseteq task[m].msg.picks
                                    /\ Attempted(m) \subseteq task[m].msg.picks),
           UNCHANGED <<state, log>>
    PROVE  /\ CalmInv' /\ BusyInv' /\ OwnerInv'
           /\ Calm' => MessagesInv' /\ Accumulated'
<1> DEFINE th == task[m].thread
<1>1. TypeInv /\ TasksInv /\ ThreadsInv /\ CalmInv /\ BusyInv /\ OwnerInv
  BY DEF ChatInv, IInv
<1>2. task[m] \in TaskType /\ th \in Messages /\ task[th].msg.type = "message"
      /\ (task[m].msg.type = "message" => th = m) /\ task[m].msg.type # "none"
  <2>1. task[m] \in TaskType
    BY <1>1 DEF TypeInv
  <2>2. (task[m].msg.type = "message" => th = m) /\ task[m].msg.type # "none"
    BY <1>1 DEF TasksInv, TaskInv
  <2>3. th # 0
    BY <1>1 DEF TasksInv, TaskInv
  <2> QED BY <1>1, <2>1, <2>2, <2>3 DEF TaskType, ThreadsInv, IsThread
<1>3. /\ Only(m) /\ task' \in [Messages -> TaskType]
      /\ task'[m].graph = g /\ task'[m].phase = ph
      /\ task'[m].msg = task[m].msg /\ task'[m].of = task[m].of
      /\ task'[m].thread = th /\ task'[m].calm = task[m].calm
      /\ ckpt' \in [Messages -> GraphType]
      /\ \A t \in Messages : ckpt'[t] = IF t = th THEN g ELSE ckpt[t]
  <2>1. ph \in Phases /\ TypeInv /\ Save(m, g, ph)
    BY <1>1 DEF Phases
  <2>2. task'[m].phase = ph
    BY <1>1, <1>2 DEF Save, TypeInv, TaskType
  <2>3. /\ Only(m) /\ task' \in [Messages -> TaskType]
        /\ task'[m].graph = g
        /\ task'[m].msg = task[m].msg /\ task'[m].of = task[m].of
        /\ task'[m].thread = task[m].thread /\ task'[m].calm = task[m].calm
        /\ ckpt' \in [Messages -> GraphType]
        /\ \A t \in Messages : ckpt'[t] = IF t = task[m].thread THEN g ELSE ckpt[t]
    BY ONLY <2>1, SaveEffect, m \in Messages, g \in GraphType, ZenonT(40)
  <2> QED BY <2>2, <2>3
<1>4. CalmInv' /\ (Calm' => Calm)
  BY <1>1, <1>3, CalmKept DEF Underway
<1>5. BusyInv'
  <2> SUFFICES ASSUME NEW t \in Messages, ckpt'[t].next = "execute" PROVE Executing(t)'
    BY DEF BusyInv
  <2>1. CASE t = th
    BY <1>3, <2>1 DEF Executing, At
  <2>2. CASE t # th
    <3>1. PICK k \in Messages : task[k].thread = t /\ At(k, "execute")
      BY <1>1, <1>3, <2>2 DEF BusyInv, Executing
    <3>2. k # m
      BY <2>2, <3>1
    <3> QED BY <3>1, <3>2, <1>3 DEF Executing, At, Only
  <2> QED BY <2>1, <2>2
<1>6. OwnerInv'
  BY <1>1, <1>2, <1>3 DEF OwnerInv, Only
<1>7. ASSUME Calm PROVE MessagesInv' /\ Accumulated'
  <2>1. CkptAt(m) /\ SessionAt(m) /\ \A k \in Messages : CkptAt(k)
    BY <1>7 DEF ChatInv, MessagesInv
  <2>2. CkptAt(m)'
    BY <1>2, <1>3 DEF CkptAt, Settled
  <2>3. ListAt(m)'
    <3>1. Attempted(m)' = Attempted(m)
      BY DEF Attempted
    <3> QED BY <1>3, <1>7, <3>1 DEF ListAt
  <2>4. SessionAt(m)'
    <3> SUFFICES ASSUME task[m].msg.type = "message", task[m].of = 1,
                        task[m].msg.text # "select"
                 PROVE  Carries(state[1].instructions, g.instructions)
      BY <1>3 DEF SessionAt
    <3>1. Carries(state[1].instructions, task[m].graph.instructions)
      BY <2>1 DEF SessionAt
    <3>2. Carries(task[m].graph.instructions, g.instructions)
      OBVIOUS
    <3> QED BY <3>1, <3>2 DEF Carries
  <2>5. ASSUME NEW k \in Messages, k # m, task[k].phase = "ended"
        PROVE  /\ ckpt'[k].instructions = ckpt[k].instructions
               /\ task[k].msg.type = "message" => ckpt'[k].next \in Settled
    <3>1. CASE k # th
      BY <1>3, <2>1, <2>5, <3>1 DEF CkptAt
    <3>2. CASE k = th
      <4>1. task[m].msg.type = "approve" /\ task[m].phase = "running"
        BY <1>2, <2>5, <3>2 DEF TaskType, MessageType
      <4>2. ckpt[k] = task[m].graph /\ ckpt[k].next \in Settled
        BY <1>2, <2>1, <2>5, <3>2, <4>1 DEF CkptAt
      <4> QED BY <1>3, <3>2, <4>2
    <3> QED BY <3>1, <3>2
  <2>6. task'[m].phase # "ended" /\ task[m].phase \in Underway
        /\ state'[1].instructions = state[1].instructions
    BY <1>3 DEF Underway
  <2>7. \A k \in Messages : Attempted(k)' = Attempted(k)
    BY DEF Attempted
  <2> HIDE DEF th
  <2> QED BY <1>3, <1>7, <2>2, <2>3, <2>4, <2>5, <2>6, <2>7, CalmMoves
<1> QED BY <1>4, <1>5, <1>6, <1>7

(* Longer lists carry shorter ones. *)
LEMMA CarriesMore ==
    ASSUME NEW q \in Seq(Messages), NEW t \in Messages
    PROVE  Carries(q, q) /\ Carries(q, Append(q, t))
<1>1. Carries(q, q)
  BY DEF Carries
<1>2. Len(Append(q, t)) = Len(q) + 1 /\ \A i \in 1..Len(q) : Append(q, t)[i] = q[i]
  OBVIOUS
<1>3. \A i \in 1..Len(q) : i \in 1..Len(q) + 1
  OBVIOUS
<1>4. Carries(q, Append(q, t))
  BY <1>2, <1>3 DEF Carries
<1> QED BY <1>1, <1>4

(* What the waiting user's lists say of the run of m. *)
LEMMA OwnList ==
    ASSUME ChatInv, NEW m \in Messages, Calm, task[m].graph.picks # {}
    PROVE  /\ task[m].graph.confirmed \subseteq task[m].msg.picks
           /\ Attempted(m) \subseteq task[m].msg.picks
BY DEF ChatInv, MessagesInv, ListAt

LEMMA RunStartsUnderstands ==
    ASSUME ChatInv, NEW m \in Messages, RunStarts(m)
    PROVE  /\ CalmInv' /\ BusyInv' /\ OwnerInv'
           /\ Calm' => MessagesInv' /\ Accumulated'
<1> DEFINE g == [task[m].graph EXCEPT !.next = "interpret"]
<1>1. /\ StartsNext(m) /\ Save(m, g, "running") /\ task[m].msg.type = "message"
      /\ UNCHANGED <<conn, sess, state, inbox, cards, log>>
  BY DEF RunStarts
<1>2. /\ task[m].phase = "pooled" /\ task[m].graph \in GraphType
      /\ task[m].graph.next = "none" /\ task[m].graph.picks = {}
  BY <1>1, WorkStarts DEF ChatInv
<1>3. /\ g \in GraphType /\ g.next = "interpret" /\ g.picks = {}
      /\ g.instructions = task[m].graph.instructions
      /\ g.instructions \in Seq(Messages)
  BY <1>2 DEF GraphType, Nodes
<1> HIDE DEF g
<1>4. Carries(task[m].graph.instructions, g.instructions)
  BY <1>3, CarriesMore DEF Carries
<1>5. task[m].graph.next \notin Settled
  BY <1>2 DEF Settled
<1> QED BY <1>1, <1>2, <1>3, <1>4, <1>5, SaveUnderstands

LEMMA InterpretUnderstands ==
    ASSUME ChatInv, NEW m \in Messages, Interpret(m)
    PROVE  /\ CalmInv' /\ BusyInv' /\ OwnerInv'
           /\ Calm' => MessagesInv' /\ Accumulated'
<1> DEFINE th == task[m].thread
<1>1. At(m, "interpret") /\ UNCHANGED <<conn, sess, state, inbox, pool, cards, log>>
  BY DEF Interpret
<1>2. /\ TypeInv /\ TasksInv /\ th \in Messages /\ task[m].graph \in GraphType
      /\ task[m].phase = "running" /\ task[m].graph.next = "interpret"
      /\ GraphInv(task[m].graph, ApprovedPicks)
  BY <1>1, NodeFacts DEF ChatInv, IInv
<1>3. task[th].msg.text \in Texts
  BY <1>2 DEF TypeInv, TaskType, MessageType
<1>4. PICK g \in InterpretText(task[th].msg.text, th, task[m].graph) : Save(m, g, "running")
  BY DEF Interpret
<1>5. /\ g \in GraphType /\ g.next \in {"select", "chat_reply", "execute"}
      /\ g.picks = task[m].graph.picks
      /\ \/ g.instructions = task[m].graph.instructions
         \/ g.instructions = Append(task[m].graph.instructions, th)
         \/ task[th].msg.text = "select"
  BY <1>2, <1>3, InterpretFacts DEF Interpreted
<1>6. g.picks = {} /\ task[m].graph.next \notin Settled
  BY <1>2, <1>5 DEF GraphInv, Early, Settled
<1>7. task[m].msg.type = "message" /\ task[m].msg.text # "select" =>
         Carries(task[m].graph.instructions, g.instructions)
  <2>1. task[m].graph.instructions \in Seq(Messages)
    BY <1>2 DEF GraphType
  <2>2. task[m].msg.type = "message" => th = m
    BY <1>2 DEF TasksInv, TaskInv
  <2> HIDE DEF th
  <2> QED BY <1>2, <1>5, <2>1, <2>2, CarriesMore
<1> QED BY <1>1, <1>2, <1>4, <1>5, <1>6, <1>7, SaveUnderstands

LEMMA SelectUnderstands ==
    ASSUME ChatInv, NEW m \in Messages, Select(m)
    PROVE  /\ CalmInv' /\ BusyInv' /\ OwnerInv'
           /\ Calm' => MessagesInv' /\ Accumulated'
<1>1. At(m, "select") /\ UNCHANGED <<conn, sess, state, inbox, pool, log>>
  BY DEF Select
<1>2. /\ task[m].graph \in GraphType /\ IInv
      /\ task[m].phase = "running" /\ task[m].graph.next = "select"
      /\ GraphInv(task[m].graph, ApprovedPicks)
  BY <1>1, NodeFacts DEF ChatInv
<1>3. PICK picks \in {PicksOf(m), {}} :
         Save(m, Selected(task[m].graph, picks),
              IF Selected(task[m].graph, picks).next = "end" THEN "returned" ELSE "running")
  BY DEF Select
<1> DEFINE g == Selected(task[m].graph, picks)
           ph == IF g.next = "end" THEN "returned" ELSE "running"
<1>4. /\ g \in GraphType /\ g.confirmed = {} /\ g.next \in {"end", "wait_approval"}
      /\ g.instructions = task[m].graph.instructions /\ g.instructions \in Seq(Messages)
  <2>1. picks \subseteq Picks /\ task[m].graph.confirmed = {}
    BY <1>2, Blanks DEF GraphInv, Late
  <2> QED BY <1>2, <2>1 DEF Selected, GraphType, Nodes
<1>5. ph \in {"running", "returned"} /\ Save(m, g, ph) /\ (ph = "returned" => g.next = "end")
  BY <1>3
<1> HIDE DEF g, ph
<1>6. Attempted(m) = {} /\ task[m].graph.next \notin Settled
  BY <1>2, NothingYet DEF Late, Settled
<1>7. Carries(task[m].graph.instructions, g.instructions)
  BY <1>4, CarriesMore DEF Carries
<1> QED BY <1>1, <1>2, <1>4, <1>5, <1>6, <1>7, SaveUnderstands

LEMMA WaitApprovalUnderstands ==
    ASSUME ChatInv, NEW m \in Messages, WaitApproval(m)
    PROVE  /\ CalmInv' /\ BusyInv' /\ OwnerInv'
           /\ Calm' => MessagesInv' /\ Accumulated'
<1> DEFINE g == Confirmed(task[m].graph, task[m].msg.picks)
<1>1. /\ At(m, "wait_approval") /\ Save(m, g, "running")
      /\ UNCHANGED <<conn, sess, state, inbox, pool, cards, log>>
  BY DEF WaitApproval
<1>2. /\ IInv /\ task[m] \in TaskType /\ task[m].graph \in GraphType
      /\ task[m].phase = "running" /\ task[m].graph.next = "wait_approval"
  BY <1>1, NodeFacts DEF ChatInv
<1>3. /\ g \in GraphType /\ g.next = "execute" /\ g.confirmed = task[m].msg.picks
      /\ g.instructions = task[m].graph.instructions /\ g.instructions \in Seq(Messages)
  BY <1>2 DEF Confirmed, GraphType, Nodes, TaskType, MessageType
<1> HIDE DEF g
<1>4. Attempted(m) = {}
  BY <1>2, NothingYet DEF Late
<1>5. Carries(task[m].graph.instructions, g.instructions)
  BY <1>3, CarriesMore DEF Carries
<1> QED BY <1>1, <1>2, <1>3, <1>4, <1>5, SaveUnderstands DEF Settled

LEMMA EndUnderstands ==
    ASSUME ChatInv, NEW m \in Messages, At(m, "execute") \/ At(m, "chat_reply"),
           Save(m, [task[m].graph EXCEPT !.next = "end"], "returned"),
           UNCHANGED <<state, log>>
    PROVE  /\ CalmInv' /\ BusyInv' /\ OwnerInv'
           /\ Calm' => MessagesInv' /\ Accumulated'
<1> DEFINE g == [task[m].graph EXCEPT !.next = "end"]
<1>1. task[m].graph \in GraphType /\ task[m].phase = "running"
  BY NodeFacts DEF ChatInv
<1>2. /\ g \in GraphType /\ g.next = "end" /\ g.picks = task[m].graph.picks
      /\ g.confirmed = task[m].graph.confirmed
      /\ g.instructions = task[m].graph.instructions /\ g.instructions \in Seq(Messages)
  BY <1>1 DEF GraphType, Nodes
<1>3. Save(m, g, "returned")
  OBVIOUS
<1> HIDE DEF g
<1>4. Carries(task[m].graph.instructions, g.instructions)
  BY <1>2, CarriesMore DEF Carries
<1>5. Calm => (g.picks # {} => g.confirmed \subseteq task[m].msg.picks
                               /\ Attempted(m) \subseteq task[m].msg.picks)
  BY <1>2, OwnList
<1> QED BY <1>1, <1>2, <1>3, <1>4, <1>5, SaveUnderstands DEF Settled

(* A step that changes neither sessions nor checkpoints nor the log. *)
LEMMA QuietUnderstands ==
    ASSUME ChatInv, NEW m \in Messages, Only(m), task[m].phase \in Underway,
           ~At(m, "execute"), task'[m].phase # "ended",
           task'[m].msg = task[m].msg, task'[m].calm = task[m].calm,
           UNCHANGED <<ckpt, log>>, state'[1].instructions = state[1].instructions,
           Calm => CkptAt(m)' /\ ListAt(m)' /\ SessionAt(m)'
    PROVE  /\ CalmInv' /\ BusyInv' /\ OwnerInv'
           /\ Calm' => MessagesInv' /\ Accumulated'
<1>1. TypeInv /\ CalmInv /\ BusyInv /\ OwnerInv
  BY DEF ChatInv, IInv
<1>2. CalmInv' /\ (Calm' => Calm)
  BY <1>1, CalmKept
<1>3. BusyInv' /\ OwnerInv'
  BY <1>1, BusyKept
<1>4. ASSUME Calm PROVE MessagesInv' /\ Accumulated'
  <2>1. \A k \in Messages : Attempted(k)' = Attempted(k)
    BY DEF Attempted
  <2>2. \A k \in Messages : k # m /\ task[k].phase = "ended" =>
           /\ ckpt'[k].instructions = ckpt[k].instructions
           /\ task[k].msg.type = "message" => ckpt'[k].next \in Settled
    BY <1>4 DEF ChatInv, MessagesInv, CkptAt
  <2> QED BY <1>4, <2>1, <2>2, CalmMoves
<1> QED BY <1>2, <1>3, <1>4

LEMMA InterruptUnderstands ==
    ASSUME ChatInv, NEW m \in Messages, Interrupt(m) \/ RunRaises(m)
    PROVE  /\ CalmInv' /\ BusyInv' /\ OwnerInv'
           /\ Calm' => MessagesInv' /\ Accumulated'
<1>1. PICK ph \in {"returned", "error"} :
         /\ task' = [task EXCEPT ![m].phase = ph]
         /\ ph = "returned" => task[m].graph.next = "wait_approval"
  BY DEF Interrupt, RunRaises, At
<1>2. /\ task[m].phase = "running" /\ ~At(m, "execute")
      /\ UNCHANGED <<state, ckpt, log>>
  BY DEF Interrupt, RunRaises, At
<1>3. TypeInv /\ task[m] \in TaskType
  BY DEF ChatInv, IInv, TypeInv
<1>4. /\ Only(m) /\ task'[m].phase = ph /\ task'[m].graph = task[m].graph
      /\ task'[m].msg = task[m].msg /\ task'[m].of = task[m].of
  BY <1>1, <1>3 DEF TypeInv, TaskType, Only
<1>5. task'[m].calm = task[m].calm
  BY <1>1, <1>3 DEF TypeInv, TaskType
<1>6. Calm => CkptAt(m)' /\ ListAt(m)' /\ SessionAt(m)'
  <2> SUFFICES ASSUME Calm PROVE CkptAt(m)' /\ ListAt(m)' /\ SessionAt(m)'
    OBVIOUS
  <2>1. CkptAt(m) /\ ListAt(m) /\ SessionAt(m)
    BY DEF ChatInv, MessagesInv
  <2>2. CkptAt(m)'
    BY <1>1, <1>2, <1>4, <2>1 DEF CkptAt, Settled
  <2>3. ListAt(m)'
    BY <1>2, <1>4, <2>1 DEF ListAt, Attempted
  <2>4. SessionAt(m)'
    BY <1>2, <1>4, <2>1 DEF SessionAt
  <2> QED BY <2>2, <2>3, <2>4
<1>7. task[m].phase \in Underway /\ task'[m].phase # "ended"
  BY <1>1, <1>2, <1>4 DEF Underway
<1> QED BY <1>2, <1>4, <1>5, <1>6, <1>7, QuietUnderstands

LEMMA ResumeUnderstands ==
    ASSUME ChatInv, NEW m \in Messages, ResumeStarts(m)
    PROVE  /\ CalmInv' /\ BusyInv' /\ OwnerInv'
           /\ Calm' => MessagesInv' /\ Accumulated'
<1> DEFINE g == ckpt[task[m].thread]
<1>1. StartsNext(m) /\ task[m].msg.type = "approve" /\ UNCHANGED <<state, ckpt, log>>
  BY DEF ResumeStarts
<1>2. /\ task[m].phase = "pooled" /\ task[m] \in TaskType /\ task[m].thread \in Messages
      /\ task[m].graph.picks = {} /\ Attempted(m) = {}
  BY <1>1, WorkStarts DEF ChatInv
<1>3. TypeInv /\ GraphsInv /\ BusyInv /\ CalmInv
  BY DEF ChatInv, IInv
<1>4. PICK ph \in {"running", "returned"} :
         /\ Only(m) /\ task'[m].phase = ph /\ task'[m].msg = task[m].msg
         /\ task'[m].thread = task[m].thread
         /\ task'[m].graph = IF ph = "running" THEN g ELSE task[m].graph
  BY <1>2, <1>3 DEF ResumeStarts, TypeInv, TaskType, Only
<1>5. task'[m].calm = task[m].calm
  BY <1>2, <1>3 DEF ResumeStarts, TypeInv, TaskType
<1>6. ASSUME Calm PROVE CkptAt(m)' /\ ListAt(m)' /\ SessionAt(m)'
  <2>1. CkptAt(m)'
    BY <1>1, <1>4 DEF CkptAt
  <2>2. g.next # "execute"
    <3> SUFFICES ASSUME NEW k \in Messages, At(k, "execute") PROVE FALSE
      BY <1>2, <1>3 DEF BusyInv, Executing
    <3>1. k # m => task[k].phase \in {"unsent", "ended", "error"}
      BY <1>2, <1>3, <1>6, Alone DEF Underway
    <3> QED BY <1>2, <3>1 DEF At
  <2>3. g.confirmed = {} \/ g.next = "end"
    BY <1>2, <1>3, <2>2 DEF GraphsInv, GraphInv, Late
  <2>4. ph = "running" => g.next # "end"
    BY <1>2, <1>3, <1>4 DEF ResumeStarts, TypeInv, TaskType
  <2>5. Attempted(m)' = {}
    BY <1>1, <1>2 DEF Attempted
  <2>6. ListAt(m)'
    BY <1>2, <1>4, <2>3, <2>4, <2>5 DEF ListAt
  <2>7. SessionAt(m)'
    BY <1>1, <1>4 DEF SessionAt
  <2> QED BY <2>1, <2>6, <2>7
<1>7. task[m].phase \in Underway /\ task'[m].phase # "ended" /\ ~At(m, "execute")
  BY <1>2, <1>4 DEF Underway, At
<1> QED BY <1>1, <1>4, <1>5, <1>6, <1>7, QuietUnderstands

LEMMA HandleUnderstands ==
    ASSUME ChatInv, NEW m \in Messages, HandleMessage(m) \/ HandleApprove(m)
    PROVE  /\ CalmInv' /\ BusyInv' /\ OwnerInv'
           /\ Calm' => MessagesInv' /\ Accumulated'
<1>1. TypeInv /\ IInv /\ Handled(m) /\ UNCHANGED <<ckpt, log>>
  BY DEF ChatInv, IInv, HandleMessage, HandleApprove
<1>2. /\ task[m].phase = "queued" /\ task[m].graph.next = "none" /\ task[m].graph.picks = {}
      /\ task[m] \in TaskType /\ Session \in States
  BY <1>1, HandlingStarts
<1>3. /\ Only(m) /\ task'[m].phase \in {"pooled", "error"} /\ task'[m].msg = task[m].msg
      /\ task'[m].graph.picks = {}
      /\ task[m].msg.type = "message" =>
           /\ task'[m].of = Session
           /\ task'[m].graph.instructions = state[Session].instructions
  <2>1. CASE HandleMessage(m)
    BY <1>1, <1>2, <2>1 DEF HandleMessage, TypeInv, TaskType, GraphType, Only
  <2>2. CASE HandleApprove(m)
    BY <1>1, <1>2, <2>2 DEF HandleApprove, TypeInv, TaskType, Only
  <2> QED BY <2>1, <2>2
<1>4. task'[m].calm = task[m].calm
  <2>1. CASE HandleMessage(m)
    BY <1>1, <1>2, <2>1 DEF HandleMessage, TypeInv, TaskType
  <2>2. CASE HandleApprove(m)
    BY <1>1, <1>2, <2>2 DEF HandleApprove, TypeInv, TaskType
  <2> QED BY <2>1, <2>2
<1>5. \A k \in States : state'[k].instructions = state[k].instructions
  <2>1. CASE HandleMessage(m)
    <3> DEFINE k == Session
               a == state[k].account \/ task[m].msg.account
               h == IF a THEN m ELSE state[k].thread_id
    <3>1. state' = [state EXCEPT ![k].account = a, ![k].thread_id = h]
      BY <1>1, <1>2, <2>1 DEF HandleMessage, TypeInv
    <3> HIDE DEF k, a, h
    <3> QED BY <1>1, <3>1 DEF TypeInv, StateType
  <2>2. CASE HandleApprove(m)
    BY <2>2 DEF HandleApprove
  <2> QED BY <2>1, <2>2
<1>6. CkptAt(m)' /\ ListAt(m)'
  BY <1>3 DEF CkptAt, ListAt
<1>7. SessionAt(m)'
  <2> SUFFICES ASSUME task[m].msg.type = "message", task'[m].of = 1
               PROVE  Carries(state'[1].instructions, task'[m].graph.instructions)
    BY <1>3 DEF SessionAt
  <2>1. /\ task'[m].graph.instructions = state'[1].instructions
        /\ state'[1].instructions \in Seq(Messages)
    BY <1>1, <1>2, <1>3, <1>5 DEF TypeInv, StateType
  <2> QED BY <2>1, CarriesMore DEF Carries
<1>8. /\ task[m].phase \in Underway /\ task'[m].phase # "ended" /\ ~At(m, "execute")
      /\ state'[1].instructions = state[1].instructions
  BY <1>2, <1>3, <1>5 DEF Underway, At, States
<1> QED BY <1>1, <1>3, <1>4, <1>6, <1>7, <1>8, QuietUnderstands

LEMMA ExecuteUnderstands ==
    ASSUME ChatInv, NEW m \in Messages, ExecutePick(m)
    PROVE  /\ CalmInv' /\ BusyInv' /\ OwnerInv'
           /\ Calm' => MessagesInv' /\ Accumulated'
<1>1. At(m, "execute") /\ UNCHANGED <<state, task, ckpt>>
  BY DEF ExecutePick
<1>2. PICK p \in Todo(m), b \in BOOLEAN : log' = log \cup {[task |-> m, pick |-> p, raised |-> b]}
  BY DEF ExecutePick
<1>3. \A k \in Messages : Attempted(k)' = IF k = m THEN Attempted(m) \cup {p} ELSE Attempted(k)
  <2> DEFINE e == [task |-> m, pick |-> p, raised |-> b]
  <2>1. e.task = m /\ e.pick = p /\ log' = log \cup {e}
    BY <1>2
  <2> HIDE DEF e
  <2> SUFFICES ASSUME NEW k \in Messages, NEW q
               PROVE  q \in Attempted(k)' <=> q \in Attempted(k) \/ (k = m /\ q = p)
    OBVIOUS
  <2>2. q \in Attempted(k)' <=> \E x \in log' : x.task = k /\ x.pick = q
    BY DEF Attempted
  <2>3. q \in Attempted(k) <=> \E x \in log : x.task = k /\ x.pick = q
    BY DEF Attempted
  <2> QED BY <2>1, <2>2, <2>3
<1>4. TypeInv /\ CalmInv /\ BusyInv /\ OwnerInv
  BY DEF ChatInv, IInv
<1>5. CalmInv' /\ BusyInv' /\ OwnerInv' /\ (Calm' => Calm)
  BY <1>1, <1>4 DEF CalmInv, Over, BusyInv, Executing, At, OwnerInv, Calm
<1>6. ASSUME Calm PROVE MessagesInv' /\ Accumulated'
  <2>1. MessagesInv /\ Accumulated /\ CkptAt(m) /\ ListAt(m) /\ SessionAt(m)
    BY <1>6 DEF ChatInv, MessagesInv
  <2>2. ASSUME NEW k \in Messages PROVE CkptAt(k)' /\ ListAt(k)' /\ SessionAt(k)'
    <3>1. CkptAt(k) /\ ListAt(k) /\ SessionAt(k)
      BY <2>1 DEF MessagesInv
    <3>2. CkptAt(k)' /\ SessionAt(k)'
      BY <1>1, <3>1 DEF CkptAt, SessionAt
    <3>3. ListAt(k)'
      BY <1>1, <1>2, <1>3, <3>1 DEF ListAt, Todo
    <3> QED BY <3>2, <3>3
  <2>3. Accumulated'
    BY <1>1, <2>1 DEF Accumulated, Refines, Known
  <2> QED BY <2>2, <2>3 DEF MessagesInv
<1> QED BY <1>5, <1>6

LEMMA HandlerUnderstands ==
    ASSUME ChatInv, NEW m \in Messages, HandlerEnds(m)
    PROVE  /\ CalmInv' /\ BusyInv' /\ OwnerInv'
           /\ Calm' => MessagesInv' /\ Accumulated'
<1>1. /\ TypeInv /\ TasksInv /\ CalmInv /\ BusyInv /\ OwnerInv
      /\ task[m] \in TaskType /\ task[m].phase = "returned"
      /\ task' = [task EXCEPT ![m].phase = "ended"] /\ UNCHANGED <<ckpt, log>>
  BY DEF ChatInv, IInv, TypeInv, HandlerEnds
<1>2. /\ Only(m) /\ task'[m].phase = "ended" /\ task'[m].msg = task[m].msg
      /\ task'[m].of = task[m].of /\ task'[m].graph = task[m].graph
  BY <1>1 DEF TypeInv, TaskType, Only
<1>3. task'[m].calm = task[m].calm
  BY <1>1 DEF TypeInv, TaskType
<1>4. CalmInv' /\ (Calm' => Calm) /\ BusyInv' /\ OwnerInv'
  <2>1. task[m].phase \in Underway /\ ~At(m, "execute")
    BY <1>1 DEF Underway, At
  <2> QED BY <1>1, <1>2, <1>3, <2>1, CalmKept, BusyKept
<1>5. task[m].msg.type \in {"message", "approve"}
  BY <1>1 DEF TasksInv, TaskInv, TaskType, MessageType
<1>6. state'[1].instructions = IF task[m].msg.type = "message" /\ task[m].of = 1
                               THEN task[m].graph.instructions ELSE state[1].instructions
  <2> DEFINE g == task[m].graph
             k == task[m].of
             p == IF g.picks = {} THEN state[k].last_picks ELSE g.picks
  <2>1. state' = IF task[m].msg.type = "approve" THEN state
                 ELSE [state EXCEPT ![k].instructions = g.instructions, ![k].last_picks = p]
    BY DEF HandlerEnds
  <2> HIDE DEF g, k, p
  <2>2. state'[1].instructions = IF task[m].msg.type # "approve" /\ k = 1
                                 THEN g.instructions ELSE state[1].instructions
    BY <1>1, <2>1 DEF TypeInv, StateType, States
  <2> QED BY <1>5, <2>2 DEF g, k
<1>7. ASSUME Calm PROVE MessagesInv' /\ Accumulated'
  <2>1. MessagesInv /\ Accumulated /\ CkptAt(m) /\ ListAt(m) /\ SessionAt(m)
    BY <1>7 DEF ChatInv, MessagesInv
  <2>2. \A k \in Messages : k # m => task[k].phase \in {"unsent", "ended", "error"}
    BY <1>1, <1>7, Alone DEF Underway
  <2>3. ASSUME NEW k \in Messages PROVE CkptAt(k)' /\ ListAt(k)' /\ SessionAt(k)'
    <3>1. CkptAt(k) /\ ListAt(k)
      BY <2>1 DEF MessagesInv
    <3>2. CkptAt(k)'
      BY <1>1, <1>2, <3>1 DEF CkptAt, Only
    <3>3. ListAt(k)'
      BY <1>1, <1>2, <3>1 DEF ListAt, Attempted, Only
    <3>4. SessionAt(k)'
      BY <1>2, <2>2 DEF SessionAt, Only
    <3> QED BY <3>2, <3>3, <3>4
  <2>4. ASSUME NEW q \in Messages, Refines(q)', q # m PROVE Refines(q) /\ Known(q)
    <3>1. task'[q] = task[q] /\ ckpt' = ckpt
      BY <1>1, <1>2, <2>4 DEF Only
    <3>2. \A k \in q+1..MaxMessages : task[k].phase = "ended" => task[k].msg.text # "select"
      <4> SUFFICES ASSUME NEW k \in q+1..MaxMessages, task[k].phase = "ended"
                   PROVE  task[k].msg.text # "select"
        OBVIOUS
      <4>1. k \in Messages /\ k # m
        BY <1>1, ChatAssumption DEF Messages
      <4> QED BY <1>2, <2>4, <4>1 DEF Refines, Only
    <3>3. Refines(q)
      BY <2>4, <3>1, <3>2 DEF Refines
    <3> QED BY <2>1, <3>3 DEF Accumulated
  <2>5. ASSUME NEW q \in Messages, Refines(q)' PROVE Known(q)'
    <3>1. CASE ~(task[m].msg.type = "message" /\ task[m].of = 1)
      <4>1. q # m
        <5> SUFFICES ASSUME q = m PROVE FALSE
          OBVIOUS
        <5>1. task[m].of = 1 /\ ckpt[m].instructions # << >>
          BY <1>1, <1>2, <2>5 DEF Refines
        <5>2. ckpt[m] = NoGraph
          BY <1>1, <3>1, <5>1 DEF OwnerInv
        <5> QED BY <5>1, <5>2 DEF NoGraph
      <4> QED BY <1>6, <2>4, <2>5, <3>1, <4>1 DEF Known
    <3>2. CASE task[m].msg.type = "message" /\ task[m].of = 1 /\ q = m
      <4> DEFINE own == task[m].graph.instructions
      <4>1. ckpt[m] = task[m].graph /\ state'[1].instructions = own /\ own \in Seq(Messages)
        BY <1>1, <1>6, <2>1, <3>2 DEF CkptAt, TaskType, GraphType
      <4>2. own # << >> /\ own[Len(own)] = m
        BY <1>1, <2>5, <3>2, <4>1 DEF Refines
      <4> HIDE DEF own
      <4>3. Len(own) \in 1..Len(own)
        BY <4>1, <4>2
      <4> QED BY <3>2, <4>1, <4>2, <4>3 DEF Known
    <3>3. CASE task[m].msg.type = "message" /\ task[m].of = 1 /\ q # m
      <4>1. Refines(q) /\ Known(q)
        BY <2>4, <2>5, <3>3
      <4>2. q < m
        <5> SUFFICES ASSUME m < q PROVE FALSE
          BY <3>3 DEF Messages
        <5>1. m \in 1..q-1 /\ task[q].calm /\ task[q].phase # "unsent"
          BY <1>7, <4>1 DEF Messages, Calm, Refines
        <5> QED BY <1>1, <5>1 DEF CalmInv, Over
      <4>3. task[m].msg.text # "select"
        <5>1. m \in q+1..MaxMessages
          BY <4>2 DEF Messages
        <5> QED BY <1>2, <2>5, <5>1 DEF Refines
      <4>4. Carries(state[1].instructions, task[m].graph.instructions)
        BY <1>1, <2>1, <3>3, <4>3 DEF SessionAt
      <4> QED BY <1>6, <3>3, <4>1, <4>4 DEF Known, Carries
    <3> QED BY <3>1, <3>2, <3>3
  <2> QED BY <2>3, <2>5 DEF MessagesInv, Accumulated
<1> QED BY <1>4, <1>7

LEMMA ReceiveUnderstands ==
    ASSUME ChatInv, NEW m \in Messages, NEW msg \in MessageType,
           Receive(m, msg), UNCHANGED <<state, ckpt, log>>
    PROVE  /\ CalmInv' /\ BusyInv' /\ OwnerInv'
           /\ Calm' => MessagesInv' /\ Accumulated'
<1>1. TypeInv /\ TasksInv /\ CalmInv /\ BusyInv /\ OwnerInv
  BY DEF ChatInv, IInv
<1>2. task[m] = NoTask /\ task[m].phase = "unsent" /\ task[m].calm
      /\ \A k \in 1..m-1 : task[k].phase # "unsent"
  <2>1. task[m].phase = "unsent" /\ \A k \in 1..m-1 : task[k].phase # "unsent"
    BY DEF Receive
  <2>2. task[m] = NoTask
    BY <1>1, <2>1 DEF TasksInv, TaskInv
  <2>3. NoTask.calm
    BY DEF NoTask
  <2>4. task[m].calm
    BY ONLY <2>2, <2>3, Zenon
  <2> QED BY <2>1, <2>2, <2>4
<1>3. task' = [task EXCEPT ![m].msg = msg, ![m].phase = "queued", ![m].calm = Idle]
  BY DEF Receive
<1>4. /\ Only(m) /\ task'[m].phase = "queued" /\ task'[m].graph = NoGraph
      /\ task'[m].msg = msg
  BY <1>1, <1>2, <1>3 DEF TypeInv, TaskType, Only, NoTask
<1>5. task'[m].calm = Idle
  BY <1>1, <1>2, <1>3 DEF TypeInv, TaskType
<1>6. \A k \in Messages : Over(k) => k # m /\ Over(k)'
  BY <1>2, <1>4 DEF Over, Only
<1>7. CalmInv'
  <2> SUFFICES ASSUME NEW j \in Messages, task'[j].calm, task'[j].phase # "unsent",
                      NEW k \in 1..j-1
               PROVE  Over(k)'
    BY DEF CalmInv
  <2>1. k \in Messages
    BY ChatAssumption DEF Messages
  <2>2. CASE j = m
    BY <1>2, <1>5, <1>6, <2>1, <2>2 DEF Idle
  <2>3. CASE j # m
    BY <1>1, <1>4, <1>6, <2>1, <2>3 DEF CalmInv, Only
  <2> QED BY <2>2, <2>3
<1>8. BusyInv'
  <2> SUFFICES ASSUME NEW t \in Messages, ckpt[t].next = "execute" PROVE Executing(t)'
    BY DEF BusyInv
  <2>1. PICK k \in Messages : task[k].thread = t /\ At(k, "execute")
    BY <1>1 DEF BusyInv, Executing
  <2> QED BY <1>2, <1>4, <2>1 DEF Executing, At, Only
<1>9. OwnerInv'
  BY <1>1, <1>2, <1>4 DEF OwnerInv, Only, NoTask, NoMessage
<1>10. ASSUME Calm' PROVE MessagesInv' /\ Accumulated'
  <2>1. Calm
    BY <1>2, <1>4, <1>10 DEF Calm, Only
  <2>2. MessagesInv /\ Accumulated
    BY <2>1 DEF ChatInv
  <2>3. ASSUME NEW k \in Messages PROVE CkptAt(k)' /\ ListAt(k)' /\ SessionAt(k)'
    <3>1. CASE k = m
      BY <1>4, <3>1 DEF CkptAt, ListAt, SessionAt, NoGraph
    <3>2. CASE k # m
      <4>1. task'[k] = task[k] /\ CkptAt(k) /\ ListAt(k) /\ SessionAt(k)
        BY <1>4, <2>2, <3>2 DEF Only, MessagesInv
      <4>2. CkptAt(k)'
        BY <4>1 DEF CkptAt
      <4>3. ListAt(k)'
        BY <4>1 DEF ListAt, Attempted
      <4>4. SessionAt(k)'
        BY <4>1 DEF SessionAt
      <4> QED BY <4>2, <4>3, <4>4
    <3> QED BY <3>1, <3>2
  <2>4. ASSUME NEW q \in Messages, Refines(q)' PROVE Known(q)'
    <3>1. q # m /\ task'[q] = task[q]
      BY <1>4, <2>4 DEF Refines, Only
    <3>2. \A k \in q+1..MaxMessages : task[k].phase = "ended" => task[k].msg.text # "select"
      <4> SUFFICES ASSUME NEW k \in q+1..MaxMessages, task[k].phase = "ended"
                   PROVE  task[k].msg.text # "select"
        OBVIOUS
      <4>1. k \in Messages /\ k # m
        BY <1>2, ChatAssumption DEF Messages
      <4> QED BY <1>4, <2>4, <4>1 DEF Refines, Only
    <3>3. Refines(q)
      BY <2>4, <3>1, <3>2 DEF Refines
    <3> QED BY <2>2, <3>3 DEF Accumulated, Known
  <2> QED BY <2>3, <2>4 DEF MessagesInv, Accumulated
<1> QED BY <1>7, <1>8, <1>9, <1>10

(* The waiting user's invariant begins and is kept. *)
LEMMA ChatBegins == Init => ChatInv
<1> SUFFICES ASSUME Init PROVE ChatInv
  OBVIOUS
<1>1. CalmInv /\ BusyInv /\ OwnerInv
  BY DEF Init, CalmInv, BusyInv, OwnerInv, NoTask, NoGraph
<1>2. MessagesInv /\ Accumulated
  BY DEF Init, MessagesInv, CkptAt, ListAt, SessionAt, Accumulated, Refines, NoTask, NoGraph,
         NoMessage, Attempted
<1> QED BY <1>1, <1>2, InitHolds DEF ChatInv

LEMMA ChatGoesOn == ChatInv /\ [Next]_vars => ChatInv'
<1> SUFFICES ASSUME ChatInv, [Next]_vars PROVE ChatInv'
  OBVIOUS
<1>1. IInv'
  BY StepKeeps DEF ChatInv
<1> DEFINE Kept == /\ CalmInv' /\ BusyInv' /\ OwnerInv'
                   /\ Calm' => MessagesInv' /\ Accumulated'
<1>2. ASSUME Connect \/ Disconnect \/ UNCHANGED vars PROVE Kept
  <2>1. UNCHANGED <<state, task, ckpt, log>>
    BY <1>2 DEF Connect, Disconnect, vars
  <2>2. CalmInv' /\ BusyInv' /\ OwnerInv' /\ (Calm' => Calm)
    BY <2>1 DEF ChatInv, CalmInv, Over, BusyInv, Executing, At, OwnerInv, Calm
  <2>3. Calm => MessagesInv' /\ Accumulated'
    BY <2>1 DEF ChatInv, MessagesInv, CkptAt, ListAt, SessionAt, Attempted,
                Accumulated, Refines, Known
  <2> QED BY <2>2, <2>3
<1>3. ASSUME NEW m \in Messages, Page(m) PROVE Kept
  <2>1. ASSUME NEW text \in Texts, NEW account \in Filled[m], SendText(m, text, account)
        PROVE  Kept
    <3> DEFINE msg == [NoMessage EXCEPT !.type = "message", !.text = text, !.account = account]
    <3>1. msg \in MessageType
      BY ChatAssumption, Blanks DEF MessageType, Messages
    <3> QED BY <2>1, <3>1, ReceiveUnderstands DEF SendText
  <2>2. ASSUME NEW c \in cards, NEW picks \in SUBSET PicksOf(c), SendApprove(m, c, picks)
        PROVE  Kept
    <3> DEFINE msg == [NoMessage EXCEPT !.type = "approve", !.picks = picks]
    <3>1. picks \subseteq Picks
      BY Blanks DEF ChatInv, IInv, TypeInv
    <3>2. msg \in MessageType
      BY <3>1, Blanks DEF MessageType
    <3> QED BY <2>2, <3>2, ReceiveUnderstands DEF SendApprove
  <2> QED BY <1>3, <2>1, <2>2 DEF Page
<1>4. ASSUME NEW m \in Messages, Server(m) PROVE Kept
  <2>1. CASE ExecuteEnds(m) \/ ChatReply(m)
    BY <2>1, EndUnderstands DEF ExecuteEnds, ChatReply
  <2> QED BY <1>4, <2>1, HandleUnderstands, HandlerUnderstands, RunStartsUnderstands,
             ResumeUnderstands, InterpretUnderstands, SelectUnderstands, InterruptUnderstands,
             WaitApprovalUnderstands, ExecuteUnderstands DEF Server
<1>5. Kept
  BY <1>2, <1>3, <1>4 DEF Next
<1> QED BY <1>1, <1>5 DEF ChatInv

(* For any number of messages: a user who sends nothing before the answer   *)
(* is understood.  An approval executes its own list, and every refinement  *)
(* since the last new selection is in the instructions of the next          *)
(* (web/app.py, _handle_message and _handle_approve).                       *)
THEOREM WaitingIsEnough == Spec => []CalmUserIsUnderstood
<1>1. ChatInv => CalmUserIsUnderstood
  <2> SUFFICES ASSUME ChatInv, Calm PROVE InstructionsAccumulate /\ ApprovedListOnly
    BY DEF CalmUserIsUnderstood
  <2>1. TypeInv /\ MessagesInv /\ Accumulated
    BY DEF ChatInv, IInv
  <2>2. ApprovedListOnly
    BY <2>1 DEF ApprovedListOnly, MessagesInv, ListAt
  <2>3. InstructionsAccumulate
    <3> SUFFICES ASSUME NEW m \in Messages, Refines(m)
                 PROVE  \E n \in DOMAIN state[1].instructions : state[1].instructions[n] = m
      BY DEF InstructionsAccumulate, Refines
    <3>1. Known(m) /\ state[1].instructions \in Seq(Messages)
      BY <2>1 DEF Accumulated, TypeInv, StateType, States
    <3> QED BY <3>1 DEF Known
  <2> QED BY <2>2, <2>3
<1> QED BY <1>1, ChatBegins, ChatGoesOn, PTL DEF Spec
=============================================================================

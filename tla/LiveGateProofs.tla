--------------------------- MODULE LiveGateProofs ---------------------------
(***************************************************************************)
(* Proofs about LiveGate, for every instance of its constants: any number  *)
(* of order calls, commit requests and proposals, any ceilings, templates  *)
(* and adjustments.                                                        *)
(***************************************************************************)
EXTENDS LiveGate, FiniteSetTheorems, TLAPS

-----------------------------------------------------------------------------
(* The inductive invariant, part by part. *)

\* A clamped profile, as a proposal stores it.
IsProfile(f) ==
  /\ f = [ordinal |-> f.ordinal, order |-> f.order, exposure |-> f.exposure,
          trades |-> f.trades, leverage |-> f.leverage, instruments |-> f.instruments,
          flatten |-> f.flatten]
  /\ f.order \in Int /\ f.exposure \in Int /\ f.trades \in Int /\ f.leverage \in Int

IsProposal(q) ==
  /\ q = [open |-> q.open, ceilings |-> q.ceilings, profiles |-> q.profiles]
  /\ q.open \in BOOLEAN /\ q.ceilings \in CeilingSets
  /\ \A f \in q.profiles :
       IsProfile(f) /\ (q.ceilings.order # NoLimit => f.order <= q.ceilings.order)

\* What commit_mandate guarantees of a mandate: its caps lie within the profile the user
\* was shown and within the ceilings that profile was cut to.
IsMandate(m) ==
  /\ m.id \in Commits /\ m.id \in Nat \ {0} /\ m.expires \in Int
  /\ m.caps.order \in Int /\ m.caps.exposure \in Int /\ m.caps.trades \in Int
  /\ m.caps.funding \in Int /\ m.caps.leverage \in Int
  /\ m.shown.order \in Int /\ m.shown.exposure \in Int /\ m.shown.trades \in Int
  /\ m.ceilings.order \in Int
  /\ m.caps.order <= m.shown.order
  /\ m.ceilings.order # NoLimit => m.shown.order <= m.ceilings.order
  /\ m.caps.trades <= m.shown.trades
  /\ m.caps.exposure <= Larger(m.shown.exposure, m.shown.order)

\* The stages of a call, by what was established when it reached them.
Early    == {"quote", "positions", "check"}
Capped   == {"place", "count", "counted"}
Accepted == {"count", "counted", "placed", "raised", "done", "dead"}

\* An amount within the caps on the open positions.
Affordable(c, value) ==
  /\ value <= c.mandate.caps.exposure
  /\ value <= c.mandate.caps.leverage * c.mandate.caps.funding

\* What check_mandate let through.
Decided(c) ==
  /\ 0 < c.notional /\ c.notional <= c.mandate.caps.order
  /\ c.intent.side = "buy" => Affordable(c, c.account + c.notional)

\* A call that was admitted.
IsPassed(c) ==
  /\ c = [pc |-> c.pc, intent |-> c.intent, mandate |-> c.mandate, trips |-> c.trips,
          notional |-> c.notional, positions |-> c.positions, account |-> c.account,
          count |-> c.count, today |-> c.today, sent |-> c.sent]
  /\ c.pc \in Early \cup Capped \cup Ended \cup {"flying"}
  /\ c.intent \in Intents /\ c.trips \in Nat /\ c.notional \in Nat /\ c.positions \in Int
  /\ c.account \in Int /\ c.count \in Nat /\ c.today \in Nat /\ c.sent \in BOOLEAN
  /\ IsMandate(c.mandate)
  /\ c.pc = "check" => c.positions \in {c.account, NoLimit}
  /\ c.sent => c.pc \in Accepted
  /\ c.pc \notin Early => Decided(c)
  /\ c.pc \in {"counted", "placed"} => c.count > 0

IsCall(c) == c = NewCall \/ c = Refused \/ IsPassed(c)

\* A commit request once its checks have passed.
IsCommit(r, c) ==
  /\ c = [pc |-> c.pc, proposal |-> c.proposal, spent |-> c.spent, mandate |-> c.mandate]
  /\ c.pc \in {"mandate", "consent", "invalidate", "done", "failed"}
  /\ c.proposal \in Proposals /\ c.spent \subseteq Commits
  /\ IsMandate(c.mandate) /\ c.mandate.id = r

FilesType ==
  /\ day \in Nat /\ trips \in Nat /\ crashes \in Nat
  /\ halted \subseteq Sentinels
  /\ proposal = [p \in Proposals |-> proposal[p]]
  /\ \A p \in Proposals : proposal[p] = NoProposal \/ IsProposal(proposal[p])
  /\ mandate = NoMandate \/ IsMandate(mandate)
  /\ counter = [date |-> counter.date, count |-> counter.count]
  /\ counter.date \in Nat /\ counter.count \in Nat /\ counter.date <= day

CommitType ==
  /\ commit = [r \in Commits |-> commit[r]]
  /\ \A r \in Commits : commit[r] = NoCommit \/ IsCommit(r, commit[r])

CallsType ==
  /\ call = [k \in Calls |-> call[k]] /\ ledger = [k \in Calls |-> ledger[k]]
  /\ \A k \in Calls : IsCall(call[k])
  /\ held \in Int
  /\ resting \subseteq Calls /\ \A k \in resting : call[k].sent

\* Calls that passed the gate did so before the sentinel that stands now was written.
WindowInv ==
  \A k \in Calls : IsPassed(call[k]) =>
    call[k].trips <= trips /\ (halt_flag_set => call[k].trips < trips)

\* A mandate is the document of the commit request it is named for.
Traced(m) == commit[m.id] # NoCommit /\ commit[m.id].mandate = m

TraceInv ==
  /\ mandate # NoMandate => Traced(mandate)
  /\ \A k \in Calls : IsPassed(call[k]) => Traced(call[k].mandate)

\* What a request that wrote its consent, or deleted its proposal, leaves behind.
SpentInv ==
  \A r \in Commits : commit[r] # NoCommit =>
    /\ proposal[commit[r].proposal] # NoProposal
    /\ commit[r].pc \in {"invalidate", "done"} =>
         [mandate |-> r, proposal |-> commit[r].proposal] \in consent
    /\ CommitAt(r, "done") => ~proposal[commit[r].proposal].open
    /\ \A s \in commit[r].spent :
         CommitAt(s, "done") /\ commit[s].proposal # commit[r].proposal

\* The calls that had ended when a call began.
BeforeInv ==
  /\ before = [k \in Calls |-> before[k]]
  /\ \A k \in Calls : before[k] \subseteq {j \in Calls : call[j].pc \in Ended}

\* One more placement fits call c's daily cap, whatever is solitary today.
Fits(c) == Cardinality(SolitaryToday) + 1 <= c.mandate.caps.trades

\* The counter and the counts calls carry, against today's calls.
CountInv ==
  /\ CounterAccounts /\ DailyCapHolds
  /\ \A k \in Calls : IsPassed(call[k]) =>
       /\ call[k].today <= day
       /\ call[k].pc \in Capped => Fits(call[k])
       /\ call[k].pc = "counted" =>
            IF call[k].today = day
            THEN /\ call[k].count <= Cardinality(CountedToday) + 1
                 /\ Cardinality(SolitaryToday) + 1 <= call[k].count
            ELSE SolitaryToday = {}

IInv ==
  /\ FilesType /\ CommitType /\ CallsType /\ WindowInv /\ TraceInv /\ SpentInv
  /\ SentIsRecorded /\ BeforeInv /\ CountInv
-----------------------------------------------------------------------------
(* What the operators return. *)

(* A set with one element added. *)
LEMMA OneMore ==
    ASSUME NEW S, IsFiniteSet(S), NEW x
    PROVE  /\ IsFiniteSet(S \cup {x}) /\ Cardinality(S) \in Nat
           /\ Cardinality(S \cup {x}) \in Nat
           /\ Cardinality(S \cup {x}) <= Cardinality(S) + 1
           /\ x \notin S => Cardinality(S \cup {x}) = Cardinality(S) + 1
<1>1. /\ IsFiniteSet(S \cup {x})
      /\ Cardinality(S \cup {x}) = IF x \in S THEN Cardinality(S) ELSE Cardinality(S) + 1
  BY FS_AddElement
<1>2. Cardinality(S) \in Nat /\ Cardinality(S \cup {x}) \in Nat
  BY <1>1, FS_CardinalityType
<1> QED BY <1>1, <1>2

(* _synthesize_profiles: a template clamped by a snapshot has numeric limits. *)
LEMMA ProfileType ==
    ASSUME NEW c \in CeilingSets, NEW t \in Templates, NEW flatten
    PROVE  /\ IsProfile(Profile(c, t, flatten))
           /\ c.order # NoLimit => Profile(c, t, flatten).order <= c.order
<1>1. /\ c.funding \in Int /\ c.exposure \in Int /\ c.order \in Int /\ c.trades \in Int
      /\ c.leverage \in Int /\ t.part \in Nat \ {0} /\ t.trades \in Nat
  BY GateAssumption
<1> DEFINE funding == IF c.funding # NoLimit THEN c.funding ELSE Larger(c.exposure, 0)
<1>2. funding \in Int
  BY <1>1 DEF Larger
<1>3. funding \div t.part \in Int
  BY <1>1, <1>2
<1> HIDE DEF funding
<1>4. Profile(c, t, flatten) =
        [ordinal |-> t.ordinal,
         order |-> IF c.order = NoLimit THEN funding \div t.part
                   ELSE Minimum(funding \div t.part, c.order),
         exposure |-> IF c.exposure # NoLimit THEN c.exposure ELSE funding,
         trades |-> IF c.trades = NoLimit THEN t.trades ELSE Minimum(t.trades, c.trades),
         leverage |-> IF c.leverage = NoLimit THEN 0 ELSE c.leverage,
         instruments |-> IF c.instruments = {} THEN {"equity"} ELSE c.instruments,
         flatten |-> flatten]
  BY DEF Profile, funding
<1> QED BY <1>1, <1>2, <1>3, <1>4 DEF IsProfile, Minimum

(* _resolve_profile and _profile_to_hard_caps: an adjustment that narrows the profile     *)
(* yields caps within it, whatever ceilings it is checked against.                        *)
LEMMA CapsWithinProfile ==
    ASSUME NEW q, IsProposal(q), NEW f \in q.profiles, NEW a \in Adjustments, Narrows(f, a),
           NEW r \in Commits, NEW expires \in Int, NEW flatten
    PROVE  IsMandate([id |-> r, shown |-> f, ceilings |-> q.ceilings,
                      caps |-> HardCaps(Adjusted(f, a)), expires |-> expires,
                      flatten |-> flatten])
<1>1. /\ a.order \in Int /\ a.trades \in Int /\ a.exposure \in Int /\ a.leverage \in Int
      /\ q.ceilings.order \in Int /\ r \in Nat \ {0}
  BY GateAssumption DEF IsProposal
<1>1a. IsProfile(f) /\ (q.ceilings.order # NoLimit => f.order <= q.ceilings.order)
  BY DEF IsProposal
<1> DEFINE g == Adjusted(f, a)
<1>2. /\ g.order = (IF a.order = NoLimit THEN f.order ELSE a.order)
      /\ g.trades = (IF a.trades = NoLimit THEN f.trades ELSE a.trades)
      /\ g.exposure = (IF a.exposure = NoLimit THEN f.exposure ELSE a.exposure)
      /\ g.leverage = (IF a.leverage = NoLimit THEN f.leverage ELSE a.leverage)
  BY <1>1a DEF Adjusted, IsProfile
<1> HIDE DEF g
<1>3. /\ g.order \in Int /\ g.order <= f.order /\ g.trades \in Int /\ g.trades <= f.trades
      /\ g.exposure \in Int /\ g.exposure <= f.exposure /\ g.leverage \in Int
  BY <1>1, <1>1a, <1>2 DEF Narrows, IsProfile, NoLimit
<1> DEFINE caps == HardCaps(g)
<1>5. /\ caps.order = g.order /\ caps.trades = g.trades
      /\ caps.exposure = (IF g.exposure = 0 THEN g.order ELSE g.exposure)
      /\ caps.funding = caps.exposure
      /\ caps.leverage = (IF g.leverage = 0 THEN 1 ELSE g.leverage)
  BY DEF HardCaps
<1> HIDE DEF caps
<1>6. caps.exposure <= Larger(f.exposure, f.order)
  BY <1>1a, <1>3, <1>5 DEF Larger, IsProfile
<1>7. caps = HardCaps(Adjusted(f, a))
  BY DEF caps, g
<1> QED BY <1>1, <1>1a, <1>3, <1>5, <1>6, <1>7 DEF IsMandate, IsProfile

(* A call as it stands at a stage, with what it knows by then. *)
Stage(c, pc, notional, positions, account, count, today, sent) ==
  [pc |-> pc, intent |-> c.intent, mandate |-> c.mandate, trips |-> c.trips,
   notional |-> notional, positions |-> positions, account |-> account, count |-> count,
   today |-> today, sent |-> sent]

(* The call c at another stage. *)
AtStage(c, pc) ==
  Stage(c, pc, c.notional, c.positions, c.account, c.count, c.today, c.sent)

(* What the fields of a call say of it. *)
LEMMA CallFacts ==
    ASSUME CallsType, NEW k \in Calls
    PROVE  /\ call[k].pc \in Early \cup Capped \cup Ended \cup {"flying", "new"}
           /\ call[k].sent \in BOOLEAN
           /\ call[k].sent => call[k].pc \in Accepted
           /\ call[k].pc \notin {"new", "done"} => IsPassed(call[k])
           /\ call[k].sent => IsPassed(call[k])
           /\ IsPassed(call[k]) => call[k].pc # "new"
           /\ ~IsPassed(call[k]) => call[k] = NewCall \/ call[k] = Refused
           /\ k \in resting => call[k].sent
<1>1. CASE call[k] = NewCall
  <2>1. call[k].pc = "new" /\ call[k].sent = FALSE
    BY <1>1 DEF NewCall
  <2>2. ~IsPassed(call[k])
    BY <2>1 DEF IsPassed, Early, Capped, Ended
  <2> QED BY <1>1, <2>1, <2>2 DEF CallsType
<1>2. CASE call[k] = Refused
  <2>1. call[k].pc = "done" /\ call[k].sent = FALSE
    BY <1>2 DEF Refused
  <2> QED BY <1>2, <2>1 DEF CallsType, Ended
<1>3. CASE IsPassed(call[k])
  <2>1. call[k].pc # "new"
    BY <1>3 DEF IsPassed, Early, Capped, Ended
  <2> QED BY <1>3, <2>1 DEF IsPassed, CallsType
<1> QED BY <1>1, <1>2, <1>3 DEF CallsType, IsCall

(* The two records that are no admitted call. *)
LEMMA NotPassed == ~IsPassed(NewCall) /\ ~IsPassed(Refused)
<1>1. ~IsPassed(NewCall)
  <2>1. NewCall.pc = "new"
    BY DEF NewCall
  <2> QED BY <2>1 DEF IsPassed, Early, Capped, Ended
<1>2. ~IsPassed(Refused)
  <2>1. "intent" \notin DOMAIN Refused
    BY DEF Refused
  <2>2. ASSUME IsPassed(Refused) PROVE "intent" \in DOMAIN Refused
    <3> DEFINE c == Refused
    <3>1. c = [pc |-> c.pc, intent |-> c.intent, mandate |-> c.mandate, trips |-> c.trips,
               notional |-> c.notional, positions |-> c.positions, account |-> c.account,
               count |-> c.count, today |-> c.today, sent |-> c.sent]
      BY <2>2 DEF IsPassed
    <3> HIDE DEF c
    <3>2. "intent" \in DOMAIN c
      BY <3>1
    <3> QED BY <3>2 DEF c
  <2> QED BY <2>1, <2>2
<1> QED BY <1>1, <1>2

(* A call that moves on keeps its shape, its mandate and the sentinels it saw. *)
LEMMA StageFields ==
    ASSUME NEW c, IsPassed(c), NEW pc, NEW notional, NEW positions, NEW account, NEW count,
           NEW today, NEW sent, NEW d, d = Stage(c, pc, notional, positions, account, count, today, sent)
    PROVE  /\ d.pc = pc /\ d.intent = c.intent /\ d.mandate = c.mandate /\ d.trips = c.trips
           /\ d.notional = notional /\ d.positions = positions /\ d.account = account
           /\ d.count = count /\ d.today = today /\ d.sent = sent
           /\ d = [pc |-> d.pc, intent |-> d.intent, mandate |-> d.mandate, trips |-> d.trips,
                   notional |-> d.notional, positions |-> d.positions, account |-> d.account,
                   count |-> d.count, today |-> d.today, sent |-> d.sent]
BY DEF Stage

-----------------------------------------------------------------------------
(* What moves and what stays. *)

\* How a step may move a call on once it was admitted.
Onward(d, c) ==
  \/ c = d
  \/ c = Refused
  \/ IsPassed(d) /\ IsPassed(c) /\ c.mandate = d.mandate /\ c.trips = d.trips

\* Every request that was made keeps its document.
KeepsDocuments ==
  \A r \in Commits : commit[r] # NoCommit =>
    commit'[r] # NoCommit /\ commit'[r].mandate = commit[r].mandate

\* Whatever was sent had been admitted.
Advances == \A j \in Calls : call'[j].sent => IsPassed(call[j])

(* The parts about the calls' past and their mandates, over calls that move on. *)
LEMMA CallsFrame ==
    ASSUME IInv, \A j \in Calls : Onward(call[j], call'[j]),
           \A j \in Calls : call[j].pc \in Ended => call'[j] = call[j],
           KeepsDocuments, UNCHANGED <<mandate, halted, trips, before>>
    PROVE  /\ WindowInv' /\ TraceInv' /\ BeforeInv'
           /\ \A j \in Calls : IsCall(call'[j])
           /\ Advances
<1>0. CallsType /\ \A j \in Calls : IsCall(call[j])
  BY DEF IInv, CallsType
<1>2. ASSUME NEW j \in Calls, IsPassed(call'[j])
      PROVE  /\ IsPassed(call[j])
             /\ call'[j].mandate = call[j].mandate /\ call'[j].trips = call[j].trips
  <2>1. call'[j] # Refused
    BY <1>2, NotPassed
  <2> QED BY <1>2, <2>1 DEF Onward
<1>3. WindowInv'
  BY <1>2 DEF IInv, WindowInv, halt_flag_set
<1>4. TraceInv'
  <2>1. ASSUME NEW m, IsMandate(m), Traced(m)
        PROVE  commit'[m.id] # NoCommit /\ commit'[m.id].mandate = m
    <3>1. m.id \in Commits
      BY <2>1 DEF IsMandate
    <3> QED BY <2>1, <3>1 DEF Traced, KeepsDocuments
  <2>2. mandate' # NoMandate => Traced(mandate)'
    BY <2>1 DEF IInv, TraceInv, FilesType, Traced
  <2>3. ASSUME NEW j \in Calls, IsPassed(call'[j]) PROVE Traced(call[j].mandate)'
    <3>1. /\ Traced(call[j].mandate) /\ IsMandate(call[j].mandate)
          /\ call'[j].mandate = call[j].mandate
      BY <1>2, <2>3 DEF IInv, TraceInv, IsPassed
    <3> QED BY <2>1, <3>1 DEF Traced
  <2> QED BY <2>2, <2>3 DEF TraceInv
<1>5. BeforeInv'
  BY DEF IInv, BeforeInv
<1>6. ASSUME NEW j \in Calls PROVE IsCall(call'[j])
  BY <1>0 DEF Onward, IsCall
<1>7. Advances
  <2> SUFFICES ASSUME NEW j \in Calls, call'[j].sent PROVE IsPassed(call[j])
    BY DEF Advances
  <2>1. call'[j] # Refused
    BY DEF Refused
  <2>2. call[j].sent => IsPassed(call[j])
    BY <1>0, CallFacts
  <2> QED BY <2>1, <2>2 DEF Onward
<1> QED BY <1>3, <1>4, <1>5, <1>6, <1>7

(* Sets of calls are finite, and a part of one is no larger. *)
LEMMA CallSets ==
    ASSUME NEW S, NEW T, S \subseteq T, T \subseteq Calls
    PROVE  /\ IsFiniteSet(S) /\ IsFiniteSet(T) /\ Cardinality(S) \in Nat
           /\ Cardinality(T) \in Nat /\ Cardinality(S) <= Cardinality(T)
<1>1. IsFiniteSet(Calls) /\ IsFiniteSet(T) /\ IsFiniteSet(S)
  BY GateAssumption, FS_Subset
<1>2. Cardinality(S) <= Cardinality(T)
  BY <1>1, FS_Subset
<1> QED BY <1>1, <1>2, FS_CardinalityType

LEMMA TodayTypes ==
    /\ ConfirmedToday \subseteq Calls /\ CountedToday \subseteq Calls
    /\ SolitaryToday \subseteq ConfirmedToday /\ SolitaryToday \subseteq Calls
BY DEF ConfirmedToday, CountedToday, SolitaryToday

(* A step that confirms no placement makes none of those confirmed solitary. *)
LEMMA SolitaryShrinks ==
    ASSUME ConfirmedToday' \subseteq ConfirmedToday,
           \A j \in Calls : call'[j].pc = "new" => call[j].pc = "new",
           \A j \in Calls : before'[j] = before[j] \/ call[j].pc = "new"
    PROVE  SolitaryToday' \subseteq SolitaryToday
<1> SUFFICES ASSUME NEW k \in SolitaryToday' PROVE k \in SolitaryToday
  OBVIOUS
<1>1. k \in ConfirmedToday /\ k \in Calls /\ Alone(k)'
  BY DEF SolitaryToday, ConfirmedToday
<1>2. call[k].pc = "placed" /\ before'[k] = before[k]
  BY <1>1 DEF ConfirmedToday
<1>3. ASSUME NEW j \in Calls \ {k}, call[j].pc # "new"
      PROVE  j \in before[k] \/ k \in before[j]
  <2>1. call'[j].pc # "new" /\ before'[j] = before[j]
    BY <1>3
  <2>2. j \in before'[k] \/ k \in before'[j]
    BY <1>1, <2>1 DEF Alone, Apart
  <2> QED BY <1>2, <2>1, <2>2
<1>4. Alone(k)
  BY <1>3 DEF Alone, Apart
<1> QED BY <1>1, <1>4 DEF SolitaryToday

\* What the counts ask of a call that moves on.
MayCount(c) ==
  /\ c.today <= day
  /\ c.pc \in Capped => Cardinality(SolitaryToday) + 1 <= c.mandate.caps.trades
  /\ c.pc = "counted" => c.today = day /\ c.count = DailyCount + 1

(* A step that confirms nothing and leaves the counter alone keeps the counts. *)
LEMMA CountFrame ==
    ASSUME IInv, UNCHANGED <<day, counter>>,
           \A j \in Calls :
             \/ call'[j] = call[j]
             \/ /\ call[j].pc \notin Ended /\ call'[j].pc \notin {"new", "placed"}
                /\ IsPassed(call'[j]) => MayCount(call'[j]),
           \A j \in Calls : before'[j] = before[j] \/ call[j].pc = "new"
    PROVE  CountInv'
<1>1. ConfirmedToday' \subseteq ConfirmedToday /\ \A k \in ConfirmedToday : call'[k] = call[k]
  BY DEF ConfirmedToday, Ended
<1>2. CountedToday \subseteq CountedToday' /\ CountedToday' \subseteq Calls
  BY DEF CountedToday, Ended
<1>3. DailyCount' = DailyCount
  BY DEF DailyCount
<1>4. SolitaryToday' \subseteq SolitaryToday
  BY <1>1, SolitaryShrinks
<1> DEFINE S == SolitaryToday
           T == SolitaryToday'
           W == CountedToday
           V == CountedToday'
<1>5. /\ Cardinality(S) \in Nat /\ Cardinality(T) \in Nat /\ Cardinality(T) <= Cardinality(S)
      /\ Cardinality(W) \in Nat /\ Cardinality(V) \in Nat /\ Cardinality(W) <= Cardinality(V)
  BY <1>2, <1>4, TodayTypes, CallSets
<1>6. DailyCount \in Nat
  BY DEF IInv, FilesType, DailyCount
<1>7. CounterAccounts'
  BY <1>3, <1>5, <1>6 DEF IInv, CountInv, CounterAccounts
<1>8. DailyCapHolds'
  <2> SUFFICES ASSUME NEW k \in ConfirmedToday'
               PROVE  Cardinality(T \cap before'[k]) + 1 <= call'[k].mandate.caps.trades
    BY DEF DailyCapHolds
  <2>1. /\ k \in ConfirmedToday /\ k \in Calls /\ call'[k] = call[k] /\ call[k].pc = "placed"
        /\ before'[k] = before[k]
    BY <1>1 DEF ConfirmedToday
  <2>2. Cardinality(S \cap before[k]) + 1 <= call[k].mandate.caps.trades
    BY <2>1 DEF IInv, CountInv, DailyCapHolds
  <2>3. /\ Cardinality(T \cap before'[k]) \in Nat /\ Cardinality(S \cap before[k]) \in Nat
        /\ Cardinality(T \cap before'[k]) <= Cardinality(S \cap before[k])
    <3>1. T \cap before'[k] \subseteq S \cap before[k] /\ S \cap before[k] \subseteq Calls
      BY <1>4, <2>1, TodayTypes
    <3> QED BY <3>1, CallSets
  <2>4. call[k].mandate.caps.trades \in Int
    <3>1. IsPassed(call[k])
      BY <2>1, CallFacts DEF IInv
    <3> QED BY <3>1 DEF IsPassed, IsMandate
  <2> HIDE DEF S, T
  <2> QED BY <2>1, <2>2, <2>3, <2>4
<1>9. ASSUME NEW k \in Calls, IsPassed(call'[k])
      PROVE  /\ call'[k].today <= day
             /\ call'[k].pc \in Capped => Cardinality(T) + 1 <= call'[k].mandate.caps.trades
             /\ call'[k].pc = "counted" =>
                  IF call'[k].today = day
                  THEN /\ call'[k].count <= Cardinality(V) + 1
                       /\ Cardinality(T) + 1 <= call'[k].count
                  ELSE T = {}
  <2>1. /\ call'[k].mandate.caps.trades \in Int /\ call'[k].count \in Nat
    BY <1>9 DEF IsPassed, IsMandate
  <2>2. CASE call'[k] = call[k]
    <3>1. /\ call[k].today <= day
          /\ call[k].pc \in Capped => Cardinality(S) + 1 <= call[k].mandate.caps.trades
          /\ call[k].pc = "counted" =>
               IF call[k].today = day
               THEN /\ call[k].count <= Cardinality(W) + 1
                    /\ Cardinality(S) + 1 <= call[k].count
               ELSE S = {}
      BY <1>9, <2>2 DEF IInv, CountInv, Fits
    <3>2. S = {} => T = {}
      BY <1>4
    <3> HIDE DEF S, T, W, V
    <3> QED BY <1>5, <2>1, <2>2, <3>1, <3>2
  <2>3. CASE call'[k] # call[k]
    <3>1. /\ call'[k].today <= day
          /\ call'[k].pc \in Capped => Cardinality(S) + 1 <= call'[k].mandate.caps.trades
          /\ call'[k].pc = "counted" => call'[k].today = day /\ call'[k].count = DailyCount + 1
      BY <1>9, <2>3 DEF MayCount
    <3>2. Cardinality(S) <= DailyCount /\ DailyCount <= Cardinality(W)
      BY DEF IInv, CountInv, CounterAccounts
    <3> HIDE DEF S, T, W, V
    <3> QED BY <1>5, <1>6, <2>1, <3>1, <3>2
  <2> QED BY <2>2, <2>3
<1> QED BY <1>7, <1>8, <1>9 DEF CountInv, Fits

-----------------------------------------------------------------------------
(* Each action keeps the invariant: first the surface, which touches files only. *)

(* The parts about the calls, the broker and the counter. *)
OrderInv == CallsType /\ SentIsRecorded /\ BeforeInv /\ CountInv

(* What the surface does not write stays as it is. *)
LEMMA OrderFrame ==
    ASSUME OrderInv, UNCHANGED <<call, resting, held, ledger, day, counter, before>>
    PROVE  OrderInv'
<1>1. CallsType' /\ SentIsRecorded' /\ BeforeInv'
  BY DEF OrderInv, CallsType, SentIsRecorded, BeforeInv
<1>2. /\ ConfirmedToday' = ConfirmedToday /\ DailyCount' = DailyCount
      /\ CountedToday' = CountedToday
  BY DEF ConfirmedToday, DailyCount, CountedToday
<1>3. SolitaryToday' = SolitaryToday
  BY <1>2 DEF SolitaryToday, Alone, Apart
<1>4. CounterAccounts' /\ DailyCapHolds'
  BY <1>2, <1>3 DEF OrderInv, CountInv, CounterAccounts, DailyCapHolds
<1>5. CountInv'
  BY <1>2, <1>3, <1>4 DEF OrderInv, CountInv, Fits
<1> QED BY <1>1, <1>5 DEF OrderInv

(* Mandates stay traced to their requests. *)
LEMMA TraceFrame ==
    ASSUME IInv, call' = call, mandate' = mandate \/ Traced(mandate'), FilesType',
           KeepsDocuments
    PROVE  TraceInv'
<1>1. ASSUME NEW m, IsMandate(m), Traced(m)
      PROVE  commit'[m.id] # NoCommit /\ commit'[m.id].mandate = m
  <2>1. m.id \in Commits
    BY <1>1 DEF IsMandate
  <2> QED BY <1>1, <2>1 DEF Traced, KeepsDocuments
<1>2. ASSUME mandate' # NoMandate PROVE Traced(mandate)'
  <2>1. IsMandate(mandate')
    BY <1>2 DEF FilesType
  <2>2. Traced(mandate')
    BY <1>2 DEF IInv, TraceInv
  <2> QED BY <1>1, <2>1, <2>2 DEF Traced
<1>3. ASSUME NEW k \in Calls, IsPassed(call[k]) PROVE Traced(call[k].mandate)'
  <2>1. IsMandate(call[k].mandate) /\ Traced(call[k].mandate)
    BY <1>3 DEF IInv, TraceInv, IsPassed
  <2>2. call'[k].mandate = call[k].mandate
    OBVIOUS
  <2> QED BY <1>1, <2>1, <2>2 DEF Traced
<1> QED BY <1>2, <1>3 DEF TraceInv

\* A proposal's file stays or is deleted.
ProposalStays(p) ==
  \/ proposal'[p] = proposal[p]
  \/ /\ proposal[p] # NoProposal /\ ~proposal'[p].open /\ proposal'[p] # NoProposal

\* A request advances to another stage.
RequestAdvances(r) ==
  \/ commit'[r] = commit[r]
  \/ \E pc \in {"consent", "invalidate", "done", "failed"} :
       /\ commit[r].pc \in {"mandate", "consent", "invalidate"}
       /\ commit'[r] = [commit[r] EXCEPT !.pc = pc]
       /\ pc \in {"invalidate", "done"} =>
            [mandate |-> r, proposal |-> commit[r].proposal] \in consent'
       /\ pc = "done" => ~proposal'[commit[r].proposal].open

(* The requests' own parts, over a step that advances some of them. *)
LEMMA RequestsFrame ==
    ASSUME IInv, commit' = [r \in Commits |-> commit'[r]], consent \subseteq consent',
           \A r \in Commits : RequestAdvances(r), \A p \in Proposals : ProposalStays(p)
    PROVE  CommitType' /\ SpentInv' /\ KeepsDocuments
<1>1. ASSUME NEW r \in Commits
      PROVE  /\ commit'[r] = NoCommit \/ IsCommit(r, commit'[r])
             /\ commit[r] = NoCommit => commit'[r] = NoCommit
             /\ commit[r] # NoCommit =>
                  /\ commit'[r] # NoCommit /\ commit'[r].mandate = commit[r].mandate
                  /\ commit'[r].proposal = commit[r].proposal
                  /\ commit'[r].spent = commit[r].spent
                  /\ commit[r].pc = "done" => commit'[r].pc = "done"
                  /\ commit'[r].pc \in {"invalidate", "done"} =>
                       [mandate |-> r, proposal |-> commit[r].proposal] \in consent'
                  /\ commit'[r].pc = "done" => ~proposal'[commit[r].proposal].open
  <2>1. CASE commit[r] = NoCommit
    <3>1. commit[r].pc = "idle"
      BY <2>1 DEF NoCommit
    <3> QED BY <2>1, <3>1 DEF RequestAdvances
  <2>2. CASE commit[r] # NoCommit
    <3> DEFINE c == commit[r]
    <3>1. /\ IsCommit(r, c) /\ c.proposal \in Proposals /\ c.pc # "idle"
      BY <2>2 DEF IInv, CommitType, IsCommit
    <3>2. CASE commit'[r] = commit[r]
      <4>1. c.pc = "done" => ~proposal[c.proposal].open
        BY <2>2 DEF IInv, SpentInv, CommitAt
      <4>2. c.pc = "done" => ~proposal'[c.proposal].open
        BY <3>1, <4>1 DEF ProposalStays
      <4>3. c.pc \in {"invalidate", "done"} =>
              [mandate |-> r, proposal |-> c.proposal] \in consent
        BY <2>2 DEF IInv, SpentInv
      <4> QED BY <2>2, <3>1, <3>2, <4>2, <4>3
    <3>3. CASE commit'[r] # commit[r]
      <4>1. PICK pc \in {"consent", "invalidate", "done", "failed"} :
              /\ c.pc \in {"mandate", "consent", "invalidate"}
              /\ commit'[r] = [c EXCEPT !.pc = pc]
              /\ pc \in {"invalidate", "done"} =>
                   [mandate |-> r, proposal |-> c.proposal] \in consent'
              /\ pc = "done" => ~proposal'[c.proposal].open
        BY <3>3 DEF RequestAdvances
      <4>2. commit'[r] = [pc |-> pc, proposal |-> c.proposal, spent |-> c.spent,
                          mandate |-> c.mandate]
        BY <3>1, <4>1 DEF IsCommit
      <4>3. /\ commit'[r].pc = pc /\ commit'[r].proposal = c.proposal
            /\ commit'[r].spent = c.spent /\ commit'[r].mandate = c.mandate
        BY <4>2
      <4>4. commit'[r] # NoCommit
        BY <4>3 DEF NoCommit
      <4>5. IsCommit(r, commit'[r])
        BY <3>1, <4>2, <4>3 DEF IsCommit
      <4> QED BY <2>2, <4>1, <4>3, <4>4, <4>5
    <3> QED BY <3>2, <3>3
  <2> QED BY <2>1, <2>2
<1>2. CommitType' /\ KeepsDocuments
  BY <1>1 DEF CommitType, KeepsDocuments
<1>3. SpentInv'
  <2> SUFFICES ASSUME NEW r \in Commits, commit'[r] # NoCommit
               PROVE  /\ proposal'[commit'[r].proposal] # NoProposal
                      /\ commit'[r].pc \in {"invalidate", "done"} =>
                           [mandate |-> r, proposal |-> commit'[r].proposal] \in consent'
                      /\ commit'[r].pc = "done" => ~proposal'[commit'[r].proposal].open
                      /\ \A s \in commit'[r].spent :
                           commit'[s].pc = "done" /\ commit'[s].proposal # commit'[r].proposal
    BY DEF SpentInv, CommitAt
  <2>1. commit[r] # NoCommit
    BY <1>1
  <2>2. /\ proposal[commit[r].proposal] # NoProposal /\ commit[r].proposal \in Proposals
        /\ commit[r].spent \subseteq Commits
        /\ \A s \in commit[r].spent :
             commit[s].pc = "done" /\ commit[s].proposal # commit[r].proposal
    BY <2>1 DEF IInv, SpentInv, CommitAt, CommitType, IsCommit
  <2>3. /\ commit'[r].proposal = commit[r].proposal /\ commit'[r].spent = commit[r].spent
        /\ commit'[r].pc \in {"invalidate", "done"} =>
             [mandate |-> r, proposal |-> commit[r].proposal] \in consent'
        /\ commit'[r].pc = "done" => ~proposal'[commit[r].proposal].open
    BY <1>1, <2>1
  <2>4. proposal'[commit[r].proposal] # NoProposal
    BY <2>2 DEF ProposalStays
  <2>5. ASSUME NEW s \in commit[r].spent
        PROVE  commit'[s].pc = "done" /\ commit'[s].proposal # commit[r].proposal
    <3>1. s \in Commits /\ commit[s].pc = "done" /\ commit[s].proposal # commit[r].proposal
      BY <2>2
    <3>2. commit[s] # NoCommit
      BY <3>1 DEF NoCommit
    <3> QED BY <1>1, <3>1, <3>2
  <2> QED BY <2>3, <2>4, <2>5
<1> QED BY <1>2, <1>3

LEMMA ProposeKeeps ==
    ASSUME IInv, NEW p \in Proposals, NEW c \in CeilingSets, NEW flatten \in Flattens,
           Propose(p, c, flatten)
    PROVE  IInv'
<1>1. OrderInv'
  BY OrderFrame DEF IInv, OrderInv, Propose
<1> DEFINE new == [open |-> TRUE, ceilings |-> c,
                   profiles |-> {Profile(c, t, flatten) : t \in Templates}]
<1>2. IsProposal(new) /\ new # NoProposal
  <2>1. new.open = TRUE
    OBVIOUS
  <2> QED BY <2>1, ProfileType DEF IsProposal, NoProposal
<1>3. /\ proposal' = [proposal EXCEPT ![p] = new] /\ proposal[p] = NoProposal
      /\ proposal = [q \in Proposals |-> proposal[q]]
  BY DEF IInv, FilesType, Propose
<1>4. /\ proposal'[p] = new /\ proposal' = [q \in Proposals |-> proposal'[q]]
      /\ \A q \in Proposals \ {p} : proposal'[q] = proposal[q]
  BY <1>3
<1> HIDE DEF new
<1>5. FilesType'
  BY <1>2, <1>4 DEF IInv, FilesType, Propose
<1>6. CommitType' /\ WindowInv'
  BY DEF IInv, CommitType, WindowInv, halt_flag_set, Propose
<1>7. KeepsDocuments /\ UNCHANGED <<call, mandate, commit, consent>>
  BY DEF KeepsDocuments, Propose
<1>8. TraceInv'
  BY <1>5, <1>7, TraceFrame
<1>9. SpentInv'
  <2>1. \A r \in Commits : commit[r] # NoCommit =>
          commit[r].proposal # p /\ commit[r].proposal \in Proposals
    BY <1>3 DEF IInv, SpentInv, CommitType, IsCommit
  <2> QED BY <1>4, <1>7, <2>1 DEF IInv, SpentInv, CommitAt
<1> QED BY <1>1, <1>5, <1>6, <1>8, <1>9 DEF IInv, OrderInv

LEMMA CommitMandateKeeps ==
    ASSUME IInv, NEW r \in Commits, NEW p \in Proposals, proposal[p].open,
           NEW f \in proposal[p].profiles, NEW a \in Adjustments, NEW ref \in CeilingSets,
           NEW life \in Lifetimes, NEW flatten \in Flattens,
           CommitMandate(r, p, f, a, ref, life, flatten)
    PROVE  IInv'
<1>1. OrderInv'
  BY OrderFrame DEF IInv, OrderInv, CommitMandate
<1>2. IsProposal(proposal[p]) /\ proposal[p] # NoProposal
  BY DEF IInv, FilesType, NoProposal
<1> DEFINE spent == {s \in Commits : commit[s].pc = "done"}
           m == [id |-> r, shown |-> f, ceilings |-> proposal[p].ceilings,
                 caps |-> HardCaps(Adjusted(f, a)), expires |-> day + Larger(1, life),
                 flatten |-> flatten]
           new == [pc |-> "mandate", proposal |-> p, spent |-> spent, mandate |-> m]
<1>3. commit' = [commit EXCEPT ![r] = new] /\ commit[r] = NoCommit /\ Narrows(f, a)
  BY DEF CommitMandate
<1>4. IsMandate(m) /\ m.id = r
  <2>1. day + Larger(1, life) \in Int
    BY GateAssumption DEF IInv, FilesType, Larger
  <2> QED BY <1>2, <1>3, <2>1, CapsWithinProfile
<1>5. /\ new.pc = "mandate" /\ new.proposal = p /\ new.spent = spent /\ new.mandate = m
      /\ new = [pc |-> new.pc, proposal |-> new.proposal, spent |-> new.spent,
                mandate |-> new.mandate]
  OBVIOUS
<1>6. spent \subseteq Commits /\ \A s \in spent : s \in Commits /\ commit[s].pc = "done"
  OBVIOUS
<1> HIDE DEF new, m, spent
<1>7. IsCommit(r, new)
  BY <1>4, <1>5, <1>6 DEF IsCommit
<1>8. /\ commit'[r] = new /\ \A s \in Commits \ {r} : commit'[s] = commit[s]
      /\ commit' = [s \in Commits |-> commit'[s]]
  BY <1>3 DEF IInv, CommitType
<1>9. CommitType'
  BY <1>7, <1>8 DEF IInv, CommitType
<1>10. FilesType' /\ WindowInv'
  BY DEF IInv, FilesType, WindowInv, halt_flag_set, CommitMandate
<1>11. KeepsDocuments /\ UNCHANGED <<call, mandate, proposal, consent>>
  BY <1>3, <1>8 DEF KeepsDocuments, CommitMandate
<1>12. TraceInv'
  BY <1>10, <1>11, TraceFrame
<1>13. SpentInv'
  <2>1. commit[r].pc = "idle"
    BY <1>3 DEF NoCommit
  <2>2. ASSUME NEW s \in Commits, commit[s].pc = "done"
        PROVE  /\ s # r /\ commit[s].proposal # p /\ commit'[s] = commit[s]
    <3>1. commit[s] # NoCommit
      BY <2>2 DEF NoCommit
    <3>2. ~proposal[commit[s].proposal].open
      BY <2>2, <3>1 DEF IInv, SpentInv, CommitAt
    <3> QED BY <1>8, <2>1, <2>2, <3>2
  <2>3. ASSUME NEW s \in Commits, commit'[s] # NoCommit
        PROVE  /\ proposal'[commit'[s].proposal] # NoProposal
               /\ commit'[s].pc \in {"invalidate", "done"} =>
                    [mandate |-> s, proposal |-> commit'[s].proposal] \in consent'
               /\ commit'[s].pc = "done" => ~proposal'[commit'[s].proposal].open
               /\ \A t \in commit'[s].spent :
                    commit'[t].pc = "done" /\ commit'[t].proposal # commit'[s].proposal
    <3>1. CASE s = r
      BY <1>2, <1>5, <1>6, <1>8, <1>11, <2>2, <3>1
    <3>2. CASE s # r
      <4>1. commit'[s] = commit[s] /\ commit[s] # NoCommit
        BY <1>8, <2>3, <3>2
      <4>2. commit[s].spent \subseteq Commits
        BY <4>1 DEF IInv, CommitType, IsCommit
      <4> QED BY <1>11, <2>2, <4>1, <4>2 DEF IInv, SpentInv, CommitAt
    <3> QED BY <3>1, <3>2
  <2> QED BY <2>3 DEF SpentInv, CommitAt
<1> QED BY <1>1, <1>9, <1>10, <1>12, <1>13 DEF IInv, OrderInv

LEMMA WriteMandateKeeps ==
    ASSUME IInv, NEW r \in Commits, WriteMandate(r)
    PROVE  IInv'
<1>1. OrderInv'
  BY OrderFrame DEF IInv, OrderInv, WriteMandate
<1>2. PICK s \in Commits :
       /\ commit[s].pc = "mandate" /\ mandate' = commit[s].mandate
       /\ commit' = [t \in Commits |-> IF t = r THEN [commit[r] EXCEPT !.pc = "consent"]
                                     ELSE IF t = s THEN [commit[s] EXCEPT !.pc = "failed"]
                                     ELSE commit[t]]
  BY DEF WriteMandate, CommitAt
<1>3. /\ commit[r].pc = "mandate"
      /\ UNCHANGED <<day, proposal, consent, halted, counter, call, trips, crashes>>
  BY DEF WriteMandate, CommitAt
<1>4. commit[s] # NoCommit /\ IsCommit(s, commit[s])
  BY <1>2 DEF IInv, CommitType, NoCommit
<1>5. IsMandate(mandate') /\ Traced(mandate')
  BY <1>2, <1>4 DEF IsCommit, Traced
<1>6. FilesType'
  BY <1>3, <1>5 DEF IInv, FilesType
<1>7. CommitType' /\ SpentInv' /\ KeepsDocuments
  <2>1. \A t \in Commits : RequestAdvances(t)
    BY <1>2, <1>3 DEF RequestAdvances
  <2>2. commit' = [t \in Commits |-> commit'[t]]
    BY <1>2
  <2>3. \A p \in Proposals : ProposalStays(p)
    BY <1>3 DEF ProposalStays
  <2> QED BY <1>3, <2>1, <2>2, <2>3, RequestsFrame
<1>8. WindowInv'
  BY <1>3 DEF IInv, WindowInv, halt_flag_set
<1>9. TraceInv'
  BY <1>3, <1>5, <1>6, <1>7, TraceFrame
<1> QED BY <1>1, <1>6, <1>7, <1>8, <1>9 DEF IInv, OrderInv

(* The three steps that follow, and a write that raises. *)
LEMMA RequestKeeps ==
    ASSUME IInv, NEW r \in Commits,
           WriteConsent(r) \/ InvalidateProposal(r) \/ CommitRaises(r)
    PROVE  IInv'
<1>0. /\ UNCHANGED <<day, mandate, halted, counter, call, resting, held, ledger, trips,
                      crashes, before>>
      /\ commit = [t \in Commits |-> commit[t]]
  BY DEF IInv, CommitType, WriteConsent, InvalidateProposal, CommitRaises
<1>1. OrderInv'
  BY <1>0, OrderFrame DEF IInv, OrderInv
<1>2. /\ commit[r].pc \in {"mandate", "consent", "invalidate"}
      /\ \E pc \in {"invalidate", "done", "failed"} : commit' = [commit EXCEPT ![r].pc = pc]
  BY DEF WriteConsent, InvalidateProposal, CommitRaises, CommitAt
<1>3. IsCommit(r, commit[r]) /\ commit[r] # NoCommit /\ commit[r].proposal \in Proposals
  BY <1>2 DEF IInv, CommitType, NoCommit, IsCommit
<1> DEFINE p == commit[r].proposal
<1>4. IsProposal(proposal[p])
  BY <1>3 DEF IInv, FilesType, SpentInv
<1>5. /\ consent \subseteq consent' /\ \A q \in Proposals : ProposalStays(q)
      /\ proposal' = [q \in Proposals |-> proposal'[q]]
      /\ \A q \in Proposals : proposal'[q] = NoProposal \/ IsProposal(proposal'[q])
      /\ RequestAdvances(r)
  <2>0. proposal = [q \in Proposals |-> proposal[q]]
        /\ \A q \in Proposals : proposal[q] = NoProposal \/ IsProposal(proposal[q])
    BY DEF IInv, FilesType
  <2>1. CASE WriteConsent(r)
    <3>1. /\ proposal' = proposal /\ commit'[r] = [commit[r] EXCEPT !.pc = "invalidate"]
          /\ consent' = consent \cup {[mandate |-> r, proposal |-> p]}
      BY <1>0, <2>1 DEF WriteConsent
    <3> QED BY <1>2, <2>0, <3>1 DEF ProposalStays, RequestAdvances
  <2>2. CASE InvalidateProposal(r)
    <3>1. /\ proposal' = [proposal EXCEPT ![p].open = FALSE] /\ consent' = consent
          /\ commit'[r] = [commit[r] EXCEPT !.pc = "done"] /\ commit[r].pc = "invalidate"
      BY <1>0, <2>2 DEF InvalidateProposal, CommitAt
    <3>2. /\ \A q \in Proposals \ {p} : proposal'[q] = proposal[q]
          /\ proposal' = [q \in Proposals |-> proposal'[q]]
          /\ proposal'[p] = [open |-> FALSE, ceilings |-> proposal[p].ceilings,
                             profiles |-> proposal[p].profiles]
      BY <1>3, <1>4, <2>0, <3>1 DEF IsProposal
    <3>3. /\ IsProposal(proposal'[p]) /\ ~proposal'[p].open
      BY <1>4, <3>2 DEF IsProposal
    <3>4. proposal[p] # NoProposal /\ proposal'[p] # NoProposal
      BY <1>4, <3>3 DEF IsProposal, NoProposal
    <3>5. [mandate |-> r, proposal |-> p] \in consent
      BY <1>3, <3>1 DEF IInv, SpentInv
    <3> HIDE DEF p
    <3>6. \A q \in Proposals : ProposalStays(q)
      BY <3>2, <3>3, <3>4 DEF ProposalStays
    <3>7. \A q \in Proposals : proposal'[q] = NoProposal \/ IsProposal(proposal'[q])
      BY <2>0, <3>2, <3>3
    <3>8. RequestAdvances(r)
      BY <3>1, <3>3, <3>5 DEF RequestAdvances, p
    <3> QED BY <3>1, <3>2, <3>6, <3>7, <3>8
  <2>3. CASE CommitRaises(r)
    <3>1. /\ UNCHANGED <<proposal, consent>> /\ commit'[r] = [commit[r] EXCEPT !.pc = "failed"]
      BY <1>0, <2>3 DEF CommitRaises
    <3> QED BY <1>2, <2>0, <3>1 DEF ProposalStays, RequestAdvances
  <2> QED BY <2>1, <2>2, <2>3
<1>6. CommitType' /\ SpentInv' /\ KeepsDocuments
  <2>1. commit' = [t \in Commits |-> commit'[t]] /\ \A t \in Commits \ {r} : commit'[t] = commit[t]
    BY <1>0, <1>2
  <2>2. \A t \in Commits : RequestAdvances(t)
    BY <1>5, <2>1 DEF RequestAdvances
  <2> QED BY <1>5, <2>1, <2>2, RequestsFrame
<1>7. FilesType' /\ WindowInv'
  BY <1>0, <1>5 DEF IInv, FilesType, WindowInv, halt_flag_set
<1>8. TraceInv'
  BY <1>0, <1>6, <1>7, TraceFrame
<1> QED BY <1>1, <1>6, <1>7, <1>8 DEF IInv, OrderInv

LEMMA HaltKeeps ==
    ASSUME IInv, NEW s \in Sentinels, TripHalt(s) \/ ClearHalt(s)
    PROVE  IInv'
<1>1. OrderInv'
  BY OrderFrame DEF IInv, OrderInv, TripHalt, ClearHalt
<1>2. FilesType' /\ CommitType' /\ SpentInv'
  BY DEF IInv, FilesType, CommitType, SpentInv, CommitAt, TripHalt, ClearHalt
<1>3. WindowInv'
  <2>1. \A k \in Calls : IsPassed(call[k]) => call[k].trips \in Nat
    BY DEF IsPassed
  <2>2. CASE TripHalt(s)
    BY <2>1, <2>2 DEF IInv, FilesType, WindowInv, TripHalt
  <2>3. CASE ClearHalt(s)
    BY <2>3 DEF IInv, WindowInv, halt_flag_set, ClearHalt
  <2> QED BY <2>2, <2>3
<1>4. TraceInv'
  BY DEF IInv, TraceInv, Traced, TripHalt, ClearHalt
<1> QED BY <1>1, <1>2, <1>3, <1>4 DEF IInv, OrderInv

-----------------------------------------------------------------------------
(* The gate's own steps. *)

(* The calls after k's entry became c. *)
Moved(f, k, c) == [j \in Calls |-> IF j = k THEN c ELSE f[j]]

(* _audit writes at most the entry of its own call; when appends succeed, it does. *)
LEMMA AuditFrame ==
    ASSUME NEW k \in Calls, NEW kind, ledger = [j \in Calls |-> ledger[j]], Audit(k, kind)
    PROVE  /\ ledger' = [j \in Calls |-> ledger'[j]]
           /\ \A j \in Calls \ {k} : ledger'[j] = ledger[j]
           /\ LedgerFails = {FALSE} => ledger'[k] = kind
<1>1. PICK fails \in LedgerFails : ledger' = IF fails THEN ledger ELSE Recorded(k, kind)
  BY DEF Audit
<1>2. CASE fails
  BY <1>1, <1>2
<1>3. CASE ~fails
  <2>1. ledger' = [ledger EXCEPT ![k] = kind]
    BY <1>1, <1>3 DEF Recorded
  <2> QED BY <2>1
<1> QED BY <1>2, <1>3

(* A step that moves one admitted call on, but does not confirm it. *)
LEMMA MoveKeeps ==
    ASSUME IInv, NEW k \in Calls, IsPassed(call[k]), call[k].pc \notin Ended,
           NEW c, call' = Moved(call, k, c),
           \/ c = Refused
           \/ /\ IsPassed(c) /\ c.mandate = call[k].mandate /\ c.trips = call[k].trips
              /\ c.pc # "placed" /\ MayCount(c),
           resting' = resting \/ (resting' = resting \cup {k} /\ c.sent),
           call[k].sent => c.sent,
           ledger' = [j \in Calls |-> ledger'[j]],
           \A j \in Calls \ {k} : ledger'[j] = ledger[j],
           LedgerFails = {FALSE} /\ c.sent /\ c.pc \in {"done", "placed"} =>
             ledger'[k] \in {"error", "placed"},
           UNCHANGED <<day, proposal, mandate, consent, commit, halted, counter, held, trips,
                       crashes, before>>
    PROVE  IInv' /\ Advances
<1>1. /\ call'[k] = c /\ \A j \in Calls \ {k} : call'[j] = call[j]
      /\ call' = [j \in Calls |-> call'[j]]
  BY DEF Moved
<1>2. \A j \in Calls : Onward(call[j], call'[j])
  BY <1>1 DEF Onward
<1>3. \A j \in Calls : call[j].pc \in Ended => call'[j] = call[j]
  BY <1>1
<1>4. /\ WindowInv' /\ TraceInv' /\ BeforeInv' /\ Advances
      /\ \A j \in Calls : IsCall(call'[j])
  BY <1>2, <1>3, CallsFrame DEF KeepsDocuments
<1>5. FilesType' /\ CommitType' /\ SpentInv'
  BY DEF IInv, FilesType, CommitType, SpentInv, CommitAt
<1>6. CallsType'
  BY <1>1, <1>4 DEF IInv, CallsType
<1>7. SentIsRecorded'
  BY <1>1 DEF IInv, SentIsRecorded
<1>8. CountInv'
  <2>1. c.pc \notin {"new", "placed"}
    BY CallFacts DEF Refused, IsPassed, Early, Capped, Ended
  <2>2. IsPassed(c) => MayCount(c)
    BY NotPassed
  <2>3. \A j \in Calls :
             \/ call'[j] = call[j]
             \/ /\ call[j].pc \notin Ended /\ call'[j].pc \notin {"new", "placed"}
                /\ IsPassed(call'[j]) => MayCount(call'[j])
    BY <1>1, <2>1, <2>2
  <2> QED BY <2>3, CountFrame
<1> QED BY <1>4, <1>5, <1>6, <1>7, <1>8 DEF IInv

(* A refusal of an admitted call. *)
LEMMA RefusalKeeps ==
    ASSUME IInv, NEW k \in Calls, call[k].pc \in {"quote", "check", "place"},
           NEW kind, call' = [call EXCEPT ![k] = Refused], Audit(k, kind),
           UNCHANGED <<day, proposal, mandate, consent, commit, halted, counter, resting,
                       held, trips, crashes, before>>
    PROVE  IInv' /\ Advances
<1>1. /\ IsPassed(call[k]) /\ call[k].pc \notin Ended /\ ~call[k].sent
      /\ call = [j \in Calls |-> call[j]]
  BY CallFacts DEF IInv, CallsType, Ended, Accepted
<1>2. call' = Moved(call, k, Refused)
  BY <1>1 DEF Moved
<1>3. ~Refused.sent
  BY DEF Refused
<1>4. ledger' = [j \in Calls |-> ledger'[j]] /\ \A j \in Calls \ {k} : ledger'[j] = ledger[j]
  BY AuditFrame DEF IInv, CallsType
<1> QED BY <1>1, <1>2, <1>3, <1>4, MoveKeeps

LEMMA EnterGateKeeps ==
    ASSUME IInv, NEW k \in Calls, NEW i \in Intents, EnterGate(k, i)
    PROVE  IInv' /\ \A j \in Calls : call'[j].sent => call[j].sent
<1> DEFINE new == [pc |-> IF i.quantity = Absent THEN "positions" ELSE "quote", intent |-> i,
                mandate |-> LoadMandate, trips |-> trips, notional |-> i.notional,
                positions |-> NoLimit, account |-> 0, count |-> 0, today |-> day, sent |-> FALSE]
           c == IF Admitted(i) THEN new ELSE Refused
<1>0. /\ call[k].pc = "new" /\ call = [j \in Calls |-> call[j]] /\ CallsType /\ BeforeInv
      /\ before' = [before EXCEPT ![k] = {j \in Calls : call[j].pc \in Ended}]
      /\ before = [j \in Calls |-> before[j]] /\ ledger = [j \in Calls |-> ledger[j]]
      /\ UNCHANGED <<day, proposal, mandate, consent, commit, halted, counter, resting, held,
                     trips, crashes>>
  BY DEF EnterGate, IInv, CallsType, BeforeInv
<1>1. /\ call' = [call EXCEPT ![k] = c]
      /\ ledger' = ledger \/ Audit(k, "rejected")
  BY DEF EnterGate, Deny, Refuse
<1>2. Admitted(i) => /\ IsMandate(mandate) /\ mandate # NoMandate /\ halted = {}
                     /\ mandate = LoadMandate
  BY DEF IInv, FilesType, Admitted, LoadMandate, halt_flag_set
<1>3. Admitted(i) => IsPassed(new)
  <2> SUFFICES ASSUME Admitted(i) PROVE IsPassed(new)
    OBVIOUS
  <2>1. /\ IsMandate(LoadMandate) /\ trips \in Nat /\ day \in Nat /\ i.notional \in Nat
    BY <1>2, GateAssumption DEF IInv, FilesType
  <2>2. /\ new.pc \in {"positions", "quote"} /\ new.intent = i /\ new.mandate = LoadMandate
        /\ new.trips = trips /\ new.notional = i.notional /\ new.positions = -1
        /\ new.account = 0 /\ new.count = 0 /\ new.today = day /\ new.sent = FALSE
        /\ new = [pc |-> new.pc, intent |-> new.intent, mandate |-> new.mandate,
                  trips |-> new.trips, notional |-> new.notional, positions |-> new.positions,
                  account |-> new.account, count |-> new.count, today |-> new.today,
                  sent |-> new.sent]
    BY DEF NoLimit
  <2> HIDE DEF new
  <2>3. /\ new.account \in Int /\ new.count \in Nat /\ new.notional \in Nat
        /\ new.today \in Nat /\ new.trips \in Nat
    BY <2>1, <2>2
  <2>3b. new.positions \in Int /\ new.intent \in Intents
    BY <2>2
  <2>3c. new.sent \in BOOLEAN
    BY <2>2
  <2>3a. IsMandate(new.mandate)
    <3>1. new.mandate = LoadMandate
      BY <2>2
    <3> QED BY ONLY <2>1, <3>1
  <2>4. new.pc \in Early /\ new.pc \notin {"check", "counted", "placed"} /\ ~new.sent
    BY <2>2 DEF Early
  <2> QED BY <2>2, <2>3, <2>3a, <2>3b, <2>3c, <2>4 DEF IsPassed
<1>4. /\ c.sent = FALSE /\ c.pc \in {"positions", "quote", "done"}
      /\ IsPassed(c) => /\ Admitted(i) /\ c.mandate = mandate /\ c.trips = trips /\ c.today = day
      /\ IsCall(c)
  <2>1. CASE Admitted(i)
    <3>1. c = new /\ new.sent = FALSE /\ new.pc \in {"positions", "quote"}
          /\ new.mandate = LoadMandate /\ new.trips = trips /\ new.today = day
      BY <2>1
    <3> QED BY <1>2, <1>3, <2>1, <3>1 DEF IsCall
  <2>2. CASE ~Admitted(i)
    <3>1. c = Refused
      BY <2>2
    <3> QED BY <3>1, NotPassed DEF IsCall, Refused
  <2> QED BY <2>1, <2>2
<1> HIDE DEF c, new
<1>5. /\ call'[k] = c /\ \A j \in Calls \ {k} : call'[j] = call[j]
      /\ call' = [j \in Calls |-> call'[j]]
  BY <1>0, <1>1
<1>6. /\ before' = [j \in Calls |-> before'[j]] /\ \A j \in Calls \ {k} : before'[j] = before[j]
      /\ before'[k] = {j \in Calls : call[j].pc \in Ended}
  BY <1>0
<1>7. ~call[k].sent /\ k \notin resting /\ ~IsPassed(call[k])
  BY <1>0, CallFacts DEF Accepted, Ended
<1>8. ledger' = [j \in Calls |-> ledger'[j]] /\ \A j \in Calls \ {k} : ledger'[j] = ledger[j]
  BY <1>0, <1>1, AuditFrame
<1>9. FilesType' /\ CommitType' /\ SpentInv'
  BY <1>0 DEF IInv, FilesType, CommitType, SpentInv, CommitAt
<1>10. CallsType'
  BY <1>0, <1>4, <1>5, <1>7, <1>8 DEF CallsType
<1>11. SentIsRecorded'
  BY <1>4, <1>5, <1>8 DEF IInv, SentIsRecorded
<1>12. WindowInv'
  BY <1>0, <1>2, <1>4, <1>5 DEF IInv, FilesType, WindowInv, halt_flag_set
<1>13. TraceInv'
  <2>1. ASSUME NEW m, Traced(m) PROVE Traced(m)'
    BY <1>0, <2>1 DEF Traced
  <2>2. mandate' # NoMandate => Traced(mandate)'
    BY <1>0, <2>1 DEF IInv, TraceInv
  <2>3. ASSUME NEW j \in Calls, IsPassed(call'[j]) PROVE Traced(call[j].mandate)'
    <3>1. CASE j = k
      <4>1. Traced(mandate) /\ call'[j].mandate = mandate
        BY <1>2, <1>4, <1>5, <2>3, <3>1 DEF IInv, TraceInv
      <4> QED BY <1>0, <4>1 DEF Traced
    <3>2. CASE j # k
      <4>1. Traced(call[j].mandate) /\ call'[j] = call[j]
        BY <1>5, <2>3, <3>2 DEF IInv, TraceInv
      <4> QED BY <1>0, <4>1 DEF Traced
    <3> QED BY <3>1, <3>2
  <2> QED BY <2>2, <2>3 DEF TraceInv
<1>14. BeforeInv'
  <2>1. call[k].pc \notin Ended
    BY <1>0 DEF Ended
  <2>2. \A j \in Calls : call[j].pc \in Ended => call'[j].pc \in Ended
    BY <1>5, <2>1
  <2>3. \A j \in Calls : before'[j] \subseteq {m \in Calls : call[m].pc \in Ended}
    BY <1>0, <1>6 DEF BeforeInv
  <2> QED BY <1>6, <2>2, <2>3 DEF BeforeInv
<1>15. CountInv'
  <2>1. /\ call[k].pc \notin Ended /\ c.pc \notin {"new", "placed"}
        /\ IsPassed(c) => MayCount(c)
    BY <1>0, <1>4 DEF Ended, Capped, IInv, FilesType, MayCount
  <2>2. \A j \in Calls :
             \/ call'[j] = call[j]
             \/ /\ call[j].pc \notin Ended /\ call'[j].pc \notin {"new", "placed"}
                /\ IsPassed(call'[j]) => MayCount(call'[j])
    BY <1>5, <2>1
  <2>3. \A j \in Calls : before'[j] = before[j] \/ call[j].pc = "new"
    BY <1>0, <1>6
  <2> QED BY <1>0, <2>2, <2>3, CountFrame
<1>16. \A j \in Calls : call'[j].sent => call[j].sent
  BY <1>4, <1>5
<1> QED BY <1>9, <1>10, <1>11, <1>12, <1>13, <1>14, <1>15, <1>16 DEF IInv

LEMMA PriceOrderKeeps ==
    ASSUME IInv, NEW k \in Calls, PriceOrder(k)
    PROVE  IInv' /\ Advances
<1> DEFINE d == call[k]
<1>0. /\ d.pc = "quote" /\ CallsType /\ call = [j \in Calls |-> call[j]]
      /\ IsPassed(d) /\ ~d.sent /\ d.pc \notin Ended /\ d.today <= day
      /\ UNCHANGED <<day, proposal, mandate, consent, commit, halted, counter, resting, held,
                     trips, crashes, before>>
  BY CallFacts DEF PriceOrder, IInv, CallsType, CountInv, Accepted, Ended
<1>1. PICK price \in Quotes(d.intent) :
       IF price = Absent THEN Deny(k)
       ELSE /\ call' = [call EXCEPT ![k].pc = "positions", ![k].notional = SizeAt(d, price)]
            /\ UNCHANGED ledger
  BY DEF PriceOrder
<1>2. CASE price = Absent
  <2>1. call' = [call EXCEPT ![k] = Refused] /\ Audit(k, "rejected")
    BY <1>1, <1>2 DEF Deny, Refuse
  <2> QED BY <1>0, <2>1, RefusalKeeps
<1>3. CASE price # Absent
  <2>1. price \in Nat
    BY <1>3, GateAssumption DEF Quotes, BrokerQuotes, LastPrices, Absent
  <2> DEFINE size == SizeAt(d, price)
             c == Stage(d, "positions", size, d.positions, d.account, d.count, d.today, d.sent)
  <2>2. size \in Nat
    <3>1. d.intent.quantity \in Nat /\ d.notional \in Nat
      BY <1>0, GateAssumption DEF IsPassed
    <3>2. d.intent.quantity * price \in Nat
      BY <2>1, <3>1
    <3> QED BY <3>1, <3>2 DEF SizeAt, Larger
  <2>3. call' = [call EXCEPT ![k].pc = "positions", ![k].notional = size] /\ UNCHANGED ledger
    BY <1>1, <1>3
  <2> HIDE DEF size
  <2>4. call' = Moved(call, k, c)
    <3>1. call'[k] = c
      BY <1>0, <2>3 DEF IsPassed, Stage
    <3>2. call' = [j \in Calls |-> IF j = k THEN call'[k] ELSE call[j]]
      BY <1>0, <2>3
    <3> QED BY <3>1, <3>2 DEF Moved
  <2>5. /\ c.pc = "positions" /\ c.intent = d.intent /\ c.mandate = d.mandate
        /\ c.trips = d.trips /\ c.notional = size /\ c.positions = d.positions
        /\ c.account = d.account /\ c.count = d.count /\ c.today = d.today /\ c.sent = d.sent
        /\ c = [pc |-> c.pc, intent |-> c.intent, mandate |-> c.mandate, trips |-> c.trips,
                notional |-> c.notional, positions |-> c.positions, account |-> c.account,
                count |-> c.count, today |-> c.today, sent |-> c.sent]
    BY <1>0, StageFields
  <2> HIDE DEF c
  <2>6. IsPassed(c)
    BY <1>0, <2>2, <2>5 DEF IsPassed, Early
  <2>7. ~c.sent /\ c.pc # "placed" /\ MayCount(c)
    BY <1>0, <2>5 DEF Capped, MayCount
  <2>8. ledger' = [j \in Calls |-> ledger'[j]] /\ \A j \in Calls \ {k} : ledger'[j] = ledger[j]
    BY <2>3 DEF IInv, CallsType
  <2> QED BY <1>0, <2>4, <2>5, <2>6, <2>7, <2>8, MoveKeeps
<1> QED BY <1>2, <1>3

LEMMA ReadPositionsKeeps ==
    ASSUME IInv, NEW k \in Calls, ReadPositions(k)
    PROVE  IInv' /\ Advances
<1> DEFINE d == call[k]
<1>0. /\ d.pc = "positions" /\ CallsType /\ call = [j \in Calls |-> call[j]] /\ held \in Int
      /\ IsPassed(d) /\ ~d.sent /\ d.pc \notin Ended /\ d.today <= day
      /\ UNCHANGED <<day, proposal, mandate, consent, commit, halted, counter, resting, held,
                     ledger, trips, crashes, before>>
  BY CallFacts DEF ReadPositions, IInv, CallsType, CountInv, Accepted, Ended
<1>1. PICK seen \in PositionsSeen :
        call' = [call EXCEPT ![k].pc = "check", ![k].positions = seen, ![k].account = held]
  BY DEF ReadPositions
<1>2. seen \in Int /\ seen \in {held, NoLimit}
  BY <1>0 DEF PositionsSeen, NoLimit
<1> DEFINE c == Stage(d, "check", d.notional, seen, held, d.count, d.today, d.sent)
<1>3. call' = Moved(call, k, c)
  <2>1. call'[k] = c
    BY <1>0, <1>1 DEF IsPassed, Stage
  <2>2. call' = [j \in Calls |-> IF j = k THEN call'[k] ELSE call[j]]
    BY <1>0, <1>1
  <2> QED BY <2>1, <2>2 DEF Moved
<1>4. /\ c.pc = "check" /\ c.intent = d.intent /\ c.mandate = d.mandate
      /\ c.trips = d.trips /\ c.notional = d.notional /\ c.positions = seen
      /\ c.account = held /\ c.count = d.count /\ c.today = d.today /\ c.sent = d.sent
      /\ c = [pc |-> c.pc, intent |-> c.intent, mandate |-> c.mandate, trips |-> c.trips,
              notional |-> c.notional, positions |-> c.positions, account |-> c.account,
              count |-> c.count, today |-> c.today, sent |-> c.sent]
  BY <1>0, StageFields
<1> HIDE DEF c
<1>5. IsPassed(c)
  BY <1>0, <1>2, <1>4 DEF IsPassed, Early
<1>6. ~c.sent /\ c.pc # "placed" /\ MayCount(c)
  BY <1>0, <1>4 DEF Capped, MayCount
<1>7. ledger' = [j \in Calls |-> ledger'[j]] /\ \A j \in Calls \ {k} : ledger'[j] = ledger[j]
  BY <1>0 DEF CallsType
<1> QED BY <1>0, <1>3, <1>4, <1>5, <1>6, <1>7, MoveKeeps

(* check_mandate: what it lets through is within every limit. *)
LEMMA DecisionWithinLimits ==
    ASSUME NEW k \in Calls, IsPassed(call[k]), call[k].pc = "check", DailyCount \in Nat,
           ~StructuralBreach(k), ~QuantitativeBreach(k)
    PROVE  Decided(call[k]) /\ DailyCount + 1 <= call[k].mandate.caps.trades
<1> DEFINE c == call[k]
           caps == c.mandate.caps
<1>1. /\ c.notional \in Nat /\ c.positions \in Int /\ caps.order \in Int
      /\ caps.exposure \in Int /\ caps.trades \in Int /\ c.account \in Int
      /\ caps.leverage \in Int /\ caps.funding \in Int
      /\ c.positions \in {c.account, NoLimit}
  BY DEF IsPassed, IsMandate
<1>2. c.notional > 0
  BY <1>1 DEF StructuralBreach, ResolveOrderNotional, Absent
<1>3. c.notional <= caps.order /\ DailyCount + 1 <= caps.trades /\ c.positions # NoLimit
  BY <1>1 DEF QuantitativeBreach, Oversized, TradesSpent
<1>4. ASSUME c.intent.side = "buy"
      PROVE  Affordable(c, c.account + c.notional)
  <2> DEFINE after == c.positions + c.notional
             gross == IF after < 0 THEN -after ELSE after
             room  == caps.leverage * caps.funding
  <2>1. ~(after > caps.exposure) /\ ~(gross > room)
    BY <1>4 DEF QuantitativeBreach
  <2>2. room \in Int
    BY <1>1
  <2> HIDE DEF room
  <2>3. after <= caps.exposure /\ after <= room
    BY <1>1, <2>1, <2>2
  <2>4. c.positions = c.account
    BY <1>1, <1>3
  <2> QED BY <2>3, <2>4 DEF Affordable, room
<1> QED BY <1>2, <1>3, <1>4 DEF Decided

LEMMA DecideKeeps ==
    ASSUME IInv, NEW k \in Calls, Decide(k)
    PROVE  IInv' /\ Advances
<1> DEFINE d == call[k]
           c == AtStage(d, "place")
<1>0. /\ d.pc = "check" /\ CallsType /\ call = [j \in Calls |-> call[j]]
      /\ IsPassed(d) /\ ~d.sent /\ d.pc \notin Ended /\ d.today <= day
      /\ UNCHANGED <<day, proposal, mandate, consent, commit, halted, counter, resting, held,
                     trips, crashes, before>>
  BY CallFacts DEF Decide, IInv, CallsType, CountInv, Accepted, Ended
<1>1. CASE StructuralBreach(k) \/ QuantitativeBreach(k)
  <2>1. call' = [call EXCEPT ![k] = Refused] /\ Audit(k, "breach")
    BY <1>1 DEF Decide, DenyBreach, Refuse
  <2> QED BY <1>0, <2>1, RefusalKeeps
<1>2. CASE ~(StructuralBreach(k) \/ QuantitativeBreach(k))
  <2>1. call' = [call EXCEPT ![k].pc = "place"] /\ UNCHANGED ledger
    BY <1>2 DEF Decide
  <2>2. DailyCount \in Nat
    BY DEF IInv, FilesType, DailyCount
  <2>3. Decided(d) /\ DailyCount + 1 <= d.mandate.caps.trades
    BY <1>0, <1>2, <2>2, DecisionWithinLimits
  <2>4. call' = Moved(call, k, c)
    <3>1. call'[k] = c
      BY <1>0, <2>1 DEF IsPassed, Stage, AtStage
    <3>2. call' = [j \in Calls |-> IF j = k THEN call'[k] ELSE call[j]]
      BY <1>0, <2>1
    <3> QED BY <3>1, <3>2 DEF Moved
  <2>5. /\ c.pc = "place" /\ c.intent = d.intent /\ c.mandate = d.mandate
        /\ c.trips = d.trips /\ c.notional = d.notional /\ c.positions = d.positions
        /\ c.account = d.account /\ c.count = d.count /\ c.today = d.today /\ c.sent = d.sent
        /\ c = [pc |-> c.pc, intent |-> c.intent, mandate |-> c.mandate, trips |-> c.trips,
                notional |-> c.notional, positions |-> c.positions, account |-> c.account,
                count |-> c.count, today |-> c.today, sent |-> c.sent]
    BY <1>0, StageFields DEF AtStage
  <2> HIDE DEF c
  <2>6. Decided(c)
    BY <2>3, <2>5 DEF Decided, Affordable
  <2>7. IsPassed(c)
    BY <1>0, <2>5, <2>6 DEF IsPassed, Early, Capped
  <2>8. Cardinality(SolitaryToday) + 1 <= c.mandate.caps.trades
    <3>1. Cardinality(SolitaryToday) <= DailyCount /\ Cardinality(SolitaryToday) \in Nat
      BY TodayTypes, CallSets DEF IInv, CountInv, CounterAccounts
    <3>2. d.mandate.caps.trades \in Int
      BY <1>0 DEF IsPassed, IsMandate
    <3> QED BY <2>2, <2>3, <2>5, <3>1, <3>2
  <2>9. ledger' = [j \in Calls |-> ledger'[j]] /\ \A j \in Calls \ {k} : ledger'[j] = ledger[j]
    BY <1>0, <2>1 DEF CallsType
  <2>10. ~c.sent /\ c.pc # "placed" /\ MayCount(c)
    BY <1>0, <2>5, <2>8 DEF MayCount
  <2> QED BY <1>0, <2>4, <2>5, <2>7, <2>9, <2>10, MoveKeeps
<1> QED BY <1>1, <1>2

(* The broker takes the order or not, and the answer counts as a placement or not. *)
LEMMA PlaceOrderKeeps ==
    ASSUME IInv, NEW k \in Calls, PlaceOrder(k)
    PROVE  IInv' /\ Advances
<1> DEFINE d == call[k]
<1>0. /\ d.pc = "place" /\ CallsType /\ call = [j \in Calls |-> call[j]]
      /\ IsPassed(d) /\ ~d.sent /\ d.pc \notin Ended /\ d.today <= day
      /\ Cardinality(SolitaryToday) + 1 <= d.mandate.caps.trades /\ Decided(d)
      /\ ledger = [j \in Calls |-> ledger[j]]
      /\ UNCHANGED <<day, proposal, mandate, consent, commit, halted, counter, held,
                     trips, crashes, before>>
  BY CallFacts DEF PlaceOrder, IInv, CallsType, CountInv, Fits, IsPassed, Early, Capped, Accepted,
                   Ended
<1>1. PICK taken \in BOOLEAN, answer \in {"ok", "error", "other"} :
       /\ resting' = IF taken THEN resting \cup {k} ELSE resting
       /\ IF CountsAsPlaced(d.intent.path, answer)
          THEN call' = [call EXCEPT ![k].sent = taken, ![k].pc = "count"] /\ UNCHANGED ledger
          ELSE ForwardFails(k, taken)
  BY DEF PlaceOrder
<1>2. CASE CountsAsPlaced(d.intent.path, answer)
  <2> DEFINE c == Stage(d, "count", d.notional, d.positions, d.account, d.count, d.today, taken)
  <2>1. call' = [call EXCEPT ![k].sent = taken, ![k].pc = "count"] /\ UNCHANGED ledger
    BY <1>1, <1>2
  <2>2. call' = Moved(call, k, c)
    <3>1. call'[k] = c
      BY <1>0, <2>1 DEF IsPassed, Stage
    <3>2. call' = [j \in Calls |-> IF j = k THEN call'[k] ELSE call[j]]
      BY <1>0, <2>1
    <3> QED BY <3>1, <3>2 DEF Moved
  <2>3. /\ c.pc = "count" /\ c.intent = d.intent /\ c.mandate = d.mandate
        /\ c.trips = d.trips /\ c.notional = d.notional /\ c.positions = d.positions
        /\ c.account = d.account /\ c.count = d.count /\ c.today = d.today /\ c.sent = taken
        /\ c = [pc |-> c.pc, intent |-> c.intent, mandate |-> c.mandate, trips |-> c.trips,
                notional |-> c.notional, positions |-> c.positions, account |-> c.account,
                count |-> c.count, today |-> c.today, sent |-> c.sent]
    BY <1>0, StageFields
  <2> HIDE DEF c
  <2>4. Decided(c)
    BY <1>0, <2>3 DEF Decided, Affordable
  <2>5. IsPassed(c)
    BY <1>0, <2>3, <2>4 DEF IsPassed, Capped, Accepted
  <2>6. MayCount(c) /\ c.pc \notin {"placed", "done"}
    BY <1>0, <2>3 DEF MayCount
  <2>7. resting' = resting \/ (resting' = resting \cup {k} /\ c.sent)
    BY <1>1, <2>3
  <2>8. ledger' = [j \in Calls |-> ledger'[j]] /\ \A j \in Calls \ {k} : ledger'[j] = ledger[j]
    BY <1>0, <2>1
  <2> QED BY <1>0, <2>2, <2>3, <2>5, <2>6, <2>7, <2>8, MoveKeeps
<1>3. CASE ~CountsAsPlaced(d.intent.path, answer) /\ ~taken
  <2>1. call' = [call EXCEPT ![k] = Refused] /\ Audit(k, "error") /\ resting' = resting
    BY <1>1, <1>3 DEF ForwardFails
  <2> QED BY <1>0, <2>1, RefusalKeeps
<1>4. CASE ~CountsAsPlaced(d.intent.path, answer) /\ taken
  <2> DEFINE c == Stage(d, "done", d.notional, d.positions, d.account, d.count, d.today, taken)
  <2>1. /\ call' = [call EXCEPT ![k] = [d EXCEPT !.sent = TRUE, !.pc = "done"]]
        /\ Audit(k, "error") /\ resting' = resting \cup {k}
    BY <1>1, <1>4 DEF ForwardFails
  <2>2. call' = Moved(call, k, c)
    <3>1. call'[k] = [d EXCEPT !.sent = TRUE, !.pc = "done"]
      BY <1>0, <2>1
    <3>2. call'[k] = c
      BY <1>0, <1>4, <3>1 DEF IsPassed, Stage
    <3>3. call' = [j \in Calls |-> IF j = k THEN call'[k] ELSE call[j]]
      BY <1>0, <2>1
    <3> QED BY <3>2, <3>3 DEF Moved
  <2>3. /\ c.pc = "done" /\ c.intent = d.intent /\ c.mandate = d.mandate
        /\ c.trips = d.trips /\ c.notional = d.notional /\ c.positions = d.positions
        /\ c.account = d.account /\ c.count = d.count /\ c.today = d.today /\ c.sent = taken
        /\ c = [pc |-> c.pc, intent |-> c.intent, mandate |-> c.mandate, trips |-> c.trips,
                notional |-> c.notional, positions |-> c.positions, account |-> c.account,
                count |-> c.count, today |-> c.today, sent |-> c.sent]
    BY <1>0, StageFields
  <2> HIDE DEF c
  <2>4. Decided(c)
    BY <1>0, <2>3 DEF Decided, Affordable
  <2>5. IsPassed(c)
    BY <1>0, <2>3, <2>4 DEF IsPassed, Ended, Accepted
  <2>6. MayCount(c) /\ c.pc # "placed" /\ c.sent
    BY <1>0, <1>4, <2>3 DEF MayCount, Capped
  <2>7. /\ ledger' = [j \in Calls |-> ledger'[j]] /\ \A j \in Calls \ {k} : ledger'[j] = ledger[j]
        /\ LedgerFails = {FALSE} => ledger'[k] = "error"
    BY <1>0, <2>1, AuditFrame
  <2>8. /\ resting' = resting \/ (resting' = resting \cup {k} /\ c.sent)
        /\ ledger' = [j \in Calls |-> ledger'[j]]
        /\ LedgerFails = {FALSE} /\ c.sent /\ c.pc \in {"done", "placed"} =>
             ledger'[k] \in {"error", "placed"}
    BY <2>1, <2>6, <2>7
  <2> QED BY <1>0, <2>2, <2>3, <2>5, <2>6, <2>7, <2>8, MoveKeeps
<1> QED BY <1>2, <1>3, <1>4

LEMMA CountReadKeeps ==
    ASSUME IInv, NEW k \in Calls, CountRead(k)
    PROVE  IInv' /\ Advances
<1> DEFINE d == call[k]
           n == DailyCount + 1
           c == Stage(d, "counted", d.notional, d.positions, d.account, n, day, d.sent)
<1>0. /\ d.pc = "count" /\ CallsType /\ call = [j \in Calls |-> call[j]]
      /\ IsPassed(d) /\ d.pc \notin Ended /\ Decided(d)
      /\ Cardinality(SolitaryToday) + 1 <= d.mandate.caps.trades
      /\ ledger = [j \in Calls |-> ledger[j]]
      /\ UNCHANGED <<day, proposal, mandate, consent, commit, halted, counter, resting, held,
                     ledger, trips, crashes, before>>
  BY CallFacts DEF CountRead, IInv, CallsType, CountInv, Fits, IsPassed, Early, Capped, Ended
<1>0a. call' = [call EXCEPT ![k].pc = "counted", ![k].count = n, ![k].today = day]
  BY DEF CountRead
<1>1. n \in Nat /\ n > 0 /\ day \in Nat /\ n = DailyCount + 1
  BY DEF IInv, FilesType, DailyCount
<1> HIDE DEF n
<1>2. call' = Moved(call, k, c)
  <2>1. call'[k] = c
    BY <1>0, <1>0a DEF IsPassed, Stage
  <2>2. call' = [j \in Calls |-> IF j = k THEN call'[k] ELSE call[j]]
    BY <1>0, <1>0a
  <2> QED BY <2>1, <2>2 DEF Moved
<1>3. /\ c.pc = "counted" /\ c.intent = d.intent /\ c.mandate = d.mandate
        /\ c.trips = d.trips /\ c.notional = d.notional /\ c.positions = d.positions
        /\ c.account = d.account /\ c.count = n /\ c.today = day /\ c.sent = d.sent
        /\ c = [pc |-> c.pc, intent |-> c.intent, mandate |-> c.mandate, trips |-> c.trips,
                notional |-> c.notional, positions |-> c.positions, account |-> c.account,
                count |-> c.count, today |-> c.today, sent |-> c.sent]
  BY <1>0, StageFields
<1> HIDE DEF c
<1>4. Decided(c)
  BY <1>0, <1>3 DEF Decided, Affordable
<1>5. IsPassed(c)
  BY <1>0, <1>1, <1>3, <1>4 DEF IsPassed, Capped, Accepted
<1>6. MayCount(c) /\ c.pc \notin {"placed", "done"}
  BY <1>0, <1>1, <1>3 DEF MayCount
<1> QED BY <1>0, <1>2, <1>3, <1>5, <1>6, MoveKeeps

LEMMA CountRaisesKeeps ==
    ASSUME IInv, NEW k \in Calls, CountRaises(k)
    PROVE  IInv' /\ Advances
<1> DEFINE d == call[k]
           c == AtStage(d, "raised")
<1>0. /\ d.pc \in {"count", "counted"} /\ CallsType /\ call = [j \in Calls |-> call[j]]
      /\ IsPassed(d) /\ d.pc \notin Ended /\ Decided(d) /\ d.today <= day
      /\ ledger = [j \in Calls |-> ledger[j]]
      /\ UNCHANGED <<day, proposal, mandate, consent, commit, halted, counter, resting, held,
                     ledger, trips, crashes, before>>
  BY CallFacts DEF CountRaises, IInv, CallsType, CountInv, IsPassed, Early, Capped, Ended
<1>0a. call' = [call EXCEPT ![k].pc = "raised"]
  BY DEF CountRaises
<1>1. call' = Moved(call, k, c)
  <2>1. call'[k] = c
    BY <1>0, <1>0a DEF IsPassed, Stage, AtStage
  <2>2. call' = [j \in Calls |-> IF j = k THEN call'[k] ELSE call[j]]
    BY <1>0, <1>0a
  <2> QED BY <2>1, <2>2 DEF Moved
<1>2. /\ c.pc = "raised" /\ c.intent = d.intent /\ c.mandate = d.mandate
        /\ c.trips = d.trips /\ c.notional = d.notional /\ c.positions = d.positions
        /\ c.account = d.account /\ c.count = d.count /\ c.today = d.today /\ c.sent = d.sent
        /\ c = [pc |-> c.pc, intent |-> c.intent, mandate |-> c.mandate, trips |-> c.trips,
                notional |-> c.notional, positions |-> c.positions, account |-> c.account,
                count |-> c.count, today |-> c.today, sent |-> c.sent]
  BY <1>0, StageFields DEF AtStage
<1> HIDE DEF c
<1>3. Decided(c)
  BY <1>0, <1>2 DEF Decided, Affordable
<1>4. IsPassed(c)
  BY <1>0, <1>2, <1>3 DEF IsPassed, Ended, Accepted
<1>5. MayCount(c) /\ c.pc \notin {"placed", "done"}
  BY <1>0, <1>2 DEF MayCount, Capped
<1> QED BY <1>0, <1>1, <1>2, <1>4, <1>5, MoveKeeps

(* An order on its way when its sender died lands. *)
LEMMA LandLateKeeps ==
    ASSUME IInv, NEW k \in Calls, LandLate(k)
    PROVE  IInv' /\ Advances
<1> PICK landed \in BOOLEAN : landed = TRUE
  OBVIOUS
<1> DEFINE d == call[k]
           c == Stage(d, "dead", d.notional, d.positions, d.account, d.count, d.today, landed)
<1>0. /\ d.pc = "flying" /\ CallsType /\ call = [j \in Calls |-> call[j]]
      /\ IsPassed(d) /\ d.pc \notin Ended /\ Decided(d) /\ d.today <= day /\ ~d.sent
      /\ resting' = resting \cup {k} /\ ledger = [j \in Calls |-> ledger[j]]
      /\ UNCHANGED <<day, proposal, mandate, consent, commit, halted, counter, held,
                     ledger, trips, crashes, before>>
  BY CallFacts DEF LandLate, IInv, CallsType, CountInv, IsPassed, Early, Accepted, Ended
<1>0a. call' = [call EXCEPT ![k].pc = "dead", ![k].sent = TRUE]
  BY DEF LandLate
<1>1. call' = Moved(call, k, c)
  <2>1. call'[k] = c
    BY <1>0, <1>0a DEF IsPassed, Stage
  <2>2. call' = [j \in Calls |-> IF j = k THEN call'[k] ELSE call[j]]
    BY <1>0, <1>0a
  <2> QED BY <2>1, <2>2 DEF Moved
<1>2. /\ c.pc = "dead" /\ c.intent = d.intent /\ c.mandate = d.mandate
        /\ c.trips = d.trips /\ c.notional = d.notional /\ c.positions = d.positions
        /\ c.account = d.account /\ c.count = d.count /\ c.today = d.today /\ c.sent = landed
        /\ c = [pc |-> c.pc, intent |-> c.intent, mandate |-> c.mandate, trips |-> c.trips,
                notional |-> c.notional, positions |-> c.positions, account |-> c.account,
                count |-> c.count, today |-> c.today, sent |-> c.sent]
  BY DEF Stage
<1> HIDE DEF c
<1>3. Decided(c)
  BY <1>0, <1>2 DEF Decided, Affordable
<1>4. IsPassed(c)
  BY <1>0, <1>2, <1>3 DEF IsPassed, Ended, Accepted
<1>5. MayCount(c) /\ c.pc \notin {"placed", "done"} /\ c.sent
  BY <1>0, <1>2 DEF MayCount, Capped
<1> QED BY <1>0, <1>1, <1>2, <1>4, <1>5, MoveKeeps

(* A call that has begun and not ended overlaps every other of that kind, for good. *)
LEMMA Overlapping ==
    ASSUME BeforeInv, NEW j \in Calls, NEW k \in Calls, j # k,
           call[j].pc \notin Ended, call[k].pc \notin Ended, call'[j].pc # "new", before' = before
    PROVE  ~Alone(k)'
<1>1. j \notin before[k] /\ k \notin before[j]
  BY DEF BeforeInv
<1> QED BY <1>1 DEF Alone, Apart

(* increment_daily_count's replace: the count of k or of another call is on file. *)
LEMMA CountWriteCounts ==
    ASSUME IInv, NEW k \in Calls, call[k].pc = "counted", NEW j \in Calls, call[j].pc = "counted",
           counter' = [date |-> call[j].today, count |-> call[j].count],
           call'[k].pc = "placed", call'[k].today = call[k].today, call'[k].count = call[k].count,
           call'[k].mandate = call[k].mandate,
           j # k => /\ call'[j].pc = "raised" /\ call'[j].today = call[j].today
                    /\ call'[j].count = call[j].count /\ call'[j].mandate = call[j].mandate,
           \A i \in Calls \ {j, k} : call'[i] = call[i],
           UNCHANGED <<day, before>>
    PROVE  CountInv'
<1> DEFINE S == SolitaryToday
           T == SolitaryToday'
           W == CountedToday
           V == CountedToday'
<1>0. /\ CallsType /\ BeforeInv /\ \A i \in Calls : IsPassed(call'[i]) /\ i \notin {j, k} => IsPassed(call[i])
      /\ IsPassed(call[j]) /\ IsPassed(call[k]) /\ call[k].pc \notin Ended /\ call[j].pc \notin Ended
      /\ k \notin W /\ j \notin W /\ k \notin S /\ day \in Nat
  BY CallFacts DEF IInv, Ended, CountedToday, SolitaryToday, ConfirmedToday, FilesType
<1>1. /\ call[j].count \in Nat /\ call[k].count \in Nat /\ call[j].today \in Nat
      /\ call[j].count > 0 /\ call[k].count > 0 /\ call[k].mandate.caps.trades \in Int
      /\ call[j].today <= day /\ call[k].today <= day
  BY <1>0 DEF IsPassed, IsMandate, IInv, CountInv
<1>2. /\ W \subseteq V /\ V \subseteq Calls /\ (call[j].today = day => W \cup {j} \subseteq V)
  BY <1>1 DEF CountedToday, Ended
<1>3. ASSUME NEW m \in T, m # k PROVE m \in S /\ m # j
  <2>1. m \in Calls /\ call'[m].pc = "placed" /\ m # j
    BY <1>3 DEF SolitaryToday, ConfirmedToday
  <2>2. call'[m] = call[m] /\ m \in ConfirmedToday
    BY <1>3, <2>1 DEF SolitaryToday, ConfirmedToday
  <2>3. Alone(m)
    <3> SUFFICES ASSUME NEW i \in Calls \ {m}, call[i].pc # "new" PROVE Apart(i, m)
      BY DEF Alone
    <3>1. call'[i].pc # "new"
      OBVIOUS
    <3>2. Alone(m)'
      BY <1>3 DEF SolitaryToday
    <3> QED BY <3>1, <3>2 DEF Alone, Apart
  <2> QED BY <2>1, <2>2, <2>3 DEF SolitaryToday
<1>4. ASSUME NEW i \in Calls, i # k, call[i].pc \notin Ended, call[i].pc # "new"
      PROVE  k \notin T /\ T \subseteq S
  <2>1. call'[i].pc # "new"
    BY <1>4
  <2>2. ~Alone(k)'
    BY <1>0, <1>4, <2>1, Overlapping
  <2>3. k \notin T
    BY <2>2 DEF SolitaryToday
  <2> QED BY <1>3, <2>3
<1>5. /\ IsFiniteSet(S) /\ IsFiniteSet(W) /\ IsFiniteSet(V)
      /\ Cardinality(S) \in Nat /\ Cardinality(T) \in Nat /\ Cardinality(W) \in Nat
      /\ Cardinality(V) \in Nat /\ Cardinality(W) <= Cardinality(V)
      /\ T \subseteq Calls
  <2>1. S \subseteq Calls /\ W \subseteq Calls /\ V \subseteq Calls
    BY TodayTypes, <1>2
  <2>2. T \subseteq Calls
    BY DEF SolitaryToday, ConfirmedToday
  <2> QED BY <1>2, <2>1, <2>2, CallSets
<1>6. (call[j].today = day) => Cardinality(W) + 1 <= Cardinality(V)
  <2> SUFFICES ASSUME call[j].today = day PROVE Cardinality(W) + 1 <= Cardinality(V)
    OBVIOUS
  <2>1. Cardinality(W \cup {j}) = Cardinality(W) + 1
    BY <1>0, <1>5, OneMore
  <2>2. Cardinality(W \cup {j}) <= Cardinality(V)
    BY <1>2, CallSets
  <2> QED BY <2>1, <2>2
<1>7. /\ T \subseteq S \cup {k} /\ Cardinality(T) <= Cardinality(S) + 1
      /\ T \subseteq S => Cardinality(T) <= Cardinality(S)
  <2>1. T \subseteq S \cup {k} /\ S \cup {k} \subseteq Calls /\ S \subseteq Calls
    BY <1>3, TodayTypes
  <2>2. Cardinality(S \cup {k}) <= Cardinality(S) + 1 /\ Cardinality(S \cup {k}) \in Nat
    BY <1>5, OneMore
  <2>3. Cardinality(T) <= Cardinality(S \cup {k})
    BY <2>1, CallSets
  <2>4. T \subseteq S => Cardinality(T) <= Cardinality(S)
    BY <2>1, CallSets
  <2> HIDE DEF S, T
  <2> QED BY <1>5, <2>1, <2>2, <2>3, <2>4
<1>8. /\ DailyCount' = IF call[j].today = day THEN call[j].count ELSE 0
      /\ IF call[j].today = day
         THEN /\ call[j].count <= Cardinality(W) + 1 /\ Cardinality(S) + 1 <= call[j].count
         ELSE S = {}
  BY <1>0 DEF DailyCount, IInv, CountInv
<1>9. CounterAccounts'
  <2>1. CASE call[j].today = day
    <3>1. DailyCount' <= Cardinality(V) /\ Cardinality(T) <= DailyCount'
      <4> HIDE DEF S, T, W, V
      <4> QED BY <1>1, <1>5, <1>6, <1>7, <1>8, <2>1
    <3> QED BY <3>1 DEF CounterAccounts
  <2>2. CASE call[j].today # day
    <3>1. DailyCount' = 0 /\ S = {}
      BY <1>8, <2>2
    <3>2. k \notin T
      <4>1. CASE j = k
        BY <2>2, <4>1 DEF SolitaryToday, ConfirmedToday
      <4>2. CASE j # k
        <5>1. call[j].pc # "new"
          OBVIOUS
        <5> QED BY <1>0, <1>4, <4>2, <5>1
      <4> QED BY <4>1, <4>2
    <3>3. T = {}
      BY <1>3, <3>1, <3>2
    <3>4. Cardinality(T) = 0
      BY <3>3, FS_EmptySet
    <3>5. DailyCount' <= Cardinality(V) /\ Cardinality(T) <= DailyCount'
      <4> HIDE DEF S, T, W, V
      <4> QED BY <1>5, <3>1, <3>4
    <3> QED BY <3>5 DEF CounterAccounts
  <2> QED BY <2>1, <2>2
<1>10. DailyCapHolds'
  <2> SUFFICES ASSUME NEW m \in ConfirmedToday'
               PROVE  Cardinality(T \cap before[m]) + 1 <= call'[m].mandate.caps.trades
    BY DEF DailyCapHolds
  <2>1. k \notin before[m] /\ m \in Calls
    BY <1>0 DEF BeforeInv, ConfirmedToday
  <2>2. T \cap before[m] \subseteq S \cap before[m] /\ S \cap before[m] \subseteq S
        /\ S \subseteq Calls /\ S \cap before[m] \subseteq Calls
    BY <1>3, <2>1, TodayTypes
  <2>3. /\ Cardinality(T \cap before[m]) <= Cardinality(S \cap before[m])
        /\ Cardinality(S \cap before[m]) <= Cardinality(S)
        /\ Cardinality(S \cap before[m]) \in Nat /\ Cardinality(T \cap before[m]) \in Nat
    BY <2>2, CallSets
  <2>4. CASE m = k
    <3>1. Cardinality(S) + 1 <= call[k].mandate.caps.trades
      BY <1>0 DEF IInv, CountInv, Fits, Capped
    <3> HIDE DEF S, T
    <3> QED BY <1>1, <1>5, <2>3, <2>4, <3>1
  <2>5. CASE m # k
    <3>1. call'[m] = call[m] /\ m \in ConfirmedToday
      BY <2>5 DEF ConfirmedToday
    <3>2. Cardinality(S \cap before[m]) + 1 <= call[m].mandate.caps.trades
      BY <3>1 DEF IInv, CountInv, DailyCapHolds
    <3>3. IsPassed(call[m])
      BY <1>0, <2>1, <3>1, CallFacts DEF ConfirmedToday
    <3>4. call[m].mandate.caps.trades \in Int
      BY <3>3 DEF IsPassed, IsMandate
    <3> HIDE DEF S, T
    <3> QED BY <2>3, <3>1, <3>2, <3>4
  <2> QED BY <2>4, <2>5
<1>11. ASSUME NEW i \in Calls, IsPassed(call'[i])
       PROVE  /\ call'[i].today <= day
              /\ call'[i].pc \in Capped => Cardinality(T) + 1 <= call'[i].mandate.caps.trades
              /\ call'[i].pc = "counted" =>
                   IF call'[i].today = day
                   THEN /\ call'[i].count <= Cardinality(V) + 1
                        /\ Cardinality(T) + 1 <= call'[i].count
                   ELSE T = {}
  <2>1. CASE i \in {j, k}
    BY <1>1, <2>1 DEF Capped
  <2>2. CASE i \notin {j, k}
    <3>1. call'[i] = call[i] /\ IsPassed(call[i])
      BY <1>11, <2>2
    <3>2. /\ call[i].today <= day
          /\ call[i].pc \in Capped => Cardinality(S) + 1 <= call[i].mandate.caps.trades
          /\ call[i].pc = "counted" =>
               IF call[i].today = day
               THEN /\ call[i].count <= Cardinality(W) + 1
                    /\ Cardinality(S) + 1 <= call[i].count
               ELSE S = {}
      BY <3>1 DEF IInv, CountInv, Fits
    <3>3. call[i].pc \in Capped => T \subseteq S
      BY <1>4, <2>2 DEF Capped, Ended
    <3>4. call[i].mandate.caps.trades \in Int /\ call[i].count \in Nat
      BY <3>1 DEF IsPassed, IsMandate
    <3>5. call[i].pc = "counted" => call[i].pc \in Capped
      BY DEF Capped
    <3>6. T \subseteq S /\ S = {} => T = {}
      OBVIOUS
    <3> HIDE DEF S, T, W, V
    <3> QED BY <1>5, <1>7, <3>1, <3>2, <3>3, <3>4, <3>5, <3>6
  <2> QED BY <2>1, <2>2
<1> QED BY <1>9, <1>10, <1>11 DEF CountInv, Fits

LEMMA CountWriteKeeps ==
    ASSUME IInv, NEW k \in Calls, CountWrite(k)
    PROVE  IInv' /\ Advances
<1>1. PICK j \in Calls :
       /\ call[j].pc = "counted"
       /\ counter' = [date |-> call[j].today, count |-> call[j].count]
       /\ call' = [i \in Calls |-> IF i = k THEN [call[k] EXCEPT !.pc = "placed"]
                                 ELSE IF i = j THEN [call[j] EXCEPT !.pc = "raised"]
                                 ELSE call[i]]
  BY DEF CountWrite
<1>2. /\ call[k].pc = "counted" /\ Audit(k, "placed") /\ CallsType
      /\ ledger = [i \in Calls |-> ledger[i]]
      /\ UNCHANGED <<day, proposal, mandate, consent, commit, halted, resting, held, trips,
                     crashes, before>>
  BY DEF CountWrite, IInv, CallsType
<1>3. /\ IsPassed(call[k]) /\ IsPassed(call[j]) /\ call[k].pc \notin Ended
      /\ call[j].pc \notin Ended
  BY <1>1, <1>2, CallFacts DEF Ended
<1> DEFINE c == AtStage(call[k], "placed")
           d == AtStage(call[j], "raised")
<1>4. /\ call'[k] = c /\ (j # k => call'[j] = d)
      /\ \A i \in Calls \ {j, k} : call'[i] = call[i]
      /\ call' = [i \in Calls |-> call'[i]]
  BY <1>1, <1>3 DEF IsPassed, AtStage, Stage
<1>5. /\ c.pc = "placed" /\ c.intent = call[k].intent /\ c.mandate = call[k].mandate
      /\ c.trips = call[k].trips /\ c.notional = call[k].notional
      /\ c.positions = call[k].positions /\ c.account = call[k].account
      /\ c.count = call[k].count /\ c.today = call[k].today /\ c.sent = call[k].sent
      /\ c = [pc |-> c.pc, intent |-> c.intent, mandate |-> c.mandate, trips |-> c.trips,
              notional |-> c.notional, positions |-> c.positions, account |-> c.account,
              count |-> c.count, today |-> c.today, sent |-> c.sent]
  BY <1>3, StageFields DEF AtStage
<1>6. /\ d.pc = "raised" /\ d.intent = call[j].intent /\ d.mandate = call[j].mandate
      /\ d.trips = call[j].trips /\ d.notional = call[j].notional
      /\ d.positions = call[j].positions /\ d.account = call[j].account
      /\ d.count = call[j].count /\ d.today = call[j].today /\ d.sent = call[j].sent
      /\ d = [pc |-> d.pc, intent |-> d.intent, mandate |-> d.mandate, trips |-> d.trips,
              notional |-> d.notional, positions |-> d.positions, account |-> d.account,
              count |-> d.count, today |-> d.today, sent |-> d.sent]
  BY <1>3, StageFields DEF AtStage
<1> HIDE DEF c, d
<1>7. IsPassed(c)
  <2>1. Decided(c)
    BY <1>2, <1>3, <1>5 DEF IsPassed, Early, Decided, Affordable
  <2> QED BY <1>2, <1>3, <1>5, <2>1 DEF IsPassed, Ended, Accepted
<1>8. IsPassed(d)
  <2>1. Decided(d)
    BY <1>1, <1>3, <1>6 DEF IsPassed, Early, Decided, Affordable
  <2> QED BY <1>1, <1>3, <1>6, <2>1 DEF IsPassed, Ended, Accepted
<1>9. \A i \in Calls : Onward(call[i], call'[i])
  BY <1>3, <1>4, <1>5, <1>6, <1>7, <1>8 DEF Onward
<1>10. \A i \in Calls : call[i].pc \in Ended => call'[i] = call[i]
  BY <1>3, <1>4
<1>11. /\ WindowInv' /\ TraceInv' /\ BeforeInv' /\ Advances
       /\ \A i \in Calls : IsCall(call'[i])
  BY <1>2, <1>9, <1>10, CallsFrame DEF KeepsDocuments
<1>12. FilesType' /\ CommitType' /\ SpentInv'
  <2>1. /\ counter'.date = call[j].today /\ counter'.count = call[j].count
        /\ counter' = [date |-> counter'.date, count |-> counter'.count]
    BY <1>1
  <2>2. call[j].today \in Nat /\ call[j].count \in Nat /\ call[j].today <= day
    BY <1>3 DEF IsPassed, IInv, CountInv
  <2> QED BY <1>2, <2>1, <2>2 DEF IInv, FilesType, CommitType, SpentInv, CommitAt
<1>13. /\ ledger' = [i \in Calls |-> ledger'[i]] /\ \A i \in Calls \ {k} : ledger'[i] = ledger[i]
       /\ LedgerFails = {FALSE} => ledger'[k] = "placed"
  BY <1>2, AuditFrame
<1>14. CallsType'
  <2>1. \A i \in resting : call'[i].sent
    BY <1>2, <1>4, <1>5, <1>6 DEF CallsType
  <2> QED BY <1>2, <1>4, <1>11, <1>13, <2>1 DEF CallsType
<1>15. SentIsRecorded'
  <2> SUFFICES ASSUME LedgerFails = {FALSE}, NEW i \in Calls, call'[i].pc \in {"done", "placed"},
                      call'[i].sent
               PROVE  ledger'[i] \in {"error", "placed"}
    BY DEF SentIsRecorded
  <2>1. CASE i = k
    BY <1>13, <2>1
  <2>2. CASE i # k
    <3>1. call'[i] = call[i] /\ ledger'[i] = ledger[i]
      BY <1>4, <1>6, <1>13, <2>2
    <3> QED BY <3>1 DEF IInv, SentIsRecorded
  <2> QED BY <2>1, <2>2
<1>16. CountInv'
  BY <1>1, <1>2, <1>4, <1>5, <1>6, CountWriteCounts
<1> QED BY <1>11, <1>12, <1>14, <1>15, <1>16 DEF IInv

(* A fill moves the positions, which no other file or call knows of. *)
LEMMA FillKeeps ==
    ASSUME IInv, NEW k \in Calls, Fill(k)
    PROVE  IInv'
<1> DEFINE d == call[k]
<1>0. /\ k \in resting /\ resting' = resting \ {k} /\ CallsType /\ IsPassed(d) /\ held \in Int
      /\ UNCHANGED <<day, proposal, mandate, consent, commit, halted, counter, call, ledger,
                     trips, crashes, before>>
  BY CallFacts DEF Fill, IInv, CallsType
<1>1. PICK price \in Prices :
       LET size == IF d.intent.quantity = Absent THEN d.intent.notional
                   ELSE d.intent.quantity * price
       IN  held' = IF d.intent.side = "buy" THEN held + size ELSE held - size
  BY DEF Fill
<1> DEFINE size == IF d.intent.quantity = Absent THEN d.intent.notional
                   ELSE d.intent.quantity * price
<1>2. size \in Nat
  <2>1. d.intent.quantity \in Nat /\ d.intent.notional \in Nat /\ price \in Nat
    BY <1>0, GateAssumption DEF IsPassed
  <2>2. d.intent.quantity * price \in Nat
    BY <2>1
  <2> QED BY <2>1, <2>2
<1>3. held' = (IF d.intent.side = "buy" THEN held + size ELSE held - size)
  BY <1>1
<1> HIDE DEF size
<1>4. held' \in Int
  BY <1>0, <1>2, <1>3
<1>5. FilesType' /\ CommitType' /\ WindowInv' /\ TraceInv' /\ SpentInv'
  BY <1>0 DEF IInv, FilesType, CommitType, WindowInv, halt_flag_set, TraceInv, Traced, SpentInv,
              CommitAt
<1>6. CallsType' /\ SentIsRecorded' /\ BeforeInv'
  BY <1>0, <1>4 DEF IInv, CallsType, SentIsRecorded, BeforeInv
<1>7. CountInv'
  BY <1>0, CountFrame
<1> QED BY <1>5, <1>6, <1>7 DEF IInv

LEMMA NextDayKeeps ==
    ASSUME IInv, NextDay
    PROVE  IInv'
<1>0. /\ day' = day + 1 /\ day \in Nat /\ CallsType
      /\ UNCHANGED <<proposal, mandate, consent, commit, halted, counter, call, resting, held,
                     ledger, trips, crashes, before>>
  BY DEF NextDay, IInv, FilesType
<1>1. FilesType'
  BY <1>0 DEF IInv, FilesType
<1>2. CommitType' /\ WindowInv' /\ TraceInv' /\ SpentInv'
  BY <1>0 DEF IInv, CommitType, WindowInv, halt_flag_set, TraceInv, Traced, SpentInv, CommitAt
<1>3. CallsType' /\ SentIsRecorded' /\ BeforeInv'
  BY <1>0 DEF IInv, CallsType, SentIsRecorded, BeforeInv
<1>4. \A k \in Calls : IsPassed(call[k]) => /\ call[k].today \in Nat /\ call[k].today <= day
                                          /\ call[k].today # day'
  <2>1. \A k \in Calls : IsPassed(call[k]) => call[k].today \in Nat
    BY DEF IsPassed
  <2>2. \A k \in Calls : IsPassed(call[k]) => call[k].today <= day
    BY DEF IInv, CountInv
  <2> QED BY <1>0, <2>1, <2>2
<1>5. \A k \in Calls : call[k].pc \in {"placed", "raised"} => IsPassed(call[k])
  BY <1>0, CallFacts
<1>6. ConfirmedToday' = {} /\ CountedToday' = {} /\ SolitaryToday' = {}
  <2>1. ConfirmedToday' = {k \in Calls : call[k].pc = "placed" /\ call[k].today = day'}
    BY <1>0 DEF ConfirmedToday
  <2>2. CountedToday' = {k \in Calls : /\ call[k].pc \in {"placed", "raised"}
                                      /\ call[k].count > 0 /\ call[k].today = day'}
    BY <1>0 DEF CountedToday
  <2>3. ConfirmedToday' = {} /\ CountedToday' = {}
    BY <1>4, <1>5, <2>1, <2>2
  <2> QED BY <2>3 DEF SolitaryToday
<1>7. DailyCount' = 0
  BY <1>0 DEF IInv, FilesType, DailyCount
<1>8. Cardinality(SolitaryToday') = 0 /\ Cardinality(CountedToday') = 0
  BY <1>6, FS_EmptySet
<1>9. CounterAccounts' /\ DailyCapHolds'
  BY <1>6, <1>7, <1>8 DEF CounterAccounts, DailyCapHolds
<1>10. ASSUME NEW k \in Calls, IsPassed(call[k])
       PROVE  /\ call[k].today <= day'
              /\ call[k].pc \in Capped => 0 + 1 <= call[k].mandate.caps.trades
  <2>1. /\ Cardinality(SolitaryToday) \in Nat /\ call[k].mandate.caps.trades \in Int
    BY <1>10, TodayTypes, CallSets DEF IsPassed, IsMandate
  <2>2. call[k].pc \in Capped => Cardinality(SolitaryToday) + 1 <= call[k].mandate.caps.trades
    BY <1>10 DEF IInv, CountInv, Fits
  <2>3. call[k].today <= day /\ call[k].today \in Nat
    BY <1>4, <1>10
  <2> QED BY <1>0, <2>1, <2>2, <2>3
<1>11. CountInv'
  <2>1. \A k \in Calls : IsPassed(call[k]) =>
          /\ call[k].today <= day' /\ call[k].today # day'
          /\ call[k].pc \in Capped => Cardinality(SolitaryToday') + 1 <= call[k].mandate.caps.trades
    BY <1>4, <1>8, <1>10
  <2>2. call' = call
    BY <1>0
  <2> QED BY <1>6, <1>9, <2>1, <2>2 DEF CountInv, Fits
<1> QED BY <1>1, <1>2, <1>3, <1>11 DEF IInv

(* The death of the process: an admitted call is lost, on its way, or dead with its order. *)
LEMMA DieOutcome ==
    ASSUME IInv, Die, NEW k \in Calls
    PROVE  \/ call'[k] = call[k]
           \/ call'[k] = Refused /\ k \in Active /\ ~call[k].sent
           \/ /\ k \in Active /\ IsPassed(call[k]) /\ IsPassed(call'[k])
              /\ call'[k].mandate = call[k].mandate /\ call'[k].trips = call[k].trips
              /\ call'[k].today = call[k].today /\ call'[k].sent = call[k].sent
              /\ call'[k].pc \in {"flying", "dead"} /\ (call'[k].pc = "flying" => ~call[k].sent)
<1> DEFINE d == call[k]
           c(pc) == Stage(d, pc, d.notional, d.positions, d.account, d.count, d.today, d.sent)
<1>0. CallsType
  BY DEF IInv
<1>1. PICK F \in SUBSET {j \in Calls : call[j].pc = "place"} :
       call' = [j \in Calls |-> IF j \notin Active THEN call[j]
                              ELSE IF j \in F THEN [call[j] EXCEPT !.pc = "flying"]
                              ELSE IF call[j].sent THEN [call[j] EXCEPT !.pc = "dead"] ELSE Refused]
  BY DEF Die
<1>2. call'[k] = IF k \notin Active THEN d
                 ELSE IF k \in F THEN [d EXCEPT !.pc = "flying"]
                 ELSE IF d.sent THEN [d EXCEPT !.pc = "dead"] ELSE Refused
  BY <1>1
<1>3. ASSUME k \in Active, NEW pc \in {"flying", "dead"}, call'[k] = [d EXCEPT !.pc = pc],
             pc = "flying" => d.pc = "place", pc = "dead" => d.sent
      PROVE  /\ IsPassed(d) /\ IsPassed(call'[k])
             /\ call'[k].mandate = d.mandate /\ call'[k].trips = d.trips
             /\ call'[k].today = d.today /\ call'[k].sent = d.sent
             /\ call'[k].pc = pc /\ (pc = "flying" => ~d.sent)
  <2>1. /\ IsPassed(d) /\ (d.pc = "place" => ~d.sent) /\ d.pc \notin Ended
        /\ (d.sent => d.pc \notin Early)
    BY <1>0, <1>3, CallFacts DEF Active, Accepted, IsPassed, Early, Ended
  <2>2. call'[k] = c(pc)
    BY <1>3, <2>1 DEF IsPassed, Stage
  <2>3. /\ c(pc).pc = pc /\ c(pc).intent = d.intent /\ c(pc).mandate = d.mandate
        /\ c(pc).trips = d.trips /\ c(pc).notional = d.notional /\ c(pc).positions = d.positions
        /\ c(pc).account = d.account /\ c(pc).count = d.count /\ c(pc).today = d.today
        /\ c(pc).sent = d.sent
        /\ c(pc) = [pc |-> c(pc).pc, intent |-> c(pc).intent, mandate |-> c(pc).mandate,
                trips |-> c(pc).trips, notional |-> c(pc).notional, positions |-> c(pc).positions,
                account |-> c(pc).account, count |-> c(pc).count, today |-> c(pc).today,
                sent |-> c(pc).sent]
    BY DEF Stage
  <2> HIDE DEF c
  <2>4. Decided(d)
    BY <1>3, <2>1 DEF IsPassed, Early
  <2>5. Decided(c(pc))
    BY <2>3, <2>4 DEF Decided, Affordable
  <2>6. pc = "dead" \/ ~d.sent
    BY <1>3, <2>1
  <2>7. IsPassed(c(pc))
    BY <1>3, <2>1, <2>3, <2>5, <2>6 DEF IsPassed, Ended, Accepted
  <2> QED BY <1>3, <2>1, <2>2, <2>3, <2>6, <2>7
<1>4. CASE k \notin Active
  BY <1>2, <1>4
<1>5. CASE k \in Active /\ k \in F
  <2>1. call'[k] = [d EXCEPT !.pc = "flying"] /\ d.pc = "place"
    BY <1>1, <1>2, <1>5
  <2> QED BY <1>3, <1>5, <2>1
<1>6. CASE k \in Active /\ k \notin F /\ d.sent
  <2>1. call'[k] = [d EXCEPT !.pc = "dead"]
    BY <1>2, <1>6
  <2> QED BY <1>3, <1>6, <2>1
<1>7. CASE k \in Active /\ k \notin F /\ ~d.sent
  BY <1>2, <1>7
<1> QED BY <1>4, <1>5, <1>6, <1>7

LEMMA DieKeeps ==
    ASSUME IInv, Die
    PROVE  IInv' /\ Advances
<1>0. /\ crashes' = crashes + 1 /\ CallsType
      /\ commit' = [r \in Commits |-> IF commit[r].pc \in {"mandate", "consent", "invalidate"}
                                  THEN [commit[r] EXCEPT !.pc = "failed"] ELSE commit[r]]
      /\ UNCHANGED <<day, proposal, mandate, consent, halted, counter, resting, held, ledger,
                     trips, before>>
  BY DEF Die, IInv
<1>1. call' = [j \in Calls |-> call'[j]]
  BY DEF Die
<1>2. \A r \in Commits : RequestAdvances(r)
  BY <1>0 DEF RequestAdvances
<1>3. CommitType' /\ SpentInv' /\ KeepsDocuments
  <2>1. commit' = [r \in Commits |-> commit'[r]] /\ consent \subseteq consent'
    BY <1>0
  <2>2. \A p \in Proposals : ProposalStays(p)
    BY <1>0 DEF ProposalStays
  <2> QED BY <1>2, <2>1, <2>2, RequestsFrame
<1>4. FilesType'
  BY <1>0 DEF IInv, FilesType
<1>5. \A j \in Calls : Onward(call[j], call'[j])
  BY DieOutcome DEF Onward
<1>6. \A j \in Calls : call[j].pc \in Ended => call'[j] = call[j]
  BY DieOutcome DEF Active
<1>7. /\ WindowInv' /\ TraceInv' /\ BeforeInv' /\ Advances
      /\ \A j \in Calls : IsCall(call'[j])
  BY <1>0, <1>3, <1>5, <1>6, CallsFrame
<1>8. \A j \in Calls : call[j].sent => call'[j].sent
  BY DieOutcome
<1>9. CallsType'
  BY <1>0, <1>1, <1>7, <1>8 DEF CallsType
<1>10. SentIsRecorded'
  <2>1. \A j \in Calls : call'[j].sent /\ call'[j].pc \in {"done", "placed"} => call'[j] = call[j]
    BY DieOutcome DEF Refused
  <2> QED BY <1>0, <2>1 DEF IInv, SentIsRecorded
<1>11. CountInv'
  <2>1. ASSUME NEW j \in Calls
        PROVE  \/ call'[j] = call[j]
               \/ /\ call[j].pc \notin Ended /\ call'[j].pc \notin {"new", "placed"}
                  /\ IsPassed(call'[j]) => MayCount(call'[j])
    <3>1. CASE call'[j] = Refused /\ j \in Active
      BY <3>1, NotPassed DEF Refused, Active
    <3>2. CASE /\ j \in Active /\ IsPassed(call[j]) /\ call'[j].today = call[j].today
               /\ call'[j].pc \in {"flying", "dead"}
      BY <3>2 DEF Active, MayCount, Capped, IInv, CountInv
    <3> QED BY <3>1, <3>2, DieOutcome
  <2> QED BY <1>0, <2>1, CountFrame
<1> QED BY <1>3, <1>4, <1>7, <1>9, <1>10, <1>11 DEF IInv

LEMMA InitInv == GateInit => IInv
<1> SUFFICES ASSUME GateInit PROVE IInv
  OBVIOUS
<1>0. /\ day = 0 /\ trips = 0 /\ crashes = 0 /\ halted = {} /\ consent = {} /\ mandate = NoMandate
      /\ resting = {} /\ held = 0 /\ counter = [date |-> 0, count |-> 0]
      /\ proposal = [q \in Proposals |-> NoProposal] /\ commit = [r \in Commits |-> NoCommit]
      /\ call = [k \in Calls |-> NewCall] /\ ledger = [k \in Calls |-> "none"]
      /\ before = [k \in Calls |-> {}]
  BY DEF GateInit
<1>1. \A k \in Calls : call[k] = NewCall /\ call[k].pc = "new" /\ call[k].sent = FALSE
  BY <1>0 DEF NewCall
<1>1a. \A k \in Calls : ~IsPassed(call[k])
  BY <1>1, NotPassed
<1>2. Cardinality({}) = 0
  BY FS_EmptySet
<1>3. FilesType
  <2>1. day \in Nat /\ trips \in Nat /\ crashes \in Nat /\ halted \subseteq Sentinels
    BY <1>0
  <2>2. proposal = [q \in Proposals |-> proposal[q]]
    BY <1>0
  <2>3. \A q \in Proposals : proposal[q] = NoProposal \/ IsProposal(proposal[q])
    BY <1>0
  <2>4. mandate = NoMandate \/ IsMandate(mandate)
    BY <1>0
  <2>5. counter = [date |-> counter.date, count |-> counter.count]
    BY <1>0
  <2>6. counter.date \in Nat /\ counter.count \in Nat /\ counter.date <= day
    BY <1>0
  <2> QED BY <2>1, <2>2, <2>3, <2>4, <2>5, <2>6, Zenon DEF FilesType
<1>4. CommitType
  BY <1>0 DEF CommitType
<1>5. CallsType
  <2>1. call = [k \in Calls |-> call[k]] /\ ledger = [k \in Calls |-> ledger[k]]
    BY <1>0
  <2> QED BY <1>0, <1>1, <2>1 DEF CallsType, IsCall
<1>6. SentIsRecorded
  BY <1>1 DEF SentIsRecorded
<1>7. WindowInv /\ TraceInv
  BY <1>0, <1>1a DEF WindowInv, TraceInv
<1>8. SpentInv
  BY <1>0 DEF SpentInv
<1>9. BeforeInv
  BY <1>0 DEF BeforeInv
<1>10. /\ ConfirmedToday = {} /\ CountedToday = {} /\ SolitaryToday = {} /\ DailyCount = 0
  BY <1>0, <1>1 DEF ConfirmedToday, CountedToday, SolitaryToday, DailyCount
<1>11. CountInv
  BY <1>1a, <1>2, <1>10 DEF CountInv, CounterAccounts, DailyCapHolds
<1> QED BY <1>3, <1>4, <1>5, <1>6, <1>7, <1>8, <1>9, <1>11 DEF IInv

(* The surface leaves the calls and the broker alone, and the authority but for a mandate. *)
LEMMA SurfaceFrame ==
    ASSUME Surface
    PROVE  /\ UNCHANGED <<call, resting, day>>
           /\ \/ UNCHANGED <<mandate, halted>>
              \/ UNCHANGED halted /\ \E r \in Commits : WriteMandate(r)
              \/ UNCHANGED mandate /\ \E s \in Sentinels : TripHalt(s) \/ ClearHalt(s)
<1>1. ASSUME NEW p \in Proposals, NEW c, NEW flatten, Propose(p, c, flatten)
      PROVE  UNCHANGED <<call, resting, day, mandate, halted>>
  BY <1>1 DEF Propose
<1>2. ASSUME NEW r \in Commits, NEW p, NEW f, NEW a, NEW ref, NEW life, NEW flatten,
             CommitMandate(r, p, f, a, ref, life, flatten)
      PROVE  UNCHANGED <<call, resting, day, mandate, halted>>
  BY <1>2 DEF CommitMandate
<1>3. ASSUME NEW r \in Commits, WriteMandate(r)
      PROVE  UNCHANGED <<call, resting, day, halted>>
  BY <1>3 DEF WriteMandate
<1>4. ASSUME NEW r \in Commits, WriteConsent(r) \/ InvalidateProposal(r) \/ CommitRaises(r)
      PROVE  UNCHANGED <<call, resting, day, mandate, halted>>
  BY <1>4 DEF WriteConsent, InvalidateProposal, CommitRaises
<1>5. ASSUME NEW s \in Sentinels, TripHalt(s) \/ ClearHalt(s)
      PROVE  UNCHANGED <<call, resting, day, mandate>>
  BY <1>5 DEF TripHalt, ClearHalt
<1> QED BY <1>1, <1>2, <1>3, <1>4, <1>5 DEF Surface

(* Every step keeps the invariant, and sends only what had been admitted. *)
LEMMA NextInv ==
    ASSUME IInv, [GateNext]_gateVars
    PROVE  IInv' /\ \A j \in Calls : call'[j].sent /\ ~call[j].sent => IsPassed(call[j])
<1> DEFINE Lawful == \A j \in Calls : call'[j].sent /\ ~call[j].sent => IsPassed(call[j])
<1>0. Advances => Lawful
  BY DEF Advances
<1>1. CASE Surface
  <2>1. IInv'
    BY <1>1, ProposeKeeps, CommitMandateKeeps, WriteMandateKeeps, RequestKeeps, HaltKeeps
       DEF Surface
  <2> QED BY <1>1, <2>1, SurfaceFrame
<1>2. CASE NextDay
  BY <1>2, NextDayKeeps DEF NextDay
<1>3. CASE Die
  BY <1>0, <1>3, DieKeeps
<1>4. ASSUME NEW k \in Calls, NEW i \in Intents, EnterGate(k, i)
      PROVE  IInv' /\ Lawful
  BY <1>4, EnterGateKeeps
<1>5. ASSUME NEW k \in Calls, Order(k) \/ LandLate(k)
      PROVE  IInv' /\ Lawful
  BY <1>0, <1>5, PriceOrderKeeps, ReadPositionsKeeps, DecideKeeps, PlaceOrderKeeps,
     CountReadKeeps, CountWriteKeeps, CountRaisesKeeps, LandLateKeeps DEF Order
<1>6. ASSUME NEW k \in Calls, Fill(k)
      PROVE  IInv' /\ Lawful
  BY <1>6, FillKeeps DEF Fill
<1>7. CASE UNCHANGED gateVars
  <2>1. UNCHANGED <<day, proposal, mandate, consent, commit, halted, counter, call, resting,
                    held, ledger, trips, crashes, before>>
    BY <1>7 DEF gateVars
  <2>2. OrderInv'
    BY <2>1, OrderFrame DEF IInv, OrderInv
  <2>3. FilesType' /\ CommitType' /\ WindowInv'
    BY <2>1 DEF IInv, FilesType, CommitType, WindowInv, halt_flag_set
  <2>4. TraceInv' /\ SpentInv'
    BY <2>1 DEF IInv, TraceInv, Traced, SpentInv, CommitAt
  <2> QED BY <2>1, <2>2, <2>3, <2>4 DEF IInv, OrderInv
<1> QED BY <1>1, <1>2, <1>3, <1>4, <1>5, <1>6, <1>7 DEF GateNext

LEMMA InvImpliesJustified == IInv => OrdersAreJustified
<1> SUFFICES ASSUME IInv PROVE OrdersAreJustified
  OBVIOUS
<1>0. \A k \in Sent : k \in Calls /\ call[k].sent /\ IsPassed(call[k])
  BY CallFacts DEF IInv, Sent
<1>1. OrdersWithinTheProfile
  <2> SUFFICES ASSUME NEW k \in Sent
               PROVE  LET m == call[k].mandate IN
                 /\ call[k].notional > 0 /\ call[k].notional <= m.shown.order
                 /\ m.ceilings.order # NoLimit => call[k].notional <= m.ceilings.order
                 /\ m.caps.trades <= m.shown.trades
                 /\ m.caps.exposure <= Larger(m.shown.exposure, m.shown.order)
    BY DEF OrdersWithinTheProfile
  <2>1. IsPassed(call[k]) /\ call[k].sent /\ IsMandate(call[k].mandate)
    BY <1>0 DEF IsPassed
  <2>2. Decided(call[k])
    BY <2>1 DEF IsPassed, Accepted, Early
  <2>3. /\ call[k].notional \in Nat /\ 0 < call[k].notional
        /\ call[k].notional <= call[k].mandate.caps.order
    BY <2>1, <2>2 DEF IsPassed, Decided
  <2> QED BY <2>1, <2>3 DEF IsMandate
<1>2. CounterAccounts /\ DailyCapHolds /\ SentIsRecorded
  BY DEF IInv, CountInv
<1>3. ASSUME NEW k \in Sent
      PROVE  LET r == call[k].mandate.id IN
               /\ commit[r] # NoCommit /\ commit[r].mandate = call[k].mandate
               /\ CommitAt(r, "done") =>
                    \E c \in consent : c.mandate = r /\ c.proposal = commit[r].proposal
  <2> DEFINE r == call[k].mandate.id
  <2>1. r \in Commits /\ commit[r] # NoCommit /\ commit[r].mandate = call[k].mandate
    BY <1>0 DEF IInv, TraceInv, Traced, IsPassed, IsMandate
  <2>2. CommitAt(r, "done") => [mandate |-> r, proposal |-> commit[r].proposal] \in consent
    BY <2>1 DEF IInv, SpentInv, CommitAt
  <2> HIDE DEF r
  <2>3. CommitAt(r, "done") => \E c \in consent : c.mandate = r /\ c.proposal = commit[r].proposal
    BY <2>2
  <2> QED BY <2>1, <2>3 DEF r
<1>4. ProposalsAreSpent
  <2> SUFFICES ASSUME NEW r \in Commits, NEW s \in commit[r].spent
               PROVE  commit[s].proposal # commit[r].proposal
    BY DEF ProposalsAreSpent
  <2>1. commit[r] # NoCommit
    BY DEF NoCommit
  <2> QED BY <2>1 DEF IInv, SpentInv
<1> QED BY <1>1, <1>2, <1>3, <1>4
        DEF OrdersAreJustified, LimitsHold, OrdersAreAccountable, OrdersTraceToCommits

(* Whatever calls and commits run side by side, over midnights, trips of the kill switch   *)
(* and deaths of the process: an order the broker took is of a size within the profile the  *)
(* user was shown; the counter never runs ahead of today's calls nor behind those that met  *)
(* no other, which with one more are within the daily cap; the order's mandate is one       *)
(* request's document, with its consent once that request returned; a returned call is on   *)
(* the ledger when appends succeed; and no request that begins after another returned       *)
(* commits the same proposal.  What overlap and failure break of the documentation's        *)
(* promises is left to the runs (order_guard.py, enforcement.py, daily_count.py, commit.py). *)
THEOREM OrdersJustified == Spec => []OrdersAreJustified
<1>1. GateInit => IInv
  BY InitInv
<1>2. IInv /\ [GateNext]_gateVars => IInv'
  BY NextInv
<1>3. IInv => OrdersAreJustified
  BY InvImpliesJustified
<1> QED BY <1>1, <1>2, <1>3, PTL DEF Spec

(* A purchase that fills at no more than the size it was checked at exceeds its mandate's   *)
(* exposure and leverage caps by no more than what other orders added since the call read   *)
(* the account, for any number of calls (enforcement.py, check_mandate).                    *)
THEOREM ExposureHolds == Spec => ExposureWithinCaps
<1>1. GateInit => IInv
  BY InitInv
<1>2. IInv /\ [GateNext]_gateVars => IInv'
  BY NextInv
<1>3. IInv /\ IInv' =>
        [\A k \in resting \ resting' : LET c == call[k] IN
           (c.intent.side = "buy" /\ held' - held <= c.notional) =>
             /\ held' <= c.mandate.caps.exposure + (held - c.account)
             /\ held' <= c.mandate.caps.leverage * c.mandate.caps.funding + (held - c.account)]_gateVars
  <2> SUFFICES ASSUME IInv, IInv', NEW k \in resting, call[k].intent.side = "buy",
                      held' - held <= call[k].notional
               PROVE  LET c == call[k] IN
                 /\ held' <= c.mandate.caps.exposure + (held - c.account)
                 /\ held' <= c.mandate.caps.leverage * c.mandate.caps.funding + (held - c.account)
    OBVIOUS
  <2> DEFINE c == call[k]
             room == c.mandate.caps.leverage * c.mandate.caps.funding
  <2>1. /\ IsPassed(c) /\ c.sent /\ held \in Int /\ held' \in Int
    BY CallFacts DEF IInv, CallsType
  <2>2. Decided(c)
    BY <2>1 DEF IsPassed, Accepted, Early
  <2>3. /\ c.account \in Int /\ c.notional \in Int /\ c.mandate.caps.exposure \in Int
        /\ c.mandate.caps.leverage \in Int /\ c.mandate.caps.funding \in Int
    BY <2>1 DEF IsPassed, IsMandate
  <2>4. room \in Int
    BY <2>3
  <2>5. c.account + c.notional <= c.mandate.caps.exposure /\ c.account + c.notional <= room
    BY <2>2 DEF Decided, Affordable
  <2> HIDE DEF room
  <2>6. held' <= c.mandate.caps.exposure + (held - c.account) /\ held' <= room + (held - c.account)
    BY <2>1, <2>3, <2>4, <2>5
  <2> QED BY <2>6 DEF room
<1> QED BY <1>1, <1>2, <1>3, PTL DEF Spec, ExposureWithinCaps

(* An order that reaches the broker while a sentinel stands was admitted before that        *)
(* sentinel was written, though its process may have died since (order_guard.py, execute;   *)
(* halt.py).                                                                                *)
THEOREM KillSwitchHolds == Spec => KillSwitchWindow
<1>1. GateInit => IInv
  BY InitInv
<1>2. IInv /\ [GateNext]_gateVars => IInv'
  BY NextInv
<1>3. IInv /\ [GateNext]_gateVars =>
        [\A k \in Calls : (~call[k].sent /\ call'[k].sent /\ halt_flag_set)
                            => call[k].trips < trips]_gateVars
  BY NextInv DEF IInv, WindowInv
<1> QED BY <1>1, <1>2, <1>3, PTL DEF Spec, KillSwitchWindow

-----------------------------------------------------------------------------
(* The contract, step by step. *)

\* What the contract sees of one call.
Shown(k) ==
  IF call[k].sent THEN IF k \in resting THEN "resting" ELSE "filled"
  ELSE IF call[k].pc = "new" THEN "new" ELSE IF call[k].pc \in Ended THEN "over" ELSE "admitted"

LEMMA ShownOrders ==
    /\ OrderShown = [k \in Calls |-> Shown(k)] /\ OrderShown' = [k \in Calls |-> Shown(k)']
    /\ \A k \in Calls : OrderShown[k] = Shown(k) /\ OrderShown'[k] = Shown(k)'
<1>1. OrderShown = [k \in Calls |-> Shown(k)]
  BY DEF OrderShown, Shown
<1>2. OrderShown' = [k \in Calls |-> Shown(k)']
  BY DEF OrderShown, Shown
<1> QED BY <1>1, <1>2

(* A step that changes what is seen of call k alone is a step of the contract. *)
LEMMA CallStep ==
    ASSUME NEW k \in Calls, UNCHANGED <<AuthorityShown, halted>>,
           \A j \in Calls \ {k} : Shown(j)' = Shown(j),
           \/ Shown(k)' = Shown(k)
           \/ Shown(k) \in {"new", "admitted"} /\ Shown(k)' = "over"
           \/ Shown(k) = "admitted" /\ Shown(k)' = "resting"
           \/ Shown(k) = "resting" /\ Shown(k)' = "filled"
           \/ /\ Shown(k) = "new" /\ Shown(k)' = "admitted"
              /\ AuthorityShown = "live" /\ halted = {}
    PROVE  [Contract!ContractNext]_(Contract!contractVars)
<1>1. /\ OrderShown = [j \in Calls |-> OrderShown[j]]
      /\ OrderShown' = [j \in Calls |-> IF j = k THEN Shown(k)' ELSE OrderShown[j]]
      /\ OrderShown[k] = Shown(k)
  BY ShownOrders
<1>2. CASE Shown(k)' = Shown(k)
  <2>1. OrderShown' = OrderShown
    BY <1>1, <1>2
  <2> QED BY <2>1 DEF Contract!contractVars
<1>3. CASE Shown(k) \in {"new", "admitted"} /\ Shown(k)' = "over"
  <2>1. OrderShown' = [j \in Calls |-> IF j \in {k} THEN "over" ELSE OrderShown[j]]
    BY <1>1, <1>3
  <2>2. Contract!Drop({k})
    BY <1>1, <1>3, <2>1 DEF Contract!Drop
  <2> QED BY <2>2 DEF Contract!ContractNext
<1>4. CASE Shown(k) = "admitted" /\ Shown(k)' = "resting"
  <2>1. OrderShown' = [OrderShown EXCEPT ![k] = "resting"]
    BY <1>1, <1>4
  <2>2. Contract!Land(k)
    BY <1>1, <1>4, <2>1 DEF Contract!Land
  <2> QED BY <2>2 DEF Contract!ContractNext
<1>5. CASE Shown(k) = "resting" /\ Shown(k)' = "filled"
  <2>1. OrderShown' = [OrderShown EXCEPT ![k] = "filled"]
    BY <1>1, <1>5
  <2>2. Contract!FillOrder(k)
    BY <1>1, <1>5, <2>1 DEF Contract!FillOrder
  <2> QED BY <2>2 DEF Contract!ContractNext
<1>6. CASE /\ Shown(k) = "new" /\ Shown(k)' = "admitted"
           /\ AuthorityShown = "live" /\ halted = {}
  <2>1. OrderShown' = [OrderShown EXCEPT ![k] = "admitted"]
    BY <1>1, <1>6
  <2>2. Contract!Admit(k)
    BY <1>1, <1>6, <2>1 DEF Contract!Admit
  <2> QED BY <2>2 DEF Contract!ContractNext
<1> QED BY <1>2, <1>3, <1>4, <1>5, <1>6

(* A step by which admitted calls go on or end, and the broker is not reached. *)
LEMMA QuietStep ==
    ASSUME UNCHANGED <<AuthorityShown, halted, resting>>,
           \A j \in Calls :
             \/ call'[j] = call[j]
             \/ /\ call[j].pc \notin Ended \cup {"new"} /\ call'[j].pc # "new"
                /\ call'[j].sent = call[j].sent
    PROVE  [Contract!ContractNext]_(Contract!contractVars)
<1> DEFINE K == {k \in Calls : Shown(k)' # Shown(k)}
<1>1. ASSUME NEW k \in Calls
      PROVE  Shown(k)' = Shown(k) \/ (Shown(k) = "admitted" /\ Shown(k)' = "over")
  BY DEF Shown
<1>2. OrderShown' = [k \in Calls |-> IF k \in K THEN "over" ELSE OrderShown[k]]
  BY <1>1, ShownOrders
<1>3. CASE K = {}
  <2>1. OrderShown' = OrderShown
    BY <1>3, ShownOrders
  <2> QED BY <2>1 DEF Contract!contractVars
<1>4. CASE K # {}
  <2>1. K \in SUBSET Calls /\ \A k \in K : OrderShown[k] \in {"new", "admitted"}
    BY <1>1, ShownOrders
  <2> HIDE DEF K
  <2>2. Contract!Drop(K)
    BY <1>2, <1>4, <2>1 DEF Contract!Drop
  <2> QED BY <2>1, <2>2 DEF Contract!ContractNext
<1> QED BY <1>3, <1>4

(* The surface and midnight change the authority or the sentinels. *)
LEMMA SurfaceStep ==
    ASSUME IInv, Surface \/ NextDay
    PROVE  [Contract!ContractNext]_(Contract!contractVars)
<1>1. OrderShown' = OrderShown
  <2>1. UNCHANGED <<call, resting>>
    BY SurfaceFrame DEF NextDay
  <2> QED BY <2>1 DEF OrderShown
<1>2. day \in Nat /\ (mandate # NoMandate => mandate.expires \in Int)
  BY DEF IInv, FilesType, IsMandate
<1>3. CASE UNCHANGED <<day, mandate, halted>>
  <2>1. UNCHANGED <<AuthorityShown, halted>>
    BY <1>3 DEF AuthorityShown
  <2> QED BY <1>1, <2>1 DEF Contract!contractVars
<1>4. ASSUME NEW r \in Commits, WriteMandate(r)
      PROVE  [Contract!ContractNext]_(Contract!contractVars)
  <2>1. PICK s \in Commits : CommitAt(s, "mandate") /\ mandate' = commit[s].mandate
    BY <1>4 DEF WriteMandate
  <2>2. IsMandate(mandate')
    BY <2>1 DEF IInv, CommitType, CommitAt, NoCommit, IsCommit
  <2>3. mandate' # NoMandate
    BY <2>2 DEF IsMandate, NoMandate
  <2>4. AuthorityShown' \in {"live", "expired"} /\ halted' = halted
    BY <1>4, <2>3 DEF AuthorityShown, WriteMandate
  <2>5. Contract!Authorise
    BY <1>1, <2>4 DEF Contract!Authorise
  <2> QED BY <2>5 DEF Contract!ContractNext
<1>5. ASSUME NEW s \in Sentinels, TripHalt(s) \/ ClearHalt(s)
      PROVE  [Contract!ContractNext]_(Contract!contractVars)
  <2>1. AuthorityShown' = AuthorityShown
    BY <1>5 DEF TripHalt, ClearHalt, AuthorityShown
  <2>2. Contract!Trip(s) \/ Contract!Clear(s)
    BY <1>1, <1>5, <2>1 DEF TripHalt, ClearHalt, Contract!Trip, Contract!Clear
  <2> QED BY <2>2 DEF Contract!ContractNext
<1>6. CASE NextDay
  <2>1. day' = day + 1 /\ UNCHANGED <<mandate, halted>>
    BY <1>6 DEF NextDay
  <2>2. \/ AuthorityShown' = AuthorityShown
        \/ AuthorityShown = "live" /\ AuthorityShown' = "expired"
    <3>1. CASE mandate = NoMandate
      BY <2>1, <3>1 DEF AuthorityShown
    <3>2. CASE mandate # NoMandate
      BY <1>2, <2>1, <3>2 DEF AuthorityShown
    <3> QED BY <3>1, <3>2
  <2>3. CASE AuthorityShown' = AuthorityShown
    BY <1>1, <2>1, <2>3 DEF Contract!contractVars
  <2>4. CASE AuthorityShown = "live" /\ AuthorityShown' = "expired"
    <3>1. Contract!Expire
      BY <1>1, <2>1, <2>4 DEF Contract!Expire
    <3> QED BY <3>1 DEF Contract!ContractNext
  <2> QED BY <2>2, <2>3, <2>4
<1> QED BY <1>3, <1>4, <1>5, <1>6, SurfaceFrame

(* The steps of a call that do not reach the broker. *)
LEMMA QuietOutcome ==
    ASSUME IInv, NEW k \in Calls,
           \/ PriceOrder(k) \/ ReadPositions(k) \/ Decide(k)
           \/ CountRead(k) \/ CountWrite(k) \/ CountRaises(k),
           NEW m \in Calls
    PROVE  \/ call'[m] = call[m]
           \/ /\ call[m].pc \notin Ended \cup {"new"} /\ call'[m].pc # "new"
              /\ call'[m].sent = call[m].sent
<1> DEFINE Good(d) == \/ d = call[m]
                      \/ /\ call[m].pc \notin Ended \cup {"new"} /\ d.pc # "new"
                         /\ d.sent = call[m].sent
<1>0. call = [j \in Calls |-> call[j]] /\ CallsType
  BY DEF IInv, CallsType
<1>1. call[m].pc \in {"quote", "positions", "check", "count", "counted"} =>
        /\ call[m].pc \notin Ended \cup {"new"}
        /\ call[m] = [pc |-> call[m].pc, intent |-> call[m].intent, mandate |-> call[m].mandate,
                      trips |-> call[m].trips, notional |-> call[m].notional,
                      positions |-> call[m].positions, account |-> call[m].account,
                      count |-> call[m].count, today |-> call[m].today, sent |-> call[m].sent]
  BY <1>0, CallFacts DEF Ended, IsPassed
<1>2. /\ Refused.pc # "new" /\ Refused.sent = FALSE
      /\ call[m].pc \in {"quote", "check"} => call[m].sent = FALSE
  BY <1>0, CallFacts DEF Refused, IsPassed, Accepted
<1>3. CASE PriceOrder(k)
  <2>1. PICK price \in Quotes(call[k].intent) :
          IF price = Absent THEN Deny(k)
          ELSE call' = [call EXCEPT ![k].pc = "positions", ![k].notional = SizeAt(call[k], price)]
    BY <1>3 DEF PriceOrder
  <2>2. CASE price = Absent
    <3>1. call' = [call EXCEPT ![k] = Refused] /\ call[k].pc = "quote"
      BY <1>3, <2>1, <2>2 DEF PriceOrder, Deny, Refuse
    <3> QED BY <1>0, <1>1, <1>2, <3>1
  <2>3. CASE price # Absent
    <3>1. call' = [call EXCEPT ![k].pc = "positions", ![k].notional = SizeAt(call[k], price)]
          /\ call[k].pc = "quote"
      BY <1>3, <2>1, <2>3 DEF PriceOrder
    <3> QED BY <1>0, <1>1, <3>1
  <2> QED BY <2>2, <2>3
<1>4. CASE ReadPositions(k)
  <2>1. PICK seen \in PositionsSeen :
          call' = [call EXCEPT ![k].pc = "check", ![k].positions = seen, ![k].account = held]
    BY <1>4 DEF ReadPositions
  <2>2. call[k].pc = "positions"
    BY <1>4 DEF ReadPositions
  <2> QED BY <1>0, <1>1, <2>1, <2>2
<1>5. CASE Decide(k)
  <2>1. call[k].pc = "check"
    BY <1>5 DEF Decide
  <2>2. CASE StructuralBreach(k) \/ QuantitativeBreach(k)
    <3>1. call' = [call EXCEPT ![k] = Refused]
      BY <1>5, <2>2 DEF Decide, DenyBreach, Refuse
    <3> QED BY <1>0, <1>1, <1>2, <2>1, <3>1
  <2>3. CASE ~(StructuralBreach(k) \/ QuantitativeBreach(k))
    <3>1. call' = [call EXCEPT ![k].pc = "place"]
      BY <1>5, <2>3 DEF Decide
    <3> QED BY <1>0, <1>1, <2>1, <3>1
  <2> QED BY <2>2, <2>3
<1>6. CASE CountRead(k)
  <2>1. call' = [call EXCEPT ![k].pc = "counted", ![k].count = DailyCount + 1, ![k].today = day]
        /\ call[k].pc = "count"
    BY <1>6 DEF CountRead
  <2> QED BY <1>0, <1>1, <2>1
<1>7. CASE CountWrite(k)
  <2>1. PICK j \in {i \in Calls : call[i].pc = "counted"} :
       call' = [i \in Calls |-> IF i = k THEN [call[k] EXCEPT !.pc = "placed"]
                              ELSE IF i = j THEN [call[j] EXCEPT !.pc = "raised"]
                              ELSE call[i]]
    BY <1>7 DEF CountWrite
  <2>2. call[k].pc = "counted"
    BY <1>7 DEF CountWrite
  <2>3. call'[m] = IF m = k THEN [call[m] EXCEPT !.pc = "placed"]
                   ELSE IF m = j THEN [call[m] EXCEPT !.pc = "raised"] ELSE call[m]
    BY <2>1
  <2> QED BY <1>1, <2>1, <2>2, <2>3
<1>8. CASE CountRaises(k)
  <2>1. call' = [call EXCEPT ![k].pc = "raised"] /\ call[k].pc \in {"count", "counted"}
    BY <1>8 DEF CountRaises
  <2> QED BY <1>0, <1>1, <2>1
<1> QED BY <1>3, <1>4, <1>5, <1>6, <1>7, <1>8

(* _allow: the broker takes the order, or the call goes on or ends without it. *)
LEMMA PlaceStep ==
    ASSUME IInv, NEW k \in Calls, PlaceOrder(k)
    PROVE  [Contract!ContractNext]_(Contract!contractVars)
<1>0. CallsType /\ call = [j \in Calls |-> call[j]]
  BY DEF IInv, CallsType
<1>1. /\ call[k].pc = "place" /\ IsPassed(call[k]) /\ ~call[k].sent
      /\ UNCHANGED <<day, mandate, halted>>
  BY <1>0, CallFacts DEF PlaceOrder, Accepted
<1>2. call[k] = [pc |-> call[k].pc, intent |-> call[k].intent, mandate |-> call[k].mandate,
                 trips |-> call[k].trips, notional |-> call[k].notional,
                 positions |-> call[k].positions, account |-> call[k].account,
                 count |-> call[k].count, today |-> call[k].today, sent |-> call[k].sent]
  BY <1>1 DEF IsPassed
<1>3. PICK taken \in BOOLEAN, answer \in {"ok", "error", "other"} :
     /\ resting' = IF taken THEN resting \cup {k} ELSE resting
     /\ IF CountsAsPlaced(call[k].intent.path, answer)
        THEN call' = [call EXCEPT ![k].sent = taken, ![k].pc = "count"] /\ UNCHANGED ledger
        ELSE ForwardFails(k, taken)
  BY DEF PlaceOrder
<1>4. \A j \in Calls \ {k} : call'[j] = call[j] /\ (j \in resting' <=> j \in resting)
  BY <1>0, <1>3 DEF ForwardFails
<1>5. UNCHANGED <<AuthorityShown, halted>> /\ \A j \in Calls \ {k} : Shown(j)' = Shown(j)
  BY <1>1, <1>4 DEF AuthorityShown, Shown
<1>6. Shown(k) = "admitted"
  BY <1>1 DEF Shown, Ended
<1>7. CASE taken
  <2>1. call'[k].sent = TRUE /\ k \in resting'
    <3>1. CASE CountsAsPlaced(call[k].intent.path, answer)
      <4>1. call' = [call EXCEPT ![k].sent = taken, ![k].pc = "count"] /\ k \in resting'
        BY <1>3, <1>7, <3>1
      <4> QED BY <1>0, <1>2, <1>7, <4>1
    <3>2. CASE ~CountsAsPlaced(call[k].intent.path, answer)
      <4>1. /\ call' = [call EXCEPT ![k] = [call[k] EXCEPT !.sent = TRUE, !.pc = "done"]]
            /\ k \in resting'
        BY <1>3, <1>7, <3>2 DEF ForwardFails
      <4>2. call'[k] = [call[k] EXCEPT !.sent = TRUE, !.pc = "done"]
        BY <1>0, <4>1
      <4> QED BY <1>2, <4>1, <4>2
    <3> QED BY <3>1, <3>2
  <2>2. Shown(k)' = "resting"
    BY <2>1 DEF Shown
  <2> QED BY <1>5, <1>6, <2>2, CallStep
<1>8. CASE ~taken
  <2>1. call'[k].sent = FALSE /\ call'[k].pc \in {"count", "done"}
    <3>1. CASE CountsAsPlaced(call[k].intent.path, answer)
      <4>1. call' = [call EXCEPT ![k].sent = FALSE, ![k].pc = "count"]
        BY <1>3, <1>8, <3>1
      <4> QED BY <1>0, <1>2, <4>1
    <3>2. CASE ~CountsAsPlaced(call[k].intent.path, answer)
      <4>1. call' = [call EXCEPT ![k] = Refused]
        BY <1>3, <1>8, <3>2 DEF ForwardFails
      <4> QED BY <1>0, <4>1 DEF Refused
    <3> QED BY <3>1, <3>2
  <2>2. Shown(k)' \in {"admitted", "over"}
    BY <2>1 DEF Shown, Ended
  <2> QED BY <1>5, <1>6, <2>2, CallStep
<1> QED BY <1>7, <1>8

LEMMA ContractStep ==
    ASSUME IInv, [GateNext]_gateVars
    PROVE  [Contract!ContractNext]_(Contract!contractVars)
<1>0. CallsType /\ call = [k \in Calls |-> call[k]]
      /\ day \in Nat /\ (mandate # NoMandate => mandate.expires \in Int)
  BY DEF IInv, CallsType, FilesType, IsMandate
<1>1. CASE Surface \/ NextDay
  BY <1>1, SurfaceStep
<1>2. CASE Die
  <2>1. UNCHANGED <<AuthorityShown, halted, resting>>
    BY <1>2 DEF Die, AuthorityShown
  <2>2. ASSUME NEW j \in Calls
        PROVE  \/ call'[j] = call[j]
               \/ /\ call[j].pc \notin Ended \cup {"new"} /\ call'[j].pc # "new"
                  /\ call'[j].sent = call[j].sent
    <3>1. CASE call'[j] = Refused /\ j \in Active /\ ~call[j].sent
      <4>1. call[j].sent \in BOOLEAN /\ ~call[j].sent
        BY <1>0, <3>1, CallFacts
      <4>2. call[j].sent = FALSE
        BY <4>1
      <4>3. call'[j].sent = FALSE /\ call'[j].pc = "done"
        BY <3>1 DEF Refused
      <4> QED BY <3>1, <4>2, <4>3 DEF Active
    <3>2. CASE /\ j \in Active /\ call'[j].sent = call[j].sent
               /\ call'[j].pc \in {"flying", "dead"}
      BY <3>2 DEF Active
    <3> QED BY <1>2, <3>1, <3>2, DieOutcome
  <2> QED BY <2>1, <2>2, QuietStep
<1>3. ASSUME NEW k \in Calls, NEW i \in Intents, EnterGate(k, i)
      PROVE  [Contract!ContractNext]_(Contract!contractVars)
  <2>1. call[k].pc = "new" /\ ~call[k].sent /\ UNCHANGED <<AuthorityShown, halted, resting>>
    BY <1>0, <1>3, CallFacts DEF EnterGate, AuthorityShown, Accepted
  <2>2. \A j \in Calls \ {k} : call'[j] = call[j]
    BY <1>0, <1>3 DEF EnterGate, Deny, Refuse
  <2>3. \A j \in Calls \ {k} : Shown(j)' = Shown(j)
    BY <2>1, <2>2 DEF Shown
  <2>4. Shown(k) = "new"
    BY <2>1 DEF Shown
  <2>5. CASE ~Admitted(i)
    <3>1. call'[k] = Refused
      BY <1>0, <1>3, <2>5 DEF EnterGate, Deny, Refuse
    <3>2. Shown(k)' = "over"
      BY <3>1 DEF Shown, Refused, Ended
    <3> QED BY <2>1, <2>3, <2>4, <3>2, CallStep
  <2>6. CASE Admitted(i)
    <3>1. AuthorityShown = "live" /\ halted = {}
      BY <1>0, <2>6 DEF Admitted, LoadMandate, Expired, halt_flag_set, AuthorityShown
    <3>2. call'[k].pc \in {"positions", "quote"} /\ call'[k].sent = FALSE
      BY <1>0, <1>3, <2>6 DEF EnterGate
    <3>3. Shown(k)' = "admitted"
      BY <3>2 DEF Shown, Ended
    <3> QED BY <2>1, <2>3, <2>4, <3>1, <3>3, CallStep
  <2> QED BY <2>5, <2>6
<1>4. ASSUME NEW k \in Calls,
             \/ PriceOrder(k) \/ ReadPositions(k) \/ Decide(k)
             \/ CountRead(k) \/ CountWrite(k) \/ CountRaises(k)
      PROVE  [Contract!ContractNext]_(Contract!contractVars)
  <2>1. UNCHANGED <<AuthorityShown, halted, resting>>
    BY <1>4 DEF PriceOrder, ReadPositions, Decide, CountRead, CountWrite, CountRaises,
                AuthorityShown
  <2> QED BY <1>4, <2>1, QuietOutcome, QuietStep
<1>5. ASSUME NEW k \in Calls, PlaceOrder(k)
      PROVE  [Contract!ContractNext]_(Contract!contractVars)
  BY <1>5, PlaceStep
<1>6. ASSUME NEW k \in Calls, Fill(k)
      PROVE  [Contract!ContractNext]_(Contract!contractVars)
  <2>1. /\ k \in resting /\ resting' = resting \ {k} /\ call[k].sent
        /\ UNCHANGED <<call, day, mandate, halted>>
    BY <1>0, <1>6 DEF Fill, CallsType
  <2>2. UNCHANGED <<AuthorityShown, halted>> /\ \A j \in Calls \ {k} : Shown(j)' = Shown(j)
    BY <2>1 DEF AuthorityShown, Shown
  <2>3. Shown(k) = "resting" /\ Shown(k)' = "filled"
    BY <2>1 DEF Shown
  <2> QED BY <2>2, <2>3, CallStep
<1>7. ASSUME NEW k \in Calls, LandLate(k)
      PROVE  [Contract!ContractNext]_(Contract!contractVars)
  <2>1. /\ call[k].pc = "flying" /\ resting' = resting \cup {k} /\ IsPassed(call[k])
        /\ UNCHANGED <<day, mandate, halted>>
    BY <1>0, <1>7, CallFacts DEF LandLate
  <2>2. ~call[k].sent
    BY <2>1 DEF IsPassed, Accepted
  <2>3. call' = [call EXCEPT ![k].pc = "dead", ![k].sent = TRUE]
    BY <1>7 DEF LandLate
  <2>4. call'[k].sent = TRUE /\ \A j \in Calls \ {k} : call'[j] = call[j]
    BY <1>0, <2>1, <2>3 DEF IsPassed
  <2>5. UNCHANGED <<AuthorityShown, halted>> /\ \A j \in Calls \ {k} : Shown(j)' = Shown(j)
    BY <2>1, <2>4 DEF AuthorityShown, Shown
  <2>6. Shown(k) = "admitted" /\ Shown(k)' = "resting"
    BY <2>1, <2>2, <2>4 DEF Shown, Ended
  <2> QED BY <2>5, <2>6, CallStep
<1>8. CASE UNCHANGED gateVars
  BY <1>8 DEF gateVars, Contract!contractVars, AuthorityShown, OrderShown
<1> QED BY <1>1, <1>2, <1>3, <1>4, <1>5, <1>6, <1>7, <1>8 DEF GateNext, Order

(* The gate keeps the contract LiveRuntime is built on: seen through the files and the    *)
(* broker's book, an order is admitted only under a live mandate with no sentinel         *)
(* standing, and lands only once admitted (order_guard.py, execute).                      *)
THEOREM ContractKept == Spec => ImplementsContract
<1>1. GateInit => IInv
  BY InitInv
<1>2. IInv /\ [GateNext]_gateVars => IInv'
  BY NextInv
<1>3. GateInit => Contract!ContractInit
  <2> SUFFICES ASSUME GateInit PROVE Contract!ContractInit
    OBVIOUS
  <2>1. AuthorityShown = "none" /\ halted = {}
    BY DEF GateInit, AuthorityShown
  <2>2. OrderShown = [k \in Calls |-> "new"]
    BY DEF GateInit, OrderShown, NewCall
  <2> QED BY <2>1, <2>2 DEF Contract!ContractInit
<1>4. IInv /\ [GateNext]_gateVars => [Contract!ContractNext]_(Contract!contractVars)
  BY ContractStep
<1> QED BY <1>1, <1>2, <1>3, <1>4, PTL DEF Spec, ImplementsContract, Contract!ContractSpec
=============================================================================

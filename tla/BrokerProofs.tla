--------------------------- MODULE BrokerProofs ---------------------------
(***************************************************************************)
(* Proofs about LocalSim and TradeExecutor, for every instance of their    *)
(* constants: first the books of the simulated broker under the events of  *)
(* LocalSim, then the executions that run on snapshots of them.            *)
(***************************************************************************)
EXTENDS LocalSim, TradeExecutor, WellFoundedInduction, FiniteSetTheorems, TLAPS

-----------------------------------------------------------------------------
(* Facts about SumTo.  Induction over the length is by the least           *)
(* counterexample (LeastNat), because the library's induction rules take   *)
(* a predicate, which the provers cannot instantiate.                      *)

(* Every nonempty set of naturals has a least element. *)
LEMMA LeastNat ==
    ASSUME NEW S \in SUBSET Nat, S # {}
    PROVE  \E m \in S : \A k \in S : m <= k
<1> DEFINE R == OpToRel(<, Nat)
<1>1. IsWellFoundedOn(R, Nat)
  BY NatLessThanWellFounded
<1>2. PICK x \in S : \A y \in S : ~ (<<y, x>> \in R)
  BY <1>1, WFMin, Zenon
<1>3. ASSUME NEW y \in S PROVE x <= y
  <2>1. x \in Nat /\ y \in Nat
    OBVIOUS
  <2>2. ~ (y < x)
    BY <1>2, <2>1 DEF OpToRel
  <2> QED BY <2>1, <2>2
<1> QED BY <1>3

(* s is the sequence of partial sums of f up to n. *)
PartialSums(s, f, n) ==
    s = [i \in 0..n |-> IF i = 0 THEN 0 ELSE s[i-1] + f[i]]

(* Integer partial sums exist for every length. *)
LEMMA PartialSumsExist ==
    ASSUME NEW N \in Nat, NEW f \in [1..N -> Int]
    PROVE  \E s \in [0..N -> Int] : PartialSums(s, f, N)
<1> DEFINE Bad == {n \in 0..N : ~ \E s \in [0..n -> Int] : PartialSums(s, f, n)}
<1>1. SUFFICES ASSUME Bad # {} PROVE FALSE
  <2>1. N \in 0..N
    OBVIOUS
  <2>2. Bad = {} => \E s \in [0..N -> Int] : PartialSums(s, f, N)
    BY <2>1, Zenon
  <2> QED BY <2>2
<1>2. PICK m \in Bad : \A k \in Bad : m <= k
  BY <1>1, LeastNat, Bad \in SUBSET Nat
<1>3. m \in 0..N
  OBVIOUS
<1>4. CASE m = 0
  <2>1. [i \in 0..0 |-> 0] \in [0..0 -> Int] /\ PartialSums([i \in 0..0 |-> 0], f, 0)
    BY DEF PartialSums
  <2> QED BY <2>1, <1>4
<1>5. CASE m # 0
  <2>1. m-1 \in 0..N /\ m-1 \notin Bad
    BY <1>2, <1>3, <1>5
  <2>2. PICK s \in [0..m-1 -> Int] : PartialSums(s, f, m-1)
    BY <2>1
  <2> DEFINE t == [i \in 0..m |-> IF i = m THEN s[m-1] + f[m] ELSE s[i]]
  <2>3. t \in [0..m -> Int]
    BY <1>3, <1>5
  <2>4. ASSUME NEW i \in 0..m
        PROVE  t[i] = IF i = 0 THEN 0 ELSE t[i-1] + f[i]
    <3>1. CASE i = 0
      BY <3>1, <2>2, <1>3, <1>5 DEF PartialSums
    <3>2. CASE i = m
      BY <3>2, <1>3, <1>5
    <3>3. CASE i # 0 /\ i # m
      <4>1. s[i] = s[i-1] + f[i]
        BY <3>3, <2>2, <1>3 DEF PartialSums
      <4> QED BY <4>1, <3>3, <1>3
    <3> QED BY <3>1, <3>2, <3>3
  <2>5. PartialSums(t, f, m)
    BY <2>4 DEF PartialSums
  <2> QED BY <2>3, <2>5, <1>2
<1> QED BY <1>4, <1>5

(* Partial sums are unique, for integer sequences. *)
LEMMA PartialSumsUnique ==
    ASSUME NEW N \in Nat, NEW f \in [1..N -> Int], NEW s, NEW t,
           PartialSums(s, f, N), PartialSums(t, f, N)
    PROVE  s = t
<1> DEFINE Bad == {n \in 0..N : s[n] # t[n]}
<1>0. DOMAIN s = 0..N /\ DOMAIN t = 0..N
  BY DEF PartialSums
<1>1. ASSUME Bad # {} PROVE FALSE
  <2>1. PICK m \in Bad : \A k \in Bad : m <= k
    BY <1>1, LeastNat, Bad \in SUBSET Nat
  <2>2. m # 0
    BY <2>1 DEF PartialSums
  <2>3. s[m-1] = t[m-1]
    BY <2>1, <2>2
  <2>4. s[m] = s[m-1] + f[m] /\ t[m] = t[m-1] + f[m]
    BY <2>2 DEF PartialSums
  <2> QED BY <2>3, <2>4
<1>2. \A n \in 0..N : s[n] = t[n]
  BY <1>1
<1>3. s = [n \in 0..N |-> s[n]] /\ t = [n \in 0..N |-> t[n]]
  BY DEF PartialSums
<1> QED BY <1>2, <1>3

(* SumTo is the last of the partial sums. *)
LEMMA SumToIsPartial ==
    ASSUME NEW N \in Nat, NEW f \in [1..N -> Int]
    PROVE  \E s \in [0..N -> Int] : PartialSums(s, f, N) /\ SumTo(f, N) = s[N]
<1> DEFINE s == CHOOSE s : PartialSums(s, f, N)
<1>1. PICK t \in [0..N -> Int] : PartialSums(t, f, N)
  BY PartialSumsExist
<1>2. PartialSums(s, f, N)
  BY <1>1
<1>3. s = t
  BY <1>1, <1>2, PartialSumsUnique
<1>4. SumTo(f, N) = s[N]
  BY DEF SumTo, PartialSums
<1> QED BY <1>1, <1>3, <1>4

(* A sum is an integer. *)
THEOREM SumToType ==
    ASSUME NEW N \in Nat, NEW f \in [1..N -> Int]
    PROVE  SumTo(f, N) \in Int
<1>1. PICK s \in [0..N -> Int] : PartialSums(s, f, N) /\ SumTo(f, N) = s[N]
  BY SumToIsPartial
<1> QED BY <1>1

(* Changing one term changes the sum by the difference. *)
THEOREM SumToUpdate ==
    ASSUME NEW N \in Nat, NEW f \in [1..N -> Int], NEW g \in [1..N -> Int],
           NEW k \in 1..N, \A i \in 1..N : i # k => g[i] = f[i]
    PROVE  SumTo(g, N) = SumTo(f, N) + (g[k] - f[k])
<1>1. PICK s \in [0..N -> Int] : PartialSums(s, f, N) /\ SumTo(f, N) = s[N]
  BY SumToIsPartial
<1>2. PICK u \in [0..N -> Int] : PartialSums(u, g, N) /\ SumTo(g, N) = u[N]
  BY SumToIsPartial
<1> DEFINE t == [i \in 0..N |-> IF i < k THEN s[i] ELSE s[i] + (g[k] - f[k])]
<1>3. ASSUME NEW i \in 0..N
      PROVE  t[i] = IF i = 0 THEN 0 ELSE t[i-1] + g[i]
  <2>1. CASE i = 0
    BY <2>1, <1>1 DEF PartialSums
  <2>2. CASE i # 0
    <3>0. i-1 \in 0..N /\ i \in 1..N
      BY <2>2
    <3>1. s[i] = s[i-1] + f[i] /\ i-1 \in 0..N /\ s[i-1] \in Int /\ f[i] \in Int /\ g[i] \in Int
      <4>1. s[i] = s[i-1] + f[i]
        BY <2>2, <1>1 DEF PartialSums
      <4>2. s[i-1] \in Int /\ f[i] \in Int /\ g[i] \in Int
        BY <3>0
      <4> QED BY <3>0, <4>1, <4>2
    <3>2. CASE i < k
      BY <3>1, <3>2, <2>2
    <3>3. CASE i = k
      BY <3>1, <3>3, <2>2
    <3>4. CASE i > k
      <4>1. g[i] = f[i] /\ ~(i < k) /\ ~(i-1 < k) /\ k \in Int /\ g[k] \in Int /\ f[k] \in Int
        BY <3>4, <2>2
      <4>2. t[i] = s[i] + (g[k] - f[k]) /\ t[i-1] = s[i-1] + (g[k] - f[k])
        BY <4>1, <3>1
      <4> HIDE DEF t
      <4>3. t[i] = t[i-1] + g[i]
        <5> DEFINE a == s[i-1]
                   d == g[k] - f[k]
                   e == f[i]
        <5>1. a \in Int /\ d \in Int /\ e \in Int
          BY <3>1, <4>1
        <5>2. t[i] = (a + e) + d /\ t[i-1] = a + d /\ g[i] = e
          BY <3>1, <4>1, <4>2
        <5> HIDE DEF a, d, e
        <5> QED BY <5>1, <5>2
      <4> QED BY <4>3, <2>2
    <3> QED BY <3>2, <3>3, <3>4
  <2> QED BY <2>1, <2>2
<1>4. PartialSums(t, g, N)
  BY <1>3 DEF PartialSums
<1>5. t = u
  BY <1>2, <1>4, PartialSumsUnique
<1>6. t[N] = s[N] + (g[k] - f[k])
  OBVIOUS
<1> QED BY <1>1, <1>2, <1>5, <1>6

(* A sum of zeros is zero. *)
THEOREM SumToZero ==
    ASSUME NEW N \in Nat, NEW f \in [1..N -> Int], \A i \in 1..N : f[i] = 0
    PROVE  SumTo(f, N) = 0
<1>1. PICK s \in [0..N -> Int] : PartialSums(s, f, N) /\ SumTo(f, N) = s[N]
  BY SumToIsPartial
<1> DEFINE z == [i \in 0..N |-> 0]
<1>2. PartialSums(z, f, N)
  BY DEF PartialSums
<1>3. s = z
  BY <1>1, <1>2, PartialSumsUnique
<1> QED BY <1>1, <1>3

(* A sum of terms that are not negative is at least each of them. *)
THEOREM SumToBounds ==
    ASSUME NEW N \in Nat, NEW f \in [1..N -> Int], \A i \in 1..N : f[i] >= 0
    PROVE  /\ SumTo(f, N) >= 0
           /\ \A k \in 1..N : SumTo(f, N) >= f[k]
<1>1. PICK s \in [0..N -> Int] : PartialSums(s, f, N) /\ SumTo(f, N) = s[N]
  BY SumToIsPartial
<1>2. \A i \in 1..N : s[i] = s[i-1] + f[i]
  BY <1>1 DEF PartialSums
<1>3. s[0] = 0
  BY <1>1 DEF PartialSums
<1> DEFINE Neg == {i \in 0..N : s[i] < 0}
<1>4. Neg = {}
  <2>1. SUFFICES ASSUME Neg # {} PROVE FALSE
    OBVIOUS
  <2>2. PICK m \in Neg : \A k \in Neg : m <= k
    BY <2>1, LeastNat, Neg \in SUBSET Nat
  <2>3. m # 0 /\ m \in 1..N
    BY <2>2, <1>3
  <2>4. s[m-1] >= 0 /\ m-1 \in 0..N
    BY <2>2, <2>3
  <2>5. f[m] \in Int /\ f[m] >= 0 /\ s[m] = s[m-1] + f[m] /\ s[m-1] \in Int
    BY <2>3, <2>4, <1>2
  <2> QED BY <2>2, <2>4, <2>5
<1>41. \A i \in 0..N : s[i] >= 0
  <2>1. ASSUME NEW i \in 0..N PROVE s[i] >= 0
    <3>1. s[i] \in Int /\ ~ (s[i] < 0)
      BY <1>4
    <3> QED BY <3>1
  <2> QED BY <2>1
<1>5. ASSUME NEW k \in 1..N PROVE s[N] >= f[k]
  <2> DEFINE Low == {i \in k..N : s[i] < f[k]}
  <2>1. SUFFICES ASSUME Low # {} PROVE FALSE
    <3>1. N \in k..N /\ s[N] \in Int /\ f[k] \in Int
      OBVIOUS
    <3>2. Low = {} => ~ (s[N] < f[k])
      BY <3>1
    <3> QED BY <3>1, <3>2
  <2>2. PICK m \in Low : \A j \in Low : m <= j
    BY <2>1, LeastNat, Low \in SUBSET Nat
  <2>3. m \in 1..N /\ m-1 \in 0..N /\ s[m] = s[m-1] + f[m] /\ s[m-1] \in Int /\ f[m] >= 0 /\ f[m] \in Int
    BY <2>2, <1>2
  <2>4. CASE m = k
    <3>1. s[m-1] >= 0
      BY <2>3, <1>41
    <3>2. s[m] < f[m]
      BY <2>2, <2>4
    <3> QED BY <3>1, <3>2, <2>3
  <2>5. CASE m # k
    <3>1. s[m-1] >= f[k]
      BY <2>2, <2>5, <2>3
    <3> QED BY <3>1, <2>3, <2>2
  <2> QED BY <2>4, <2>5
<1> QED BY <1>1, <1>4, <1>5

(* A sum of equal terms is their product. *)
LEMMA SumToConst ==
    ASSUME NEW N \in Nat, NEW a \in Int, NEW f \in [1..N -> Int], \A i \in 1..N : f[i] = a
    PROVE  SumTo(f, N) = N * a
<1>1. PICK s \in [0..N -> Int] : PartialSums(s, f, N) /\ SumTo(f, N) = s[N]
  BY SumToIsPartial
<1> DEFINE z == [i \in 0..N |-> i * a]
<1>2. z \in [0..N -> Int]
  OBVIOUS
<1>3. PartialSums(z, f, N)
  <2>1. ASSUME NEW i \in 0..N
        PROVE  z[i] = IF i = 0 THEN 0 ELSE z[i-1] + f[i]
    <3>1. CASE i = 0
      BY <3>1
    <3>2. CASE i # 0
      <4>1. i-1 \in 0..N /\ i \in 1..N
        BY <3>2
      <4>2. i * a = (i-1) * a + a
        BY <4>1
      <4> QED BY <4>1, <4>2, <3>2
    <3> QED BY <3>1, <3>2
  <2>2. z = [i \in 0..N |-> z[i]]
    OBVIOUS
  <2> HIDE DEF z
  <2>3. [i \in 0..N |-> z[i]] = [i \in 0..N |-> IF i = 0 THEN 0 ELSE z[i-1] + f[i]]
    BY <2>1
  <2> QED BY <2>2, <2>3 DEF PartialSums
<1>4. s = z
  BY <1>1, <1>2, <1>3, PartialSumsUnique
<1> QED BY <1>1, <1>4

(* The sum of one term. *)
LEMMA SumToOne ==
    ASSUME NEW f \in [1..1 -> Int]
    PROVE  SumTo(f, 1) = f[1]
<1>1. f[1] \in Int /\ \A i \in 1..1 : f[i] = f[1]
  OBVIOUS
<1>2. SumTo(f, 1) = 1 * f[1]
  BY <1>1, 1 \in Nat, SumToConst, Zenon
<1> QED BY <1>1, <1>2

(* An empty sum. *)
LEMMA SumToNone ==
    ASSUME NEW f \in [1..0 -> Int]
    PROVE  SumTo(f, 0) = 0
<1>1. \A i \in 1..0 : f[i] = 0
  OBVIOUS
<1> QED BY <1>1, 0 \in Nat, SumToZero, Zenon

-----------------------------------------------------------------------------
(* What the operators on books return. *)

(* Intents are records with the fields the broker reads. *)
LEMMA IntentType ==
    ASSUME NEW i \in OrderIntents
    PROVE  /\ i.symbol \in Symbols /\ i.side \in OrderSide /\ i.type \in OrderType
           /\ i.qty \in Nat \ {0} /\ i.limit \in Nat
           /\ i.type # "MARKET" => i.limit > 0
           /\ i.type = "MARKET" => i.limit = 0
BY DEF OrderIntents

(* Quotes carry positive prices. *)
LEMMA QuoteType ==
    ASSUME NEW q \in MarketQuotes
    PROVE  /\ q.symbol \in Nat
           /\ AskOrLast(q) \in Nat \ {0}
           /\ BidOrLast(q) \in Nat \ {0}
BY DEF MarketQuotes, AskOrLast, BidOrLast, Symbols

(* The account and the positions of two books agree. *)
SameMoney(b, c) == c.cash = b.cash /\ c.frozen = b.frozen
SameShares(b, c) == c.qty = b.qty /\ c.avail = b.avail
SameRows(b, c) == c.intent = b.intent /\ c.status = b.status
SameOthers(b, c, o) ==
    \A p \in OrderIds \ {o} : c.status[p] = b.status[p] /\ c.intent[p] = b.intent[p]

(* transition_order touches the status and the audit trail of one order. *)
LEMMA TransitionType ==
    ASSUME NEW b \in Books, NEW o \in OrderIds, NEW to \in OrderStatus,
           NEW c, c = TransitionOrder(b, o, to)
    PROVE  /\ c \in Books
           /\ c.status = [b.status EXCEPT ![o] = to]
           /\ c.intent = b.intent
           /\ SameMoney(b, c) /\ SameShares(b, c)
<1>1. /\ b.audit \in [OrderIds -> Seq(OrderStatus)]
      /\ b.status \in [OrderIds -> OrderStatus \cup {NoRow}]
  BY DEF Books
<1>2. Append(b.audit[o], to) \in Seq(OrderStatus)
  BY <1>1
<1>3. c = [b EXCEPT !.status = [b.status EXCEPT ![o] = to],
                    !.audit = [b.audit EXCEPT ![o] = Append(b.audit[o], to)]]
  BY DEF TransitionOrder, Books
<1>4. [b.audit EXCEPT ![o] = Append(b.audit[o], to)] \in [OrderIds -> Seq(OrderStatus)]
  BY <1>1, <1>2
<1>5. [b.status EXCEPT ![o] = to] \in [OrderIds -> OrderStatus \cup {NoRow}]
  BY <1>1
<1>6. c \in Books
  BY <1>3, <1>4, <1>5 DEF Books
<1>7. /\ c.status = [b.status EXCEPT ![o] = to] /\ c.intent = b.intent
      /\ c.cash = b.cash /\ c.frozen = b.frozen
      /\ c.qty = b.qty /\ c.avail = b.avail
  BY <1>3 DEF Books
<1> QED BY <1>6, <1>7 DEF SameMoney, SameShares

(* enqueue_event touches the outbox only. *)
LEMMA EnqueueType ==
    ASSUME NEW b \in Books, NEW e \in OutboxEvents, NEW id \in Nat,
           NEW c, c = EnqueueEvent(b, e, id)
    PROVE  c \in Books /\ SameRows(b, c) /\ SameMoney(b, c) /\ SameShares(b, c)
<1>1. c = [b EXCEPT !.outbox = b.outbox \cup {<<e, id>>}]
  BY DEF EnqueueEvent
<1>2. b.outbox \cup {<<e, id>>} \in SUBSET (OutboxEvents \X Nat)
  BY DEF Books
<1>3. c \in Books
  BY <1>1, <1>2 DEF Books
<1>4. /\ c.status = b.status /\ c.intent = b.intent
      /\ c.cash = b.cash /\ c.frozen = b.frozen
      /\ c.qty = b.qty /\ c.avail = b.avail
  BY <1>1 DEF Books
<1> QED BY <1>3, <1>4 DEF SameRows, SameMoney, SameShares

(* create_order_from_intent adds one row. *)
LEMMA CreateType ==
    ASSUME NEW b \in Books, NEW o \in OrderIds, NEW i \in OrderIntents,
           NEW c, c = CreateOrder(b, o, i)
    PROVE  /\ c \in Books
           /\ c.status = [b.status EXCEPT ![o] = "CREATED"]
           /\ c.intent = [b.intent EXCEPT ![o] = i]
           /\ SameMoney(b, c) /\ SameShares(b, c)
<1>1. /\ b.audit \in [OrderIds -> Seq(OrderStatus)]
      /\ b.status \in [OrderIds -> OrderStatus \cup {NoRow}]
      /\ b.intent \in [OrderIds -> OrderIntents \cup {NoIntent}]
  BY DEF Books
<1>2. <<"CREATED">> \in Seq(OrderStatus) /\ "CREATED" \in OrderStatus
  BY DEF OrderStatus
<1>3. c = [b EXCEPT !.intent = [b.intent EXCEPT ![o] = i],
                    !.status = [b.status EXCEPT ![o] = "CREATED"],
                    !.audit = [b.audit EXCEPT ![o] = <<"CREATED">>],
                    !.fresh = b.fresh \cup {o},
                    !.today = b.today \cup {o}]
  BY DEF CreateOrder, Books
<1>4. /\ [b.audit EXCEPT ![o] = <<"CREATED">>] \in [OrderIds -> Seq(OrderStatus)]
      /\ [b.status EXCEPT ![o] = "CREATED"] \in [OrderIds -> OrderStatus \cup {NoRow}]
      /\ [b.intent EXCEPT ![o] = i] \in [OrderIds -> OrderIntents \cup {NoIntent}]
  BY <1>1, <1>2
<1>5. /\ b.fresh \cup {o} \in SUBSET OrderIds
      /\ b.today \cup {o} \in SUBSET OrderIds
  BY DEF Books
<1>6. c \in Books
  BY <1>3, <1>4, <1>5, ZenonT(40) DEF Books
<1>7. /\ c.status = [b.status EXCEPT ![o] = "CREATED"]
      /\ c.intent = [b.intent EXCEPT ![o] = i]
      /\ c.cash = b.cash /\ c.frozen = b.frozen
      /\ c.qty = b.qty /\ c.avail = b.avail
  BY <1>3 DEF Books
<1> QED BY <1>6, <1>7 DEF SameMoney, SameShares

-----------------------------------------------------------------------------
(* Amounts. *)

(* Multiplication by a natural number is monotone. *)
LEMMA TimesMonotone ==
    ASSUME NEW a \in Nat, NEW x \in Nat, NEW y \in Nat, x <= y
    PROVE  a * x <= a * y
<1>1. PICK d \in Nat : y = x + d
  BY y - x \in Nat
<1>2. a * y = a * x + a * d /\ a * d \in Nat /\ a * x \in Nat
  BY <1>1
<1> QED BY <1>2

(* Amounts are natural numbers. *)
LEMMA AmountType ==
    ASSUME NEW n \in Nat, NEW p \in Nat
    PROVE  /\ Gross(n, p) \in Nat
           /\ Commission(n, p) \in Nat
           /\ WithCommission(n, p) \in Nat
<1>1. n * p \in Nat /\ RateDen \in Nat /\ RateNum \in Nat /\ MinCommission \in Nat
  BY BookAssumption
<1>2. n * p * RateDen \in Nat /\ n * p * RateNum \in Nat
  BY <1>1
<1> QED BY <1>1, <1>2 DEF Gross, Commission, WithCommission

(* A better price never costs more: the commission is monotone too. *)
LEMMA AmountMonotone ==
    ASSUME NEW n \in Nat, NEW p \in Nat, NEW l \in Nat, p <= l
    PROVE  WithCommission(n, p) <= WithCommission(n, l)
<1>1. n * p <= n * l /\ n * p \in Nat /\ n * l \in Nat
  BY TimesMonotone
<1>2. RateDen \in Nat /\ RateNum \in Nat /\ MinCommission \in Nat
  BY BookAssumption
<1>3. RateDen * (n * p) <= RateDen * (n * l)
  BY <1>1, <1>2, TimesMonotone
<1>4. RateNum * (n * p) <= RateNum * (n * l)
  BY <1>1, <1>2, TimesMonotone
<1> DEFINE gp == n * p * RateDen
           gl == n * l * RateDen
           cp == n * p * RateNum
           cl == n * l * RateNum
<1>5. gp <= gl /\ cp <= cl /\ gp \in Nat /\ gl \in Nat /\ cp \in Nat /\ cl \in Nat
  BY <1>1, <1>2, <1>3, <1>4
<1>6. /\ WithCommission(n, p) = gp + IF RateNum = 0 THEN 0 ELSE IF cp >= MinCommission THEN cp ELSE MinCommission
      /\ WithCommission(n, l) = gl + IF RateNum = 0 THEN 0 ELSE IF cl >= MinCommission THEN cl ELSE MinCommission
  BY DEF WithCommission, Gross, Commission
<1> HIDE DEF gp, gl, cp, cl
<1> QED BY <1>2, <1>5, <1>6

(* A reservation, at any price. *)
LEMMA ReservedType ==
    ASSUME NEW i \in OrderIntents, NEW p \in Nat
    PROVE  ReservedCash(i, p) \in Nat
<1>1. i.qty \in Nat /\ i.limit \in Nat
  BY IntentType
<1> QED BY <1>1, AmountType DEF ReservedCash

-----------------------------------------------------------------------------
(* Reserving, releasing and settling. *)

(* _reserve_resources moves cash of a buy order, shares of a plain sell. *)
LEMMA ReserveType ==
    ASSUME NEW b \in Books, NEW o \in OrderIds, NEW q \in MarketQuotes,
           b.intent[o] \in OrderIntents,
           NEW i, i = b.intent[o],
           NEW c, c = ReserveResources(b, o, q)
    PROVE  /\ c \in Books /\ SameRows(b, c)
           /\ i.side = "BUY" =>
                /\ c.cash = b.cash - ReservedCash(i, AskOrLast(q))
                /\ c.frozen = b.frozen + ReservedCash(i, AskOrLast(q))
           /\ i.side = "SELL" => SameMoney(b, c)
<1> DEFINE r == ReservedCash(i, AskOrLast(q))
<1>1. /\ b.cash \in Int /\ b.frozen \in Int /\ b.avail \in [Symbols -> Int]
      /\ i.symbol \in Symbols /\ i.qty \in Nat /\ i.side \in OrderSide
  BY IntentType DEF Books
<1>2. r \in Nat
  BY ReservedType, QuoteType
<1>3. CASE i.side = "BUY"
  <2> DEFINE x == b.cash - r
             y == b.frozen + r
  <2>1. c = [b EXCEPT !.cash = x, !.frozen = y]
    BY <1>3 DEF ReserveResources
  <2>3. x \in Int /\ y \in Int
    BY <1>1, <1>2
  <2> HIDE DEF r, x, y
  <2>2. c \in Books /\ c.cash = x /\ c.frozen = y
        /\ c.status = b.status /\ c.intent = b.intent /\ c.qty = b.qty /\ c.avail = b.avail
    BY <2>1, <2>3 DEF Books
  <2> QED BY <2>2, <1>3 DEF r, x, y, SameRows, SameShares
<1>4. CASE i.side = "SELL" /\ IsBracketOrder(i)
  BY <1>4 DEF ReserveResources, SameRows, SameMoney, SameShares
<1>5. CASE i.side = "SELL" /\ ~IsBracketOrder(i)
  <2> DEFINE a == [b.avail EXCEPT ![i.symbol] = b.avail[i.symbol] - i.qty]
  <2>1. c = [b EXCEPT !.avail = a]
    BY <1>5, <1>1 DEF ReserveResources, Books
  <2>2. a \in [Symbols -> Int]
    BY <1>1
  <2> HIDE DEF a
  <2>3. c \in Books /\ c.avail = a /\ c.qty = b.qty /\ c.cash = b.cash /\ c.frozen = b.frozen
        /\ c.status = b.status /\ c.intent = b.intent
    BY <2>1, <2>2 DEF Books
  <2> QED BY <2>3, <1>5 DEF a, SameRows, SameMoney
<1> QED BY <1>1, <1>3, <1>4, <1>5 DEF OrderSide

(* _release_resources undoes the reservation of a waiting order. *)
LEMMA ReleaseType ==
    ASSUME NEW b \in Books, NEW o \in OrderIds,
           b.intent[o] \in OrderIntents,
           NEW i, i = b.intent[o],
           NEW c, c = ReleaseResources(b, o)
    PROVE  /\ c \in Books /\ SameRows(b, c)
           /\ i.side = "BUY" =>
                /\ c.cash = b.cash + ReservedCash(i, 0)
                /\ c.frozen = b.frozen - ReservedCash(i, 0)
           /\ i.side = "SELL" => SameMoney(b, c)
<1> DEFINE r == ReservedCash(i, 0)
<1>1. /\ b.cash \in Int /\ b.frozen \in Int /\ b.avail \in [Symbols -> Int]
      /\ i.symbol \in Symbols /\ i.qty \in Nat /\ i.side \in OrderSide
  BY IntentType DEF Books
<1>2. r \in Nat
  BY ReservedType
<1>3. CASE i.side = "BUY"
  <2> DEFINE x == b.cash + r
             y == b.frozen - r
  <2>1. c = [b EXCEPT !.cash = x, !.frozen = y]
    BY <1>3 DEF ReleaseResources
  <2>3. x \in Int /\ y \in Int
    BY <1>1, <1>2
  <2> HIDE DEF r, x, y
  <2>2. c \in Books /\ c.cash = x /\ c.frozen = y
        /\ c.status = b.status /\ c.intent = b.intent /\ c.qty = b.qty /\ c.avail = b.avail
    BY <2>1, <2>3 DEF Books
  <2> QED BY <2>2, <1>3 DEF r, x, y, SameRows, SameShares
<1>4. CASE i.side = "SELL" /\ IsBracketOrder(i)
  BY <1>4 DEF ReleaseResources, SameRows, SameMoney, SameShares
<1>5. CASE i.side = "SELL" /\ ~IsBracketOrder(i)
  <2> DEFINE a == [b.avail EXCEPT ![i.symbol] = b.avail[i.symbol] + i.qty]
  <2>1. c = [b EXCEPT !.avail = a]
    BY <1>5, <1>1 DEF ReleaseResources, Books
  <2>2. a \in [Symbols -> Int]
    BY <1>1
  <2> HIDE DEF a
  <2>3. c \in Books /\ c.avail = a /\ c.qty = b.qty /\ c.cash = b.cash /\ c.frozen = b.frozen
        /\ c.status = b.status /\ c.intent = b.intent
    BY <2>1, <2>2 DEF Books
  <2> QED BY <2>3, <1>5 DEF a, SameRows, SameMoney
<1> QED BY <1>1, <1>3, <1>4, <1>5 DEF OrderSide

(* The fill rows of an order grow by one. *)
LEMMA FillRowType ==
    ASSUME NEW b \in Books, NEW o \in OrderIds,
           NEW p \in Nat, NEW a \in Int, NEW n \in Int
    PROVE  [b.fills EXCEPT ![o] = Append(b.fills[o], [price |-> p, amount |-> a, balance |-> n])]
             \in [OrderIds -> Seq([price : Nat, amount : Int, balance : Int])]
<1> DEFINE S == Seq([price : Nat, amount : Int, balance : Int])
<1>1. b.fills \in [OrderIds -> S]
  BY DEF Books
<1>2. [price |-> p, amount |-> a, balance |-> n] \in [price : Nat, amount : Int, balance : Int]
  OBVIOUS
<1>3. Append(b.fills[o], [price |-> p, amount |-> a, balance |-> n]) \in S
  BY <1>1, <1>2
<1> QED BY <1>1, <1>3

(* Settling a buy: cash, frozen cash and the position of one symbol. *)
LEMMA SettleBuyType ==
    ASSUME NEW b \in Books, NEW o \in OrderIds, NEW p \in Nat,
           b.intent[o] \in OrderIntents,
           NEW i, i = b.intent[o],
           NEW c, c = SettleBuy(b, o, p)
    PROVE  /\ c \in Books /\ SameRows(b, c)
           /\ c.frozen = b.frozen - ReservedCash(i, p)
           /\ c.cash = b.cash + (ReservedCash(i, p) - WithCommission(i.qty, p))
<1> DEFINE r == ReservedCash(i, p)
           w == WithCommission(i.qty, p)
           s == i.symbol
           f == [b.fills EXCEPT ![o] = Append(b.fills[o], [price |-> p, amount |-> -w,
                                                           balance |-> b.cash + (r - w)])]
           bas == [b.basis EXCEPT ![s] = b.basis[s] + w]
           n == [b.qty EXCEPT ![s] = b.qty[s] + i.qty]
           a == [b.avail EXCEPT ![s] = b.avail[s] + i.qty]
<1>1. /\ b.cash \in Int /\ b.frozen \in Int /\ b.avail \in [Symbols -> Int]
      /\ b.qty \in [Symbols -> Nat] /\ b.basis \in [Symbols -> Int]
      /\ s \in Symbols /\ i.qty \in Nat
  BY IntentType DEF Books
<1>2. r \in Nat /\ w \in Nat
  BY ReservedType, AmountType, <1>1
<1>3. c = [b EXCEPT !.frozen = b.frozen - r, !.cash = b.cash + (r - w),
                    !.basis = bas, !.qty = n, !.avail = a, !.fills = f]
  BY <1>1 DEF SettleBuy, Books
<1>4. f \in [OrderIds -> Seq([price : Nat, amount : Int, balance : Int])]
  <2> HIDE DEF r, w
  <2>1. -w \in Int /\ b.cash + (r - w) \in Int
    BY <1>1, <1>2
  <2> QED BY <2>1, FillRowType
<1>5. bas \in [Symbols -> Int] /\ n \in [Symbols -> Nat] /\ a \in [Symbols -> Int]
  <2> HIDE DEF w
  <2> QED BY <1>1, <1>2
<1>6. b.frozen - r \in Int /\ b.cash + (r - w) \in Int
  <2> HIDE DEF r, w
  <2> QED BY <1>1, <1>2
<1> DEFINE x == b.frozen - r
           y == b.cash + (r - w)
<1> HIDE DEF r, w, f, bas, n, a
<1>7. c \in Books /\ c.frozen = x /\ c.cash = y
      /\ c.qty = n /\ c.avail = a /\ c.status = b.status /\ c.intent = b.intent
  <2>1. /\ c = [b EXCEPT !.frozen = x, !.cash = y, !.basis = bas,
                         !.qty = n, !.avail = a, !.fills = f]
        /\ x \in Int /\ y \in Int
    BY <1>3, <1>6
  <2> HIDE DEF x, y
  <2>2. c \in Books
    BY <1>4, <1>5, <2>1, ZenonT(40) DEF Books
  <2> QED BY <2>1, <2>2 DEF Books
<1> QED BY <1>7 DEF r, w, n, a, SameRows

(* Settling a sell: cash and the position of one symbol. *)
LEMMA SettleSellType ==
    ASSUME NEW b \in Books, NEW o \in OrderIds, NEW p \in Nat,
           b.intent[o] \in OrderIntents,
           NEW i, i = b.intent[o],
           NEW c, c = SettleSell(b, o, p)
    PROVE  /\ c \in Books /\ SameRows(b, c)
           /\ c.frozen = b.frozen
           /\ c.cash = b.cash + (Gross(i.qty, p) - Commission(i.qty, p))
<1> DEFINE s == i.symbol
           net == Gross(i.qty, p) - Commission(i.qty, p)
           cost == CostOf(b, s, i.qty)
           left == b.qty[s] - i.qty
           f == [b.fills EXCEPT ![o] = Append(b.fills[o], [price |-> p, amount |-> net,
                                                           balance |-> b.cash + net])]
           bas == [b.basis EXCEPT ![s] = IF left <= 0 THEN 0 ELSE b.basis[s] - cost]
           n == [b.qty EXCEPT ![s] = IF left <= 0 THEN 0 ELSE left]
<1>1. /\ b.cash \in Int /\ b.realized \in Int
      /\ b.qty \in [Symbols -> Nat] /\ b.basis \in [Symbols -> Int]
      /\ s \in Symbols /\ i.qty \in Nat
  BY IntentType DEF Books
<1>2. net \in Int
  <2>1. Gross(i.qty, p) \in Nat /\ Commission(i.qty, p) \in Nat
    BY AmountType, <1>1
  <2> QED BY <2>1
<1>3. cost \in Int
  <2>1. b.qty[s] \in Nat /\ b.basis[s] * i.qty \in Int
    BY <1>1
  <2>2. b.qty[s] # 0 => (b.basis[s] * i.qty) \div b.qty[s] \in Int
    BY <2>1
  <2> QED BY <2>1, <2>2 DEF CostOf
<1>4. c = [b EXCEPT !.cash = b.cash + net, !.realized = b.realized + (net - cost),
                    !.qty = n, !.basis = bas, !.fills = f]
  BY <1>1 DEF SettleSell, Books
<1> HIDE DEF net, cost
<1>5. f \in [OrderIds -> Seq([price : Nat, amount : Int, balance : Int])]
  <2>1. b.cash + net \in Int
    BY <1>1, <1>2
  <2> QED BY <1>2, <2>1, FillRowType
<1>6. bas \in [Symbols -> Int] /\ n \in [Symbols -> Nat]
  BY <1>1, <1>3
<1>7. b.cash + net \in Int /\ b.realized + (net - cost) \in Int
  BY <1>1, <1>2, <1>3
<1> DEFINE x == b.cash + net
           y == b.realized + (net - cost)
<1> HIDE DEF f, bas, n
<1>8. c \in Books /\ c.frozen = b.frozen /\ c.cash = x
      /\ c.qty = n /\ c.avail = b.avail /\ c.status = b.status /\ c.intent = b.intent
  <2>1. /\ c = [b EXCEPT !.cash = x, !.realized = y, !.qty = n, !.basis = bas, !.fills = f]
        /\ x \in Int /\ y \in Int
    BY <1>4, <1>7
  <2> HIDE DEF x, y
  <2>2. c \in Books
    BY <1>5, <1>6, <2>1, ZenonT(40) DEF Books
  <2> QED BY <2>1, <2>2 DEF Books
<1> QED BY <1>8 DEF n, net, SameRows

(* Revaluing touches the valuation only. *)
LEMMA RevalueType ==
    ASSUME NEW b \in Books, NEW s \in Symbols, NEW p \in Nat,
           NEW c, c = Revalue(b, s, p)
    PROVE  c \in Books /\ SameRows(b, c) /\ SameMoney(b, c) /\ SameShares(b, c)
<1> DEFINE m == [b.mval EXCEPT ![s] = Gross(b.qty[s], p)]
           e == b.cash + b.frozen + SumTo(m, NSymbols)
<1>1. b.mval \in [Symbols -> Int] /\ b.qty[s] \in Int /\ b.cash \in Int /\ b.frozen \in Int
  BY DEF Books
<1>2. Gross(b.qty[s], p) \in Int
  BY <1>1, BookAssumption DEF Gross
<1>3. m \in [1..NSymbols -> Int] /\ m \in [Symbols -> Int]
  BY <1>1, <1>2 DEF Symbols
<1>4. e \in Int
  <2>1. m \in [1..NSymbols -> Int] /\ NSymbols \in Nat
    BY <1>3, BookAssumption
  <2> HIDE DEF m
  <2>2. SumTo(m, NSymbols) \in Int
    BY <2>1, SumToType
  <2> QED BY <1>1, <2>2
<1>5. c = [b EXCEPT !.mval = m, !.equity = e]
  BY DEF Revalue
<1> HIDE DEF m, e
<1>6. c \in Books /\ c.frozen = b.frozen /\ c.cash = b.cash
      /\ c.qty = b.qty /\ c.avail = b.avail /\ c.status = b.status /\ c.intent = b.intent
  BY <1>3, <1>4, <1>5 DEF Books
<1> QED BY <1>6 DEF SameRows, SameMoney, SameShares

(* _apply_fill: the settlement of its side, and the order is FILLED. *)
LEMMA ApplyFillType ==
    ASSUME NEW b \in Books, NEW o \in OrderIds, NEW p \in Nat,
           b.intent[o] \in OrderIntents,
           NEW i, i = b.intent[o],
           NEW c, c = ApplyFill(b, o, p)
    PROVE  /\ c \in Books
           /\ c.intent = b.intent
           /\ c.status = [b.status EXCEPT ![o] = "FILLED"]
           /\ i.side = "BUY" =>
                /\ SameMoney(SettleBuy(b, o, p), c)
                /\ SameShares(SettleBuy(b, o, p), c)
           /\ i.side = "SELL" =>
                /\ SameMoney(SettleSell(b, o, p), c)
                /\ SameShares(SettleSell(b, o, p), c)
<1> DEFINE d == IF i.side = "BUY" THEN SettleBuy(b, o, p) ELSE SettleSell(b, o, p)
           v == Revalue(d, i.symbol, p)
           t == TransitionOrder(v, o, "FILLED")
           e == EnqueueEvent(t, "ORDER_FILLED", o)
<1>1. i.symbol \in Symbols /\ i.side \in OrderSide /\ i.symbol \in Nat /\ o \in Nat
  BY IntentType DEF Symbols, OrderIds
<1>2. d \in Books /\ SameRows(b, d)
  BY SettleBuyType, SettleSellType
<1>3. v \in Books /\ SameRows(d, v) /\ SameMoney(d, v) /\ SameShares(d, v)
  <2> HIDE DEF d
  <2> QED BY <1>1, <1>2, RevalueType
<1>4. /\ t \in Books /\ t.intent = v.intent /\ t.status = [v.status EXCEPT ![o] = "FILLED"]
      /\ SameMoney(v, t) /\ SameShares(v, t)
  <2> HIDE DEF d, v
  <2>1. "FILLED" \in OrderStatus
    BY DEF OrderStatus
  <2> QED BY <1>3, <2>1, TransitionType
<1>5. e \in Books /\ SameRows(t, e) /\ SameMoney(t, e) /\ SameShares(t, e)
  <2> HIDE DEF d, v, t
  <2>1. "ORDER_FILLED" \in OutboxEvents
    BY DEF OutboxEvents
  <2> QED BY <1>1, <1>4, <2>1, EnqueueType
<1>6. c = EnqueueEvent(e, "POSITION_UPDATED", i.symbol)
  BY DEF ApplyFill
<1>7. c \in Books /\ SameRows(e, c) /\ SameMoney(e, c) /\ SameShares(e, c)
  <2> HIDE DEF e
  <2>1. "POSITION_UPDATED" \in OutboxEvents
    BY DEF OutboxEvents
  <2> QED BY <1>1, <1>5, <1>6, <2>1, EnqueueType
<1>8. SameMoney(d, c) /\ SameShares(d, c)
  <2> HIDE DEF d, v, t, e
  <2> QED BY <1>3, <1>4, <1>5, <1>7 DEF SameMoney, SameShares
<1>9. c.intent = b.intent /\ c.status = [b.status EXCEPT ![o] = "FILLED"]
  <2> HIDE DEF d, v, t, e
  <2> QED BY <1>2, <1>3, <1>4, <1>5, <1>7 DEF SameRows
<1> QED BY <1>7, <1>8, <1>9

(* _fill_price: a buy fills at the ask, no higher than its limit; a sell at *)
(* the bid; only an order with a limit is left waiting.                     *)
LEMMA FillPriceFacts ==
    ASSUME NEW i \in OrderIntents, NEW q \in MarketQuotes,
           NEW p, p = FillPrice(i, q)
    PROVE  /\ p \in Nat
           /\ p = 0 => i.limit # 0
           /\ p # 0 /\ i.side = "BUY" => p = AskOrLast(q) /\ (i.limit # 0 => p <= i.limit)
           /\ p # 0 /\ i.side = "SELL" => p = BidOrLast(q)
<1>1. /\ i.side \in OrderSide /\ i.type \in OrderType /\ i.limit \in Nat
      /\ i.type # "MARKET" => i.limit > 0
      /\ i.type = "MARKET" => i.limit = 0
  BY IntentType
<1>2. AskOrLast(q) \in Nat \ {0} /\ BidOrLast(q) \in Nat \ {0}
  BY QuoteType
<1>3. CASE i.type = "MARKET"
  <2>1. p = IF i.side = "BUY" THEN AskOrLast(q) ELSE BidOrLast(q)
    BY <1>3 DEF FillPrice
  <2> QED BY <2>1, <1>1, <1>2, <1>3
<1>4. CASE i.type # "MARKET" /\ i.side = "BUY"
  <2>1. p = IF ~(i.limit >= AskOrLast(q)) THEN 0 ELSE AskOrLast(q)
    BY <1>4, <1>1 DEF FillPrice, OrderType
  <2> QED BY <2>1, <1>1, <1>2, <1>4
<1>5. CASE i.type # "MARKET" /\ i.side = "SELL"
  <2>1. p = 0 \/ p = BidOrLast(q)
    BY <1>5, <1>1 DEF FillPrice, OrderType
  <2> QED BY <2>1, <1>1, <1>2, <1>5
<1> QED BY <1>1, <1>3, <1>4, <1>5 DEF OrderSide

(* submit_order: refused, left waiting with its reservation, or filled with *)
(* the reservation settled at once.                                         *)
LEMMA SubmitType ==
    ASSUME NEW b \in Books, NEW o \in OrderIds, NEW q \in MarketQuotes,
           b.intent[o] \in OrderIntents,
           NEW i, i = b.intent[o],
           NEW c, c = SubmitOrder(b, o, q)
    PROVE  /\ c \in Books /\ c.intent = b.intent
           /\ \/ /\ c.status = [b.status EXCEPT ![o] = "FAILED"]
                 /\ SameMoney(b, c)
              \/ /\ c.status = [b.status EXCEPT ![o] = "SUBMITTED"]
                 /\ i.limit # 0
                 /\ i.side = "BUY" =>
                      /\ b.cash >= ReservedCash(i, 0)
                      /\ c.cash = b.cash - ReservedCash(i, 0)
                      /\ c.frozen = b.frozen + ReservedCash(i, 0)
                 /\ i.side = "SELL" => SameMoney(b, c)
              \/ /\ c.status = [b.status EXCEPT ![o] = "FILLED"]
                 /\ c.frozen = b.frozen
                 /\ i.side = "BUY" => c.cash >= 0
                 /\ i.side = "SELL" =>
                      c.cash = b.cash + (Gross(i.qty, BidOrLast(q)) - Commission(i.qty, BidOrLast(q)))
<1> DEFINE ask == AskOrLast(q)
           r == ReservedCash(i, ask)
           d == ReserveResources(b, o, q)
           t == TransitionOrder(d, o, "SUBMITTING")
           w == TransitionOrder(t, o, "SUBMITTED")
           p == FillPrice(i, q)
<1>1. /\ i.side \in OrderSide /\ i.qty \in Nat /\ i.limit \in Nat
      /\ b.cash \in Int /\ b.frozen \in Int
      /\ b.status \in [OrderIds -> OrderStatus \cup {NoRow}]
  BY IntentType DEF Books
<1>2. ask \in Nat \ {0} /\ BidOrLast(q) \in Nat \ {0}
  BY QuoteType
<1>3. r \in Nat /\ ReservedCash(i, 0) \in Nat /\ (i.limit # 0 => r = ReservedCash(i, 0))
  BY <1>2, ReservedType DEF ReservedCash
<1>4. "FAILED" \in OrderStatus /\ "SUBMITTING" \in OrderStatus /\ "SUBMITTED" \in OrderStatus
  BY DEF OrderStatus
<1>5. CASE ~Accepts(b, o, q)
  <2>1. c = TransitionOrder(b, o, "FAILED")
    BY <1>5 DEF SubmitOrder
  <2> QED BY <2>1, <1>4, TransitionType
<1>6. CASE Accepts(b, o, q)
  <2>1. /\ d \in Books /\ SameRows(b, d)
        /\ i.side = "BUY" => d.cash = b.cash - r /\ d.frozen = b.frozen + r
        /\ i.side = "SELL" => SameMoney(b, d)
    <3>1. d = ReserveResources(b, o, q) /\ r = ReservedCash(i, AskOrLast(q))
      OBVIOUS
    <3> HIDE DEF d, r
    <3> QED BY <3>1, ReserveType
  <2>2. i.side = "BUY" => b.cash >= r
    BY <1>6 DEF Accepts, CanReserve
  <2>3. /\ t \in Books /\ t.intent = d.intent
        /\ t.status = [d.status EXCEPT ![o] = "SUBMITTING"] /\ SameMoney(d, t)
    <3> HIDE DEF d
    <3> QED BY <2>1, <1>4, TransitionType
  <2>4. /\ w \in Books /\ w.intent = t.intent
        /\ w.status = [t.status EXCEPT ![o] = "SUBMITTED"] /\ SameMoney(t, w)
    <3> HIDE DEF d, t
    <3> QED BY <2>3, <1>4, TransitionType
  <2>5. /\ w.intent = b.intent
        /\ w.status = [b.status EXCEPT ![o] = "SUBMITTED"]
        /\ SameMoney(d, w)
    <3> HIDE DEF d, t, w
    <3> QED BY <2>1, <2>3, <2>4, <1>1 DEF SameRows, SameMoney
  <2>6. c = IF p = 0 THEN w ELSE ApplyFill(w, o, p)
    BY <1>6 DEF SubmitOrder
  <2>7. /\ p \in Nat
        /\ p = 0 => i.limit # 0
        /\ p # 0 /\ i.side = "BUY" => p = ask /\ (i.limit # 0 => p <= i.limit)
        /\ p # 0 /\ i.side = "SELL" => p = BidOrLast(q)
    BY FillPriceFacts
  <2> HIDE DEF d, t, w, p
  <2>8. CASE p = 0
    <3> HIDE DEF r
    <3>1. c = w /\ r = ReservedCash(i, 0) /\ i.limit # 0
      BY <2>6, <2>7, <2>8, <1>3
    <3> QED BY <3>1, <2>1, <2>2, <2>4, <2>5 DEF SameMoney
  <2>9. CASE p # 0
    <3> DEFINE sb == SettleBuy(w, o, p)
               ss == SettleSell(w, o, p)
    <3>1. c = ApplyFill(w, o, p) /\ w.intent[o] = i
      BY <2>6, <2>9, <2>5
    <3>2. /\ c \in Books /\ c.intent = w.intent
          /\ c.status = [w.status EXCEPT ![o] = "FILLED"]
          /\ i.side = "BUY" => SameMoney(sb, c)
          /\ i.side = "SELL" => SameMoney(ss, c)
      BY <3>1, <2>4, <2>7, ApplyFillType
    <3>3. c.intent = b.intent /\ c.status = [b.status EXCEPT ![o] = "FILLED"]
      BY <3>2, <2>5, <1>1
    <3>4. CASE i.side = "BUY"
      <4> DEFINE cost == WithCommission(i.qty, p)
      <4>1. p = ask /\ ReservedCash(i, p) = r
        BY <2>7, <2>9, <3>4
      <4>2. /\ sb.frozen = w.frozen - ReservedCash(i, p)
            /\ sb.cash = w.cash + (ReservedCash(i, p) - cost)
        <5>1. sb = SettleBuy(w, o, p) /\ cost = WithCommission(i.qty, p)
          OBVIOUS
        <5> HIDE DEF sb, cost
        <5> QED BY <5>1, <3>1, <2>4, <2>7, SettleBuyType
      <4>3. cost <= r /\ cost \in Nat
        <5>1. CASE i.limit = 0
          BY <5>1, <4>1, <1>3 DEF ReservedCash
        <5>2. CASE i.limit # 0
          BY <5>2, <2>7, <2>9, <3>4, <1>1, AmountMonotone, AmountType DEF ReservedCash
        <5> QED BY <5>1, <5>2
      <4> HIDE DEF cost, r, sb
      <4>4. c.frozen = sb.frozen /\ c.cash = sb.cash /\ w.frozen = d.frozen /\ w.cash = d.cash
            /\ d.cash = b.cash - r /\ d.frozen = b.frozen + r /\ b.cash >= r
        BY <3>2, <3>4, <2>5, <2>1, <2>2 DEF SameMoney
      <4>5. c.frozen = b.frozen /\ c.cash >= 0
        BY <4>1, <4>2, <4>3, <4>4, <1>1, <1>3
      <4> QED BY <4>5, <3>2, <3>3, <3>4
    <3>5. CASE i.side = "SELL"
      <4>1. p = BidOrLast(q)
        BY <2>7, <2>9, <3>5
      <4>2. ss.frozen = w.frozen /\ ss.cash = w.cash + (Gross(i.qty, p) - Commission(i.qty, p))
        <5>1. ss = SettleSell(w, o, p)
          OBVIOUS
        <5> HIDE DEF ss
        <5> QED BY <5>1, <3>1, <2>4, <2>7, SettleSellType
      <4> HIDE DEF ss
      <4>3. c.frozen = ss.frozen /\ c.cash = ss.cash /\ w.frozen = b.frozen /\ w.cash = b.cash
        BY <3>2, <3>5, <2>5, <2>1 DEF SameMoney
      <4> QED BY <4>1, <4>2, <4>3, <3>2, <3>3, <3>5
    <3> QED BY <3>4, <3>5, <1>1 DEF OrderSide
  <2> QED BY <2>8, <2>9
<1> QED BY <1>5, <1>6

(* The fill of a waiting order: its reservation is released. *)
LEMMA FillWaitingType ==
    ASSUME NEW b \in Books, NEW o \in OrderIds, NEW q \in MarketQuotes,
           b.intent[o] \in OrderIntents,
           NEW i, i = b.intent[o], i.limit # 0,
           NEW p, p = FillPrice(i, q), p # 0,
           NEW c, c = ApplyFill(b, o, p)
    PROVE  /\ c \in Books /\ c.intent = b.intent
           /\ c.status = [b.status EXCEPT ![o] = "FILLED"]
           /\ i.side = "BUY" =>
                /\ c.frozen = b.frozen - ReservedCash(i, 0)
                /\ c.cash >= b.cash
           /\ i.side = "SELL" =>
                /\ c.frozen = b.frozen
                /\ c.cash = b.cash + (Gross(i.qty, BidOrLast(q)) - Commission(i.qty, BidOrLast(q)))
<1>1. i.side \in OrderSide /\ i.qty \in Nat /\ i.limit \in Nat /\ b.cash \in Int /\ b.frozen \in Int
  BY IntentType DEF Books
<1>2. /\ p \in Nat
      /\ i.side = "BUY" => p <= i.limit
      /\ i.side = "SELL" => p = BidOrLast(q)
  BY FillPriceFacts
<1>3. /\ c \in Books /\ c.intent = b.intent
      /\ c.status = [b.status EXCEPT ![o] = "FILLED"]
      /\ i.side = "BUY" => SameMoney(SettleBuy(b, o, p), c)
      /\ i.side = "SELL" => SameMoney(SettleSell(b, o, p), c)
  BY <1>2, ApplyFillType
<1>4. CASE i.side = "BUY"
  <2> DEFINE r == ReservedCash(i, 0)
             cost == WithCommission(i.qty, p)
  <2>1. r \in Nat /\ cost \in Nat /\ cost <= r /\ ReservedCash(i, p) = r
    BY <1>1, <1>2, <1>4, AmountMonotone, AmountType DEF ReservedCash
  <2>2. c.frozen = b.frozen - ReservedCash(i, p) /\ c.cash = b.cash + (ReservedCash(i, p) - cost)
    <3> DEFINE z == SettleBuy(b, o, p)
    <3>1. z = SettleBuy(b, o, p) /\ cost = WithCommission(i.qty, p) /\ SameMoney(z, c)
      BY <1>3, <1>4
    <3> HIDE DEF z, cost, r
    <3>2. z.frozen = b.frozen - ReservedCash(i, p) /\ z.cash = b.cash + (ReservedCash(i, p) - cost)
      BY <3>1, <1>2, SettleBuyType
    <3> QED BY <3>1, <3>2 DEF SameMoney
  <2> HIDE DEF r, cost
  <2>3. c.frozen = b.frozen - r /\ c.cash >= b.cash
    BY <2>1, <2>2, <1>1
  <2> QED BY <2>3, <1>3, <1>4 DEF r
<1>5. CASE i.side = "SELL"
  <2> DEFINE z == SettleSell(b, o, p)
  <2>1. z = SettleSell(b, o, p) /\ SameMoney(z, c)
    BY <1>3, <1>5
  <2> HIDE DEF z
  <2>2. z.frozen = b.frozen /\ z.cash = b.cash + (Gross(i.qty, p) - Commission(i.qty, p))
    BY <2>1, <1>2, SettleSellType
  <2> QED BY <2>1, <2>2, <1>2, <1>3, <1>5 DEF SameMoney
<1> QED BY <1>1, <1>4, <1>5 DEF OrderSide

(* cancel_order of a waiting order: its reservation is returned. *)
LEMMA CancelType ==
    ASSUME NEW b \in Books, NEW o \in OrderIds,
           b.intent[o] \in OrderIntents,
           NEW i, i = b.intent[o],
           NEW c, c = CancelOrder(b, o)
    PROVE  /\ c \in Books /\ c.intent = b.intent
           /\ c.status = [b.status EXCEPT ![o] = "CANCELLED"]
           /\ i.side = "BUY" =>
                /\ c.cash = b.cash + ReservedCash(i, 0)
                /\ c.frozen = b.frozen - ReservedCash(i, 0)
           /\ i.side = "SELL" => SameMoney(b, c)
<1> DEFINE t == TransitionOrder(b, o, "CANCEL_PENDING")
           d == ReleaseResources(t, o)
           u == TransitionOrder(d, o, "CANCELLED")
<1>0. b.status \in [OrderIds -> OrderStatus \cup {NoRow}] /\ o \in Nat
  BY DEF Books, OrderIds
<1>1. "CANCEL_PENDING" \in OrderStatus /\ "CANCELLED" \in OrderStatus /\ "ORDER_CANCELLED" \in OutboxEvents
  BY DEF OrderStatus, OutboxEvents
<1>2. t \in Books /\ t.intent = b.intent /\ t.status = [b.status EXCEPT ![o] = "CANCEL_PENDING"]
      /\ SameMoney(b, t)
  BY <1>1, TransitionType
<1>3. /\ d \in Books /\ SameRows(t, d)
      /\ i.side = "BUY" => d.cash = t.cash + ReservedCash(i, 0) /\ d.frozen = t.frozen - ReservedCash(i, 0)
      /\ i.side = "SELL" => SameMoney(t, d)
  <2>1. d = ReleaseResources(t, o) /\ i = t.intent[o]
    BY <1>2
  <2> HIDE DEF t, d
  <2> QED BY <1>2, <2>1, ReleaseType
<1>4. u \in Books /\ u.intent = d.intent /\ u.status = [d.status EXCEPT ![o] = "CANCELLED"]
      /\ SameMoney(d, u)
  <2> HIDE DEF d
  <2> QED BY <1>1, <1>3, TransitionType
<1>5. c = EnqueueEvent(u, "ORDER_CANCELLED", o)
  BY DEF CancelOrder
<1>6. c \in Books /\ SameRows(u, c) /\ SameMoney(u, c)
  <2> HIDE DEF u
  <2> QED BY <1>0, <1>1, <1>4, <1>5, EnqueueType
<1> HIDE DEF t, d, u
<1>7. c.intent = b.intent /\ c.status = [b.status EXCEPT ![o] = "CANCELLED"]
  BY <1>0, <1>2, <1>3, <1>4, <1>6 DEF SameRows
<1> QED BY <1>2, <1>3, <1>4, <1>6, <1>7 DEF SameMoney

(* run_risk_check moves the order to one of two statuses. *)
LEMMA RiskCheckType ==
    ASSUME NEW b \in Books, NEW o \in OrderIds, NEW q, NEW open,
           NEW c, c = RunRiskCheck(b, o, q, open)
    PROVE  /\ c \in Books /\ c.intent = b.intent /\ SameMoney(b, c)
           /\ \/ c.status = [b.status EXCEPT ![o] = "RISK_APPROVED"]
              \/ c.status = [b.status EXCEPT ![o] = "RISK_REJECTED"]
<1> DEFINE t == TransitionOrder(b, o, "RISK_APPROVED")
<1>1. "RISK_APPROVED" \in OrderStatus /\ "RISK_REJECTED" \in OrderStatus
      /\ "ORDER_READY_TO_SUBMIT" \in OutboxEvents /\ o \in Nat
  BY DEF OrderStatus, OutboxEvents, OrderIds
<1>2. CASE RiskApproves(b, o, q, open)
  <2>1. c = EnqueueEvent(t, "ORDER_READY_TO_SUBMIT", o)
    BY <1>2 DEF RunRiskCheck
  <2>2. t \in Books /\ t.intent = b.intent /\ SameMoney(b, t)
        /\ t.status = [b.status EXCEPT ![o] = "RISK_APPROVED"]
    BY <1>1, TransitionType
  <2> HIDE DEF t
  <2>3. c \in Books /\ SameRows(t, c) /\ SameMoney(t, c)
    BY <1>1, <2>1, <2>2, EnqueueType
  <2> QED BY <2>2, <2>3 DEF SameRows, SameMoney
<1>3. CASE ~RiskApproves(b, o, q, open)
  <2>1. c = TransitionOrder(b, o, "RISK_REJECTED")
    BY <1>3 DEF RunRiskCheck
  <2> QED BY <2>1, <1>1, TransitionType
<1> QED BY <1>2, <1>3

-----------------------------------------------------------------------------
(* The inductive invariant. *)

USE InputAssumption

(* Only orders with a limit wait, so the limit prices every reservation. *)
WaitingHasLimit(b) ==
    \A o \in OrderIds : b.status[o] = "SUBMITTED" => b.intent[o].limit # 0

(* A created order has an intent. *)
RowsHaveIntents(b) ==
    \A o \in OrderIds : b.status[o] # NoRow => b.intent[o] \in Intents

(* The loop of process_quote runs over waiting orders with a real quote. *)
ScanIsLive ==
    /\ \A o \in scan.todo : book.status[o] = "SUBMITTED"
    /\ scan.todo # {} => scan.quote \in Quotes

(* A book whose frozen cash is what its waiting buy orders hold. *)
FrozenExact(b) == b.frozen = SumTo(HeldCash(b), MaxOrders)

BookInv(b) ==
    /\ b \in Books
    /\ RowsHaveIntents(b)
    /\ WaitingHasLimit(b)
    /\ FrozenExact(b)

IInv ==
    /\ BookInv(book)
    /\ scan \in [quote : Quotes \cup {NoScan.quote}, todo : SUBSET OrderIds]
    /\ ScanIsLive

(* What orders hold is never negative. *)
LEMMA HeldType ==
    ASSUME NEW b \in Books, RowsHaveIntents(b)
    PROVE  /\ HeldCash(b) \in [1..MaxOrders -> Int]
           /\ \A o \in 1..MaxOrders : HeldCash(b)[o] >= 0
<1>1. ASSUME NEW o \in OrderIds
      PROVE  (IF b.status[o] = "SUBMITTED" /\ b.intent[o].side = "BUY"
              THEN ReservedCash(b.intent[o], 0) ELSE 0) \in Nat
  <2>1. b.status[o] = "SUBMITTED" => b.intent[o] \in Intents
    BY DEF RowsHaveIntents, NoRow
  <2>2. b.intent[o] \in Intents => ReservedCash(b.intent[o], 0) \in Nat
    BY ReservedType
  <2> QED BY <2>1, <2>2
<1> QED BY <1>1 DEF HeldCash, OrderIds

(* A step on one order changes the held cash by what that order holds. *)
LEMMA HeldUpdate ==
    ASSUME NEW b \in Books, RowsHaveIntents(b), NEW c \in Books, RowsHaveIntents(c),
           NEW o \in OrderIds,
           \A p \in OrderIds \ {o} : c.status[p] = b.status[p] /\ c.intent[p] = b.intent[p]
    PROVE  SumTo(HeldCash(c), MaxOrders)
             = SumTo(HeldCash(b), MaxOrders) + (HeldCash(c)[o] - HeldCash(b)[o])
<1>1. /\ HeldCash(b) \in [1..MaxOrders -> Int]
      /\ HeldCash(c) \in [1..MaxOrders -> Int]
  BY HeldType
<1>2. \A p \in 1..MaxOrders : p # o => HeldCash(c)[p] = HeldCash(b)[p]
  BY DEF HeldCash, OrderIds
<1>3. MaxOrders \in Nat /\ o \in 1..MaxOrders
  BY BookAssumption DEF OrderIds
<1> QED BY <1>1, <1>2, <1>3, SumToUpdate

(* A step on one order keeps the book's invariant when the frozen cash      *)
(* moves by what that order holds.                                          *)
LEMMA StepKeepsBook ==
    ASSUME NEW b, BookInv(b), NEW c \in Books, NEW o \in OrderIds, NEW st \in OrderStatus,
           SameOthers(b, c, o), c.status[o] = st,
           c.intent[o] \in Intents,
           st = "SUBMITTED" => c.intent[o].limit # 0,
           c.frozen = b.frozen + (HeldCash(c)[o] - HeldCash(b)[o])
    PROVE  BookInv(c)
<1>1. /\ b \in Books /\ RowsHaveIntents(b) /\ WaitingHasLimit(b) /\ FrozenExact(b)
      /\ b.status \in [OrderIds -> OrderStatus \cup {NoRow}]
      /\ b.intent \in [OrderIds -> OrderIntents \cup {NoIntent}]
  BY DEF BookInv, Books
<1>2. /\ \A p \in OrderIds \ {o} : c.status[p] = b.status[p] /\ c.intent[p] = b.intent[p]
      /\ c.status[o] = st
  BY <1>1 DEF SameOthers
<1>3. RowsHaveIntents(c)
  BY <1>1, <1>2 DEF RowsHaveIntents
<1>4. WaitingHasLimit(c)
  BY <1>1, <1>2 DEF WaitingHasLimit
<1>5. SumTo(HeldCash(c), MaxOrders)
        = SumTo(HeldCash(b), MaxOrders) + (HeldCash(c)[o] - HeldCash(b)[o])
  BY <1>1, <1>2, <1>3, HeldUpdate
<1>6. FrozenExact(c)
  BY <1>1, <1>5 DEF FrozenExact
<1> QED BY <1>3, <1>4, <1>6 DEF BookInv

(* The initial state satisfies the invariant. *)
LEMMA InitInv == Init => IInv
<1> SUFFICES ASSUME Init PROVE IInv
  OBVIOUS
<1> DEFINE b == EmptyBook
<1>1. book = b /\ scan = NoScan
  BY DEF Init
<1>2. /\ InitCash \in Int /\ InitQty \in Nat /\ InitCost \in Int
      /\ InitCash + NSymbols * InitCost \in Int
  BY BookAssumption
<1>3. b \in Books
  <2>1. << >> \in Seq(OrderStatus)
        /\ << >> \in Seq([price : Nat, amount : Int, balance : Int])
    OBVIOUS
  <2> QED BY <1>2, <2>1 DEF EmptyBook, Books
<1>4. \A o \in OrderIds : b.status[o] = NoRow
  BY DEF EmptyBook
<1>5. RowsHaveIntents(b) /\ WaitingHasLimit(b)
  BY <1>4 DEF RowsHaveIntents, WaitingHasLimit, NoRow
<1>6. FrozenExact(b)
  <2>1. HeldCash(b) \in [1..MaxOrders -> Int] /\ MaxOrders \in Nat
    BY <1>3, <1>5, HeldType, BookAssumption
  <2>2. \A o \in 1..MaxOrders : HeldCash(b)[o] = 0
    BY <1>4 DEF HeldCash, OrderIds, NoRow
  <2>3. SumTo(HeldCash(b), MaxOrders) = 0
    BY <2>1, <2>2, SumToZero
  <2>4. b.frozen = 0
    BY DEF EmptyBook
  <2> QED BY <2>3, <2>4 DEF FrozenExact
<1>7. scan \in [quote : Quotes \cup {NoScan.quote}, todo : SUBSET OrderIds] /\ ScanIsLive
  BY <1>1 DEF NoScan, ScanIsLive
<1> HIDE DEF b
<1> QED BY <1>1, <1>3, <1>5, <1>6, <1>7 DEF IInv, BookInv

(* A commission never exceeds the proceeds of the sale it is charged on:    *)
(* a condition on the fees, the intents and the quotes.                     *)
FeesCovered ==
    \A i \in Intents, q \in Quotes :
        i.side = "SELL" => Commission(i.qty, BidOrLast(q)) <= Gross(i.qty, BidOrLast(q))

(* A step keeps the cash: what a book with cash may lead to. *)
KeepsCash(b, c) == FeesCovered /\ b.cash >= 0 => c.cash >= 0

(* What order o holds, from its row. *)
LEMMA HeldAt ==
    ASSUME NEW b, NEW o \in OrderIds
    PROVE  HeldCash(b)[o] = IF b.status[o] = "SUBMITTED" /\ b.intent[o].side = "BUY"
                            THEN ReservedCash(b.intent[o], 0) ELSE 0
BY DEF HeldCash

(* create_order_from_intent on a book of the invariant. *)
LEMMA CreateKeeps ==
    ASSUME NEW b, BookInv(b), NEW o \in OrderIds, b.status[o] = NoRow, NEW i \in Intents,
           NEW c, c = CreateOrder(b, o, i)
    PROVE  BookInv(c) /\ KeepsCash(b, c)
<1>1. b \in Books /\ b.frozen \in Int /\ b.intent \in [OrderIds -> OrderIntents \cup {NoIntent}]
      /\ b.status \in [OrderIds -> OrderStatus \cup {NoRow}]
  BY DEF BookInv, Books
<1>2. /\ c \in Books /\ SameMoney(b, c)
      /\ c.status = [b.status EXCEPT ![o] = "CREATED"]
      /\ c.intent = [b.intent EXCEPT ![o] = i]
  BY <1>1, CreateType
<1>3. c.intent[o] = i /\ c.status[o] = "CREATED" /\ "CREATED" \in OrderStatus
      /\ SameOthers(b, c, o)
  BY <1>1, <1>2 DEF OrderStatus, SameOthers
<1>4. HeldCash(c)[o] = 0 /\ HeldCash(b)[o] = 0
  BY <1>3, HeldAt DEF NoRow
<1>5. c.frozen = b.frozen + (HeldCash(c)[o] - HeldCash(b)[o]) /\ c.cash = b.cash
  BY <1>1, <1>2, <1>4 DEF SameMoney
<1>6. BookInv(c)
  BY <1>2, <1>3, <1>5, StepKeepsBook
<1> QED BY <1>5, <1>6 DEF KeepsCash

(* run_risk_check on a book of the invariant. *)
LEMMA RiskCheckKeeps ==
    ASSUME NEW b, BookInv(b), NEW o \in OrderIds, b.status[o] = "CREATED",
           NEW q, NEW open, NEW c, c = RunRiskCheck(b, o, q, open)
    PROVE  BookInv(c) /\ KeepsCash(b, c)
<1>1. b \in Books /\ b.frozen \in Int /\ b.status \in [OrderIds -> OrderStatus \cup {NoRow}]
      /\ b.intent[o] \in Intents
  BY DEF BookInv, Books, RowsHaveIntents, NoRow
<1>2. /\ c \in Books /\ c.intent = b.intent /\ SameMoney(b, c)
      /\ \/ c.status = [b.status EXCEPT ![o] = "RISK_APPROVED"]
         \/ c.status = [b.status EXCEPT ![o] = "RISK_REJECTED"]
  BY <1>1, RiskCheckType
<1>3. PICK st \in {"RISK_APPROVED", "RISK_REJECTED"} : c.status = [b.status EXCEPT ![o] = st]
  BY <1>2
<1>4. st \in OrderStatus /\ st # "SUBMITTED" /\ c.status[o] = st /\ SameOthers(b, c, o)
  BY <1>1, <1>2, <1>3 DEF OrderStatus, SameOthers
<1>5. HeldCash(c)[o] = 0 /\ HeldCash(b)[o] = 0
  BY <1>4, HeldAt
<1>6. c.frozen = b.frozen + (HeldCash(c)[o] - HeldCash(b)[o]) /\ c.cash = b.cash
  BY <1>1, <1>2, <1>5 DEF SameMoney
<1>7. BookInv(c)
  BY <1>1, <1>2, <1>4, <1>6, StepKeepsBook
<1> QED BY <1>6, <1>7 DEF KeepsCash

(* submit_order on a book of the invariant. *)
LEMMA SubmitKeeps ==
    ASSUME NEW b, BookInv(b), NEW o \in OrderIds, b.status[o] = "RISK_APPROVED",
           NEW q \in Quotes, NEW c, c = SubmitOrder(b, o, q)
    PROVE  BookInv(c) /\ KeepsCash(b, c)
<1> DEFINE i == b.intent[o]
<1>1. b \in Books /\ b.frozen \in Int /\ b.cash \in Int
      /\ b.status \in [OrderIds -> OrderStatus \cup {NoRow}] /\ i \in Intents
  BY DEF BookInv, Books, RowsHaveIntents, NoRow
<1>2. i.side \in {"BUY", "SELL"} /\ i.qty \in Nat /\ ReservedCash(i, 0) \in Nat
  BY <1>1, IntentType, ReservedType DEF OrderSide
<1>3. HeldCash(b)[o] = 0
  BY HeldAt
<1>4. i = b.intent[o]
  OBVIOUS
<1> HIDE DEF i
<1>5. /\ c \in Books /\ c.intent = b.intent
      /\ \/ /\ c.status = [b.status EXCEPT ![o] = "FAILED"]
            /\ SameMoney(b, c)
         \/ /\ c.status = [b.status EXCEPT ![o] = "SUBMITTED"]
            /\ i.limit # 0
            /\ i.side = "BUY" =>
                 /\ b.cash >= ReservedCash(i, 0)
                 /\ c.cash = b.cash - ReservedCash(i, 0)
                 /\ c.frozen = b.frozen + ReservedCash(i, 0)
            /\ i.side = "SELL" => SameMoney(b, c)
         \/ /\ c.status = [b.status EXCEPT ![o] = "FILLED"]
            /\ c.frozen = b.frozen
            /\ i.side = "BUY" => c.cash >= 0
            /\ i.side = "SELL" =>
                 c.cash = b.cash + (Gross(i.qty, BidOrLast(q)) - Commission(i.qty, BidOrLast(q)))
  BY <1>1, <1>4, SubmitType
<1>6. CASE c.status = [b.status EXCEPT ![o] = "FAILED"] /\ SameMoney(b, c)
  <2>1. c.status[o] = "FAILED" /\ "FAILED" \in OrderStatus /\ SameOthers(b, c, o)
        /\ c.intent[o] = i
    BY <1>1, <1>4, <1>5, <1>6 DEF OrderStatus, SameOthers
  <2>2. HeldCash(c)[o] = 0
    BY <2>1, HeldAt
  <2>3. c.frozen = b.frozen + (HeldCash(c)[o] - HeldCash(b)[o]) /\ c.cash = b.cash
    BY <1>1, <1>3, <1>6, <2>2 DEF SameMoney
  <2>4. BookInv(c)
    BY <1>1, <1>5, <2>1, <2>3, StepKeepsBook
  <2> QED BY <2>3, <2>4 DEF KeepsCash
<1>7. CASE /\ c.status = [b.status EXCEPT ![o] = "SUBMITTED"]
           /\ i.limit # 0
           /\ i.side = "BUY" =>
                 /\ b.cash >= ReservedCash(i, 0)
                 /\ c.cash = b.cash - ReservedCash(i, 0)
                 /\ c.frozen = b.frozen + ReservedCash(i, 0)
           /\ i.side = "SELL" => SameMoney(b, c)
  <2>1. c.status[o] = "SUBMITTED" /\ "SUBMITTED" \in OrderStatus /\ SameOthers(b, c, o)
        /\ c.intent[o] = i
    BY <1>1, <1>4, <1>5, <1>7 DEF OrderStatus, SameOthers
  <2>2. HeldCash(c)[o] = IF i.side = "BUY" THEN ReservedCash(i, 0) ELSE 0
    BY <2>1, <1>4, <1>5, HeldAt
  <2>3. c.frozen = b.frozen + (HeldCash(c)[o] - HeldCash(b)[o]) /\ (b.cash >= 0 => c.cash >= 0)
    BY <1>1, <1>2, <1>3, <1>7, <2>2 DEF SameMoney
  <2>4. BookInv(c)
    BY <1>1, <1>5, <1>7, <2>1, <2>3, StepKeepsBook
  <2> QED BY <2>3, <2>4 DEF KeepsCash
<1>8. CASE /\ c.status = [b.status EXCEPT ![o] = "FILLED"]
           /\ c.frozen = b.frozen
           /\ i.side = "BUY" => c.cash >= 0
           /\ i.side = "SELL" =>
                 c.cash = b.cash + (Gross(i.qty, BidOrLast(q)) - Commission(i.qty, BidOrLast(q)))
  <2>1. c.status[o] = "FILLED" /\ "FILLED" \in OrderStatus /\ SameOthers(b, c, o)
        /\ c.intent[o] = i
    BY <1>1, <1>4, <1>5, <1>8 DEF OrderStatus, SameOthers
  <2>2. HeldCash(c)[o] = 0
    BY <2>1, HeldAt
  <2>3. c.frozen = b.frozen + (HeldCash(c)[o] - HeldCash(b)[o])
    BY <1>1, <1>3, <1>8, <2>2
  <2>4. BookInv(c)
    BY <1>1, <1>5, <2>1, <2>3, StepKeepsBook
  <2>5. KeepsCash(b, c)
    <3>0. BidOrLast(q) \in Nat
      BY QuoteType
    <3>1. Gross(i.qty, BidOrLast(q)) \in Nat /\ Commission(i.qty, BidOrLast(q)) \in Nat
      BY <1>2, <3>0, AmountType, Zenon
    <3> QED BY <1>1, <1>2, <1>8, <3>1 DEF KeepsCash, FeesCovered
  <2> QED BY <2>4, <2>5
<1> QED BY <1>5, <1>6, <1>7, <1>8

(* _apply_fill of a waiting order, on a book of the invariant. *)
LEMMA FillKeeps ==
    ASSUME NEW b, BookInv(b), NEW o \in OrderIds, b.status[o] = "SUBMITTED",
           NEW q \in Quotes,
           NEW p, p = FillPrice(b.intent[o], q), p # 0,
           NEW c, c = ApplyFill(b, o, p)
    PROVE  BookInv(c) /\ KeepsCash(b, c) /\ c.status[o] = "FILLED" /\ SameOthers(b, c, o)
<1> DEFINE i == b.intent[o]
<1>1. b \in Books /\ b.frozen \in Int /\ b.cash \in Int
      /\ b.status \in [OrderIds -> OrderStatus \cup {NoRow}] /\ i \in Intents /\ i.limit # 0
  BY DEF BookInv, Books, RowsHaveIntents, WaitingHasLimit, NoRow
<1>2. i.side \in {"BUY", "SELL"} /\ i.qty \in Nat /\ ReservedCash(i, 0) \in Nat
  BY <1>1, IntentType, ReservedType DEF OrderSide
<1>3. HeldCash(b)[o] = IF i.side = "BUY" THEN ReservedCash(i, 0) ELSE 0
  BY HeldAt
<1>4. i = b.intent[o]
  OBVIOUS
<1> HIDE DEF i
<1>5. /\ c \in Books /\ c.intent = b.intent
      /\ c.status = [b.status EXCEPT ![o] = "FILLED"]
      /\ i.side = "BUY" =>
           /\ c.frozen = b.frozen - ReservedCash(i, 0)
           /\ c.cash >= b.cash
      /\ i.side = "SELL" =>
           /\ c.frozen = b.frozen
           /\ c.cash = b.cash + (Gross(i.qty, BidOrLast(q)) - Commission(i.qty, BidOrLast(q)))
  BY <1>1, <1>4, FillWaitingType
<1>6. c.status[o] = "FILLED" /\ "FILLED" \in OrderStatus /\ SameOthers(b, c, o)
      /\ c.intent[o] = i
  BY <1>1, <1>4, <1>5 DEF OrderStatus, SameOthers
<1>7. HeldCash(c)[o] = 0
  BY <1>6, HeldAt
<1>8. c.frozen = b.frozen + (HeldCash(c)[o] - HeldCash(b)[o])
  BY <1>1, <1>2, <1>3, <1>5, <1>7
<1>9. BookInv(c)
  BY <1>1, <1>5, <1>6, <1>8, StepKeepsBook
<1>10. KeepsCash(b, c)
  <2>1. BidOrLast(q) \in Nat
    BY QuoteType
  <2>2. Gross(i.qty, BidOrLast(q)) \in Nat /\ Commission(i.qty, BidOrLast(q)) \in Nat
    BY <1>2, <2>1, AmountType, Zenon
  <2>3. c.cash \in Int
    BY <1>5 DEF Books
  <2> QED BY <1>1, <1>2, <1>5, <2>2, <2>3 DEF KeepsCash, FeesCovered
<1> QED BY <1>6, <1>9, <1>10

(* cancel_order on a book of the invariant. *)
LEMMA CancelKeeps ==
    ASSUME NEW b, BookInv(b), NEW o \in OrderIds, b.status[o] = "SUBMITTED",
           NEW c, c = CancelOrder(b, o)
    PROVE  BookInv(c) /\ KeepsCash(b, c)
<1> DEFINE i == b.intent[o]
<1>1. b \in Books /\ b.frozen \in Int /\ b.cash \in Int
      /\ b.status \in [OrderIds -> OrderStatus \cup {NoRow}] /\ i \in Intents
  BY DEF BookInv, Books, RowsHaveIntents, NoRow
<1>2. i.side \in {"BUY", "SELL"} /\ ReservedCash(i, 0) \in Nat
  BY <1>1, IntentType, ReservedType DEF OrderSide
<1>3. HeldCash(b)[o] = IF i.side = "BUY" THEN ReservedCash(i, 0) ELSE 0
  BY HeldAt
<1>4. i = b.intent[o]
  OBVIOUS
<1> HIDE DEF i
<1>5. /\ c \in Books /\ c.intent = b.intent
      /\ c.status = [b.status EXCEPT ![o] = "CANCELLED"]
      /\ i.side = "BUY" =>
           /\ c.cash = b.cash + ReservedCash(i, 0)
           /\ c.frozen = b.frozen - ReservedCash(i, 0)
      /\ i.side = "SELL" => SameMoney(b, c)
  BY <1>1, <1>4, CancelType
<1>6. c.status[o] = "CANCELLED" /\ "CANCELLED" \in OrderStatus /\ SameOthers(b, c, o)
      /\ c.intent[o] = i
  BY <1>1, <1>4, <1>5 DEF OrderStatus, SameOthers
<1>7. HeldCash(c)[o] = 0
  BY <1>6, HeldAt
<1>8. c.frozen = b.frozen + (HeldCash(c)[o] - HeldCash(b)[o]) /\ (b.cash >= 0 => c.cash >= 0)
  BY <1>1, <1>2, <1>3, <1>5, <1>7 DEF SameMoney
<1>9. BookInv(c)
  BY <1>1, <1>5, <1>6, <1>8, StepKeepsBook
<1> QED BY <1>8, <1>9 DEF KeepsCash

(* Forgetting the age of an order changes nothing the invariant reads. *)
LEMMA ClockKeeps ==
    ASSUME NEW b, BookInv(b), NEW c \in Books,
           c.status = b.status, c.intent = b.intent, c.cash = b.cash, c.frozen = b.frozen
    PROVE  BookInv(c) /\ KeepsCash(b, c)
<1>1. HeldCash(c) = HeldCash(b)
  BY DEF HeldCash
<1> QED BY <1>1 DEF BookInv, RowsHaveIntents, WaitingHasLimit, FrozenExact, KeepsCash

(* Every step of the specification preserves the invariant. *)
LEMMA NextInv == IInv /\ [Next]_vars => IInv' /\ KeepsCash(book, book')
<1> SUFFICES ASSUME IInv, [Next]_vars
             PROVE  IInv' /\ KeepsCash(book, book')
  OBVIOUS
<1> DEFINE ScanType(x) == x \in [quote : Quotes \cup {NoScan.quote}, todo : SUBSET OrderIds]
<1>1. BookInv(book) /\ ScanType(scan) /\ ScanIsLive
  BY DEF IInv
<1>2. ASSUME BookInv(book'), KeepsCash(book, book'), Idle, scan' = scan
      PROVE  IInv' /\ KeepsCash(book, book')
  <2>1. ScanIsLive' /\ ScanType(scan')
    BY <1>1, <1>2 DEF Idle, ScanIsLive
  <2>2. BookInv(book)'
    BY <1>2 DEF BookInv, RowsHaveIntents, WaitingHasLimit, FrozenExact
  <2> QED BY <1>2, <2>1, <2>2 DEF IInv
<1>3. ASSUME NEW i \in Intents, Create(i)
      PROVE  IInv' /\ KeepsCash(book, book')
  <2>1. PICK o \in OrderIds \ Created(book) : book' = CreateOrder(book, o, i)
    BY <1>3 DEF Create
  <2>2. book.status[o] = NoRow
    BY DEF Created
  <2>3. BookInv(book') /\ KeepsCash(book, book')
    BY <1>1, <2>1, <2>2, CreateKeeps
  <2> QED BY <1>2, <1>3, <2>3 DEF Create
<1>4. ASSUME NEW o \in OrderIds, NEW q \in Quotes, NEW open \in BOOLEAN, RiskCheck(o, q, open)
      PROVE  IInv' /\ KeepsCash(book, book')
  <2>1. BookInv(book') /\ KeepsCash(book, book')
    BY <1>1, <1>4, RiskCheckKeeps DEF RiskCheck
  <2> QED BY <1>2, <1>4, <2>1 DEF RiskCheck
<1>5. ASSUME NEW o \in OrderIds, NEW q \in Quotes, Submit(o, q)
      PROVE  IInv' /\ KeepsCash(book, book')
  <2>1. BookInv(book') /\ KeepsCash(book, book')
    BY <1>1, <1>5, SubmitKeeps DEF Submit
  <2> QED BY <1>2, <1>5, <2>1 DEF Submit
<1>6. ASSUME NEW q \in Quotes, ProcessQuote(q)
      PROVE  IInv' /\ KeepsCash(book, book')
  <2>1. book' = book
    BY <1>6 DEF ProcessQuote
  <2>2. scan' = [quote |-> q,
                 todo |-> {o \in OrderIds : /\ book.status[o] = "SUBMITTED"
                                            /\ book.intent[o].symbol = q.symbol}]
    BY <1>6 DEF ProcessQuote
  <2>3. ScanType(scan') /\ ScanIsLive'
    BY <2>1, <2>2 DEF ScanIsLive
  <2>4. BookInv(book)' /\ KeepsCash(book, book')
    BY <1>1, <2>1 DEF BookInv, RowsHaveIntents, WaitingHasLimit, FrozenExact, KeepsCash
  <2> QED BY <2>3, <2>4 DEF IInv
<1>7. ASSUME NEW o \in OrderIds, MatchNext(o)
      PROVE  IInv' /\ KeepsCash(book, book')
  <2> DEFINE p == FillPrice(book.intent[o], scan.quote)
  <2>1. book.status[o] = "SUBMITTED" /\ scan.quote \in Quotes /\ o \in scan.todo
    BY <1>1, <1>7 DEF MatchNext, ScanIsLive
  <2>2. book' = IF p = 0 THEN book ELSE ApplyFill(book, o, p)
    BY <1>7 DEF MatchNext
  <2>3. BookInv(book') /\ KeepsCash(book, book') /\ SameOthers(book, book', o)
    <3>1. CASE p = 0
      <4>1. book' = book
        BY <2>2, <3>1
      <4> QED BY <1>1, <4>1 DEF KeepsCash, SameOthers
    <3>2. CASE p # 0
      <4>1. book' = ApplyFill(book, o, p) /\ p = FillPrice(book.intent[o], scan.quote)
        BY <2>2, <3>2
      <4> HIDE DEF p
      <4> QED BY <1>1, <2>1, <3>2, <4>1, FillKeeps
    <3> QED BY <3>1, <3>2
  <2> HIDE DEF p
  <2>4. scan' = IF scan.todo = {o} THEN NoScan ELSE [scan EXCEPT !.todo = @ \ {o}]
    BY <1>7 DEF MatchNext
  <2>5. ScanType(scan') /\ ScanIsLive'
    <3>1. CASE scan.todo = {o}
      BY <2>4, <3>1 DEF NoScan, ScanIsLive
    <3>2. CASE scan.todo # {o}
      <4>1. ScanType(scan') /\ scan'.todo = scan.todo \ {o} /\ scan'.quote = scan.quote
        BY <1>1, <2>4, <3>2
      <4>2. \A x \in scan'.todo : book'.status[x] = "SUBMITTED"
        BY <1>1, <2>3, <4>1 DEF SameOthers, ScanIsLive
      <4> QED BY <2>1, <4>1, <4>2 DEF ScanIsLive
    <3> QED BY <3>1, <3>2
  <2>6. BookInv(book)'
    BY <2>3 DEF BookInv, RowsHaveIntents, WaitingHasLimit, FrozenExact
  <2> QED BY <2>3, <2>5, <2>6 DEF IInv
<1>8. ASSUME NEW o \in OrderIds, Cancel(o)
      PROVE  IInv' /\ KeepsCash(book, book')
  <2>1. BookInv(book') /\ KeepsCash(book, book')
    BY <1>1, <1>8, CancelKeeps DEF Cancel
  <2> QED BY <1>2, <1>8, <2>1 DEF Cancel
<1>9. ASSUME \E x \in SUBSET OrderIds :
                \/ book' = [book EXCEPT !.fresh = x]
                \/ book' = [book EXCEPT !.today = x],
             Idle, scan' = scan
      PROVE  IInv' /\ KeepsCash(book, book')
  <2>1. /\ book' \in Books /\ book'.status = book.status /\ book'.intent = book.intent
        /\ book'.cash = book.cash /\ book'.frozen = book.frozen
    <3>1. book \in Books
      BY <1>1 DEF BookInv
    <3> QED BY <3>1, <1>9, ZenonT(40) DEF Books
  <2>2. BookInv(book') /\ KeepsCash(book, book')
    BY <1>1, <2>1, ClockKeeps
  <2> QED BY <1>2, <1>9, <2>2
<1>10. book.fresh \in SUBSET OrderIds
  BY <1>1 DEF BookInv, Books
<1>11. ASSUME NEW o \in OrderIds, CooldownElapses(o)
       PROVE  IInv' /\ KeepsCash(book, book')
  BY <1>9, <1>10, <1>11 DEF CooldownElapses
<1>12. CASE NewDay
  BY <1>9, <1>12 DEF NewDay
<1>13. CASE UNCHANGED vars
  <2>1. book' = book /\ scan' = scan
    BY <1>13 DEF vars
  <2> QED BY <1>1, <2>1 DEF IInv, ScanIsLive, BookInv, RowsHaveIntents, WaitingHasLimit,
                            FrozenExact, KeepsCash
<1> QED BY <1>3, <1>4, <1>5, <1>6, <1>7, <1>8, <1>11, <1>12, <1>13 DEF Next

-----------------------------------------------------------------------------
(* What the operators leave as it was. *)

SameClock(b, c) == c.fresh = b.fresh /\ c.today = b.today
SameGains(b, c) == c.realized = b.realized /\ c.equity = b.equity
SameWorth(b, c) == c.basis = b.basis /\ c.mval = b.mval
SameTrail(b, c) == c.status = b.status /\ c.audit = b.audit

(* transition_order. *)
LEMMA TransitionFields ==
    ASSUME NEW b \in Books, NEW o \in OrderIds, NEW to \in OrderStatus,
           NEW c, c = TransitionOrder(b, o, to)
    PROVE  /\ c.status = [b.status EXCEPT ![o] = to]
           /\ c.audit = [b.audit EXCEPT ![o] = Append(b.audit[o], to)]
           /\ c.intent = b.intent /\ c.fills = b.fills /\ c.outbox = b.outbox
           /\ SameClock(b, c) /\ SameMoney(b, c) /\ SameGains(b, c)
           /\ SameShares(b, c) /\ SameWorth(b, c)
<1>1. c = [b EXCEPT !.status = [b.status EXCEPT ![o] = to],
                    !.audit = [b.audit EXCEPT ![o] = Append(b.audit[o], to)]]
  BY DEF TransitionOrder, Books
<1> QED BY <1>1 DEF Books, SameClock, SameMoney, SameGains, SameShares, SameWorth

(* enqueue_event. *)
LEMMA EnqueueFields ==
    ASSUME NEW b \in Books, NEW e, NEW id, NEW c, c = EnqueueEvent(b, e, id)
    PROVE  /\ c.outbox = b.outbox \cup {<<e, id>>}
           /\ c.intent = b.intent /\ c.fills = b.fills
           /\ SameTrail(b, c) /\ SameClock(b, c) /\ SameMoney(b, c) /\ SameGains(b, c)
           /\ SameShares(b, c) /\ SameWorth(b, c)
BY DEF EnqueueEvent, Books, SameTrail, SameClock, SameMoney, SameGains, SameShares, SameWorth

(* create_order_from_intent. *)
LEMMA CreateFields ==
    ASSUME NEW b \in Books, NEW o \in OrderIds, NEW i \in OrderIntents,
           NEW c, c = CreateOrder(b, o, i)
    PROVE  /\ c.audit = [b.audit EXCEPT ![o] = <<"CREATED">>]
           /\ c.today = b.today \cup {o}
           /\ c.fills = b.fills /\ c.outbox = b.outbox
           /\ SameGains(b, c) /\ SameWorth(b, c)
BY DEF CreateOrder, Books, SameGains, SameWorth

(* _reserve_resources moves money within the account, shares within the     *)
(* position.                                                                *)
LEMMA ReserveFields ==
    ASSUME NEW b \in Books, NEW o \in OrderIds, NEW q \in MarketQuotes,
           b.intent[o] \in OrderIntents,
           NEW i, i = b.intent[o],
           NEW c, c = ReserveResources(b, o, q)
    PROVE  /\ c.cash + c.frozen = b.cash + b.frozen
           /\ c.qty = b.qty
           /\ c.avail = IF i.side = "SELL" /\ ~IsBracketOrder(i)
                        THEN [b.avail EXCEPT ![i.symbol] = b.avail[i.symbol] - i.qty]
                        ELSE b.avail
           /\ c.fills = b.fills /\ c.outbox = b.outbox
           /\ SameTrail(b, c) /\ SameClock(b, c) /\ SameGains(b, c) /\ SameWorth(b, c)
<1> DEFINE r == ReservedCash(i, AskOrLast(q))
           a == [b.avail EXCEPT ![i.symbol] = b.avail[i.symbol] - i.qty]
<1>1. /\ b.cash \in Int /\ b.frozen \in Int /\ b.avail \in [Symbols -> Int]
      /\ i.side \in {"BUY", "SELL"} /\ i.symbol \in Symbols
  BY IntentType DEF Books, OrderSide
<1>2. r \in Nat
  BY ReservedType, QuoteType
<1>3. CASE i.side = "BUY"
  <2>1. c = [b EXCEPT !.cash = b.cash - r, !.frozen = b.frozen + r]
    BY <1>3 DEF ReserveResources
  <2> HIDE DEF r
  <2>2. c.cash = b.cash - r /\ c.frozen = b.frozen + r /\ c.qty = b.qty /\ c.avail = b.avail
    BY <2>1 DEF Books
  <2>3. /\ c.fills = b.fills /\ c.outbox = b.outbox
        /\ SameTrail(b, c) /\ SameClock(b, c) /\ SameGains(b, c) /\ SameWorth(b, c)
    BY <2>1 DEF Books, SameTrail, SameClock, SameGains, SameWorth
  <2> QED BY <1>1, <1>2, <1>3, <2>2, <2>3
<1>4. CASE i.side = "SELL" /\ IsBracketOrder(i)
  <2>1. c = b
    BY <1>4 DEF ReserveResources
  <2> QED BY <1>4, <2>1 DEF SameTrail, SameClock, SameGains, SameWorth
<1>5. CASE i.side = "SELL" /\ ~IsBracketOrder(i)
  <2>1. c = [b EXCEPT !.avail = a]
    BY <1>5, <1>1 DEF ReserveResources, Books
  <2> HIDE DEF a
  <2>2. /\ c.avail = a /\ c.cash = b.cash /\ c.frozen = b.frozen /\ c.qty = b.qty
        /\ c.fills = b.fills /\ c.outbox = b.outbox
        /\ SameTrail(b, c) /\ SameClock(b, c) /\ SameGains(b, c) /\ SameWorth(b, c)
    BY <2>1 DEF Books, SameTrail, SameClock, SameGains, SameWorth
  <2> QED BY <1>5, <2>2 DEF a
<1> QED BY <1>1, <1>3, <1>4, <1>5

(* _release_resources moves them back. *)
LEMMA ReleaseFields ==
    ASSUME NEW b \in Books, NEW o \in OrderIds,
           b.intent[o] \in OrderIntents,
           NEW i, i = b.intent[o],
           NEW c, c = ReleaseResources(b, o)
    PROVE  /\ c.cash + c.frozen = b.cash + b.frozen
           /\ c.qty = b.qty
           /\ c.avail = IF i.side = "SELL" /\ ~IsBracketOrder(i)
                        THEN [b.avail EXCEPT ![i.symbol] = b.avail[i.symbol] + i.qty]
                        ELSE b.avail
           /\ c.fills = b.fills /\ c.outbox = b.outbox
           /\ SameTrail(b, c) /\ SameClock(b, c) /\ SameGains(b, c) /\ SameWorth(b, c)
<1> DEFINE r == ReservedCash(i, 0)
           a == [b.avail EXCEPT ![i.symbol] = b.avail[i.symbol] + i.qty]
<1>1. /\ b.cash \in Int /\ b.frozen \in Int /\ b.avail \in [Symbols -> Int]
      /\ i.side \in {"BUY", "SELL"} /\ i.symbol \in Symbols
  BY IntentType DEF Books, OrderSide
<1>2. r \in Nat
  BY ReservedType
<1>3. CASE i.side = "BUY"
  <2>1. c = [b EXCEPT !.cash = b.cash + r, !.frozen = b.frozen - r]
    BY <1>3 DEF ReleaseResources
  <2> HIDE DEF r
  <2>2. c.cash = b.cash + r /\ c.frozen = b.frozen - r /\ c.qty = b.qty /\ c.avail = b.avail
    BY <2>1 DEF Books
  <2>3. /\ c.fills = b.fills /\ c.outbox = b.outbox
        /\ SameTrail(b, c) /\ SameClock(b, c) /\ SameGains(b, c) /\ SameWorth(b, c)
    BY <2>1 DEF Books, SameTrail, SameClock, SameGains, SameWorth
  <2> QED BY <1>1, <1>2, <1>3, <2>2, <2>3
<1>4. CASE i.side = "SELL" /\ IsBracketOrder(i)
  <2>1. c = b
    BY <1>4 DEF ReleaseResources
  <2> QED BY <1>4, <2>1 DEF SameTrail, SameClock, SameGains, SameWorth
<1>5. CASE i.side = "SELL" /\ ~IsBracketOrder(i)
  <2>1. c = [b EXCEPT !.avail = a]
    BY <1>5, <1>1 DEF ReleaseResources, Books
  <2> HIDE DEF a
  <2>2. /\ c.avail = a /\ c.cash = b.cash /\ c.frozen = b.frozen /\ c.qty = b.qty
        /\ c.fills = b.fills /\ c.outbox = b.outbox
        /\ SameTrail(b, c) /\ SameClock(b, c) /\ SameGains(b, c) /\ SameWorth(b, c)
    BY <2>1 DEF Books, SameTrail, SameClock, SameGains, SameWorth
  <2> QED BY <1>5, <2>2 DEF a
<1> QED BY <1>1, <1>3, <1>4, <1>5

(* A ledger row. *)
FillRow == [price : Nat, amount : Int, balance : Int]

(* The books differ by one ledger row of order o, of the given amount. *)
OneRow(b, c, o, amount) ==
    /\ \E row \in FillRow :
          /\ row.amount = amount /\ row.balance = c.cash
          /\ c.fills = [b.fills EXCEPT ![o] = Append(b.fills[o], row)]
    /\ c.cash + c.frozen = b.cash + b.frozen + amount

(* A buy at w, its commission included: what leaves the account is added to *)
(* the position.                                                            *)
Bought(b, c, o, i, w) ==
    /\ w \in Nat
    /\ OneRow(b, c, o, -w)
    /\ c.basis = [b.basis EXCEPT ![i.symbol] = b.basis[i.symbol] + w]
    /\ c.qty = [b.qty EXCEPT ![i.symbol] = b.qty[i.symbol] + i.qty]
    /\ c.avail = [b.avail EXCEPT ![i.symbol] = b.avail[i.symbol] + i.qty]
    /\ c.intent = b.intent /\ c.outbox = b.outbox
    /\ SameTrail(b, c) /\ SameClock(b, c)
    /\ SameGains(b, c) /\ c.mval = b.mval

(* A sell for net, of shares that had cost so much and leave so many.       *)
Sold(b, c, o, i, net, cost, left) ==
    /\ net \in Int /\ cost \in Int /\ left \in Int
    /\ OneRow(b, c, o, net)
    /\ c.realized = b.realized + (net - cost)
    /\ c.basis = [b.basis EXCEPT ![i.symbol] = IF left <= 0 THEN 0
                                               ELSE b.basis[i.symbol] - cost]
    /\ c.qty = [b.qty EXCEPT ![i.symbol] = IF left <= 0 THEN 0 ELSE left]
    /\ c.avail = b.avail
    /\ c.intent = b.intent /\ c.outbox = b.outbox
    /\ SameTrail(b, c) /\ SameClock(b, c)
    /\ c.equity = b.equity /\ c.mval = b.mval

(* _apply_fill, buying. *)
LEMMA SettleBuyFields ==
    ASSUME NEW b \in Books, NEW o \in OrderIds, NEW p \in Nat,
           b.intent[o] \in OrderIntents,
           NEW i, i = b.intent[o],
           NEW w, w = WithCommission(i.qty, p),
           NEW c \in Books, c = SettleBuy(b, o, p)
    PROVE  Bought(b, c, o, i, w)
<1> DEFINE r == ReservedCash(i, p)
           s == i.symbol
           row == [price |-> p, amount |-> -w, balance |-> b.cash + (r - w)]
           f == [b.fills EXCEPT ![o] = Append(b.fills[o], row)]
           bas == [b.basis EXCEPT ![s] = b.basis[s] + w]
           n == [b.qty EXCEPT ![s] = b.qty[s] + i.qty]
           a == [b.avail EXCEPT ![s] = b.avail[s] + i.qty]
<1>1. /\ b.cash \in Int /\ b.frozen \in Int /\ s \in Symbols /\ i.qty \in Nat
  BY IntentType DEF Books
<1>2. r \in Nat /\ w \in Nat
  BY ReservedType, AmountType, <1>1
<1>3. c = [b EXCEPT !.frozen = b.frozen - r, !.cash = b.cash + (r - w),
                    !.basis = bas, !.qty = n, !.avail = a, !.fills = f]
  BY <1>1, ZenonT(40) DEF SettleBuy, Books
<1>4. row \in FillRow /\ row.amount = -w /\ row.balance = b.cash + (r - w)
  <2> HIDE DEF r
  <2>1. -w \in Int /\ b.cash + (r - w) \in Int
    BY <1>1, <1>2
  <2> QED BY <2>1 DEF FillRow
<1> HIDE DEF r, row, bas, n, a
<1>5. /\ c.frozen = b.frozen - r /\ c.cash = b.cash + (r - w)
      /\ c.basis = bas /\ c.qty = n /\ c.avail = a /\ c.fills = f
      /\ c.intent = b.intent /\ c.outbox = b.outbox
      /\ SameTrail(b, c) /\ SameClock(b, c) /\ SameGains(b, c) /\ c.mval = b.mval
  <2> DEFINE x == b.frozen - r
             y == b.cash + (r - w)
  <2>1. c = [b EXCEPT !.frozen = x, !.cash = y, !.basis = bas, !.qty = n, !.avail = a,
                      !.fills = f]
    BY <1>3
  <2> HIDE DEF f, x, y
  <2>2. /\ c.frozen = x /\ c.cash = y
        /\ c.basis = bas /\ c.qty = n /\ c.avail = a /\ c.fills = f
        /\ c.intent = b.intent /\ c.outbox = b.outbox /\ c.mval = b.mval
    BY <2>1 DEF Books
  <2>3. SameTrail(b, c) /\ SameClock(b, c) /\ SameGains(b, c)
    BY <2>1 DEF Books, SameTrail, SameClock, SameGains
  <2> QED BY <2>2, <2>3 DEF x, y
<1>6. c.cash + c.frozen = b.cash + b.frozen + -w
  BY <1>1, <1>2, <1>5
<1>7. OneRow(b, c, o, -w)
  BY <1>4, <1>5, <1>6 DEF OneRow
<1> QED BY <1>2, <1>5, <1>7 DEF bas, n, a, Bought

(* _apply_fill, selling. *)
LEMMA SettleSellFields ==
    ASSUME NEW b \in Books, NEW o \in OrderIds, NEW p \in Nat,
           b.intent[o] \in OrderIntents,
           NEW i, i = b.intent[o],
           NEW net, net = Gross(i.qty, p) - Commission(i.qty, p),
           NEW cost, cost = CostOf(b, i.symbol, i.qty),
           NEW left, left = b.qty[i.symbol] - i.qty,
           NEW c \in Books, c = SettleSell(b, o, p)
    PROVE  Sold(b, c, o, i, net, cost, left)
<1> DEFINE s == i.symbol
           row == [price |-> p, amount |-> net, balance |-> b.cash + net]
           f == [b.fills EXCEPT ![o] = Append(b.fills[o], row)]
           bas == [b.basis EXCEPT ![s] = IF left <= 0 THEN 0 ELSE b.basis[s] - cost]
           n == [b.qty EXCEPT ![s] = IF left <= 0 THEN 0 ELSE left]
<1>1. /\ b.cash \in Int /\ b.realized \in Int /\ b.frozen \in Int
      /\ b.qty \in [Symbols -> Nat] /\ b.basis \in [Symbols -> Int]
      /\ s \in Symbols /\ i.qty \in Nat
  BY IntentType DEF Books
<1>2. net \in Int
  <2>1. Gross(i.qty, p) \in Nat /\ Commission(i.qty, p) \in Nat
    BY AmountType, <1>1
  <2> QED BY <2>1
<1>3. cost \in Int /\ left \in Int
  <2>1. b.qty[s] \in Nat /\ b.basis[s] * i.qty \in Int
    BY <1>1
  <2>2. b.qty[s] # 0 => (b.basis[s] * i.qty) \div b.qty[s] \in Int
    BY <2>1
  <2> DEFINE z == (b.basis[s] * i.qty) \div b.qty[s]
  <2>3. cost = IF b.qty[s] = 0 THEN 0 ELSE z
    BY DEF CostOf
  <2>4. b.qty[s] # 0 => z \in Int
    BY <2>2
  <2> HIDE DEF z
  <2> QED BY <1>1, <2>1, <2>3, <2>4
<1>4. c = [b EXCEPT !.cash = b.cash + net, !.realized = b.realized + (net - cost),
                    !.qty = n, !.basis = bas, !.fills = f]
  BY <1>1, ZenonT(40) DEF SettleSell, Books
<1>5. row \in FillRow /\ row.amount = net /\ row.balance = b.cash + net
  <2>1. b.cash + net \in Int
    BY <1>1, <1>2
  <2> QED BY <1>2, <2>1 DEF FillRow
<1> HIDE DEF row, bas, n
<1>6. /\ c.frozen = b.frozen /\ c.cash = b.cash + net /\ c.realized = b.realized + (net - cost)
      /\ c.basis = bas /\ c.qty = n /\ c.avail = b.avail /\ c.fills = f
      /\ c.intent = b.intent /\ c.outbox = b.outbox
      /\ SameTrail(b, c) /\ SameClock(b, c) /\ c.equity = b.equity /\ c.mval = b.mval
  <2> DEFINE x == b.cash + net
             y == b.realized + (net - cost)
  <2>1. c = [b EXCEPT !.cash = x, !.realized = y, !.qty = n, !.basis = bas, !.fills = f]
    BY <1>4
  <2> HIDE DEF f, x, y
  <2>2. /\ c.frozen = b.frozen /\ c.cash = x /\ c.realized = y
        /\ c.basis = bas /\ c.qty = n /\ c.avail = b.avail /\ c.fills = f
        /\ c.intent = b.intent /\ c.outbox = b.outbox
        /\ c.equity = b.equity /\ c.mval = b.mval
    BY <2>1 DEF Books
  <2>3. SameTrail(b, c) /\ SameClock(b, c)
    BY <2>1 DEF Books, SameTrail, SameClock
  <2> QED BY <2>2, <2>3 DEF x, y
<1>7. c.cash + c.frozen = b.cash + b.frozen + net
  BY <1>1, <1>2, <1>6
<1>8. OneRow(b, c, o, net)
  BY <1>5, <1>6, <1>7 DEF OneRow
<1> QED BY <1>2, <1>3, <1>6, <1>8 DEF bas, n, Sold

(* A fill revalues the account from what it holds. *)
LEMMA RevalueFields ==
    ASSUME NEW b \in Books, NEW s \in Symbols, NEW p \in Nat,
           NEW c, c = Revalue(b, s, p)
    PROVE  /\ c.equity = c.cash + c.frozen + SumTo(c.mval, NSymbols)
           /\ c.basis = b.basis /\ c.realized = b.realized
           /\ c.fills = b.fills /\ c.outbox = b.outbox
           /\ SameTrail(b, c) /\ SameClock(b, c)
<1> DEFINE m == [b.mval EXCEPT ![s] = Gross(b.qty[s], p)]
           e == b.cash + b.frozen + SumTo(m, NSymbols)
<1>1. c = [b EXCEPT !.mval = m, !.equity = e]
  BY DEF Revalue
<1> HIDE DEF m
<1>2. c.mval = m /\ c.cash = b.cash /\ c.frozen = b.frozen /\ c.equity = e
      /\ c.basis = b.basis /\ c.realized = b.realized
      /\ c.fills = b.fills /\ c.outbox = b.outbox
      /\ SameTrail(b, c) /\ SameClock(b, c)
  <2> HIDE DEF e
  <2> QED BY <1>1 DEF Books, SameTrail, SameClock
<1> QED BY <1>2

(* The settlement _apply_fill makes. *)
Settled(b, o, p) == IF b.intent[o].side = "BUY" THEN SettleBuy(b, o, p) ELSE SettleSell(b, o, p)

(* From b to c, order o is FILLED with the settlement d of b. *)
FilledBy(b, d, c, o) ==
    /\ c \in Books /\ c.intent = b.intent
    /\ c.status = [b.status EXCEPT ![o] = "FILLED"]
    /\ c.audit = [b.audit EXCEPT ![o] = Append(b.audit[o], "FILLED")]
    /\ c.outbox = (b.outbox \cup {<<"ORDER_FILLED", o>>})
             \cup {<<"POSITION_UPDATED", b.intent[o].symbol>>}
    /\ c.equity = c.cash + c.frozen + SumTo(c.mval, NSymbols)
    /\ SameMoney(d, c) /\ SameShares(d, c)
    /\ c.basis = d.basis /\ c.realized = d.realized /\ c.fills = d.fills
    /\ SameClock(b, c)

(* _apply_fill: the settlement, its valuation, the status and two events. *)
LEMMA FillFields ==
    ASSUME NEW b \in Books, NEW o \in OrderIds, NEW p \in Nat,
           b.intent[o] \in OrderIntents,
           NEW d, d = Settled(b, o, p),
           NEW c, c = ApplyFill(b, o, p)
    PROVE  FilledBy(b, d, c, o)
<1> DEFINE s == b.intent[o].symbol
           v == Revalue(d, s, p)
           t == TransitionOrder(v, o, "FILLED")
           e == EnqueueEvent(t, "ORDER_FILLED", o)
<1>1. s \in Symbols /\ b.intent[o].side \in OrderSide
  BY IntentType
<1>2. d \in Books /\ d.intent = b.intent /\ d.outbox = b.outbox
      /\ SameTrail(b, d) /\ SameClock(b, d)
  <2>1. CASE b.intent[o].side = "BUY"
    <3>1. d = SettleBuy(b, o, p)
      BY <2>1 DEF Settled
    <3>2. d \in Books
      BY <3>1, SettleBuyType
    <3> DEFINE i == b.intent[o]
               w == WithCommission(i.qty, p)
    <3>3. i = b.intent[o] /\ w = WithCommission(i.qty, p)
      OBVIOUS
    <3> HIDE DEF i, w
    <3>4. Bought(b, d, o, i, w)
      BY <3>1, <3>2, <3>3, SettleBuyFields
    <3> QED BY <3>2, <3>4 DEF Bought
  <2>2. CASE b.intent[o].side # "BUY"
    <3>1. d = SettleSell(b, o, p)
      BY <2>2 DEF Settled
    <3>2. d \in Books
      BY <3>1, SettleSellType
    <3> DEFINE i == b.intent[o]
               net == Gross(i.qty, p) - Commission(i.qty, p)
               cost == CostOf(b, i.symbol, i.qty)
               left == b.qty[i.symbol] - i.qty
    <3>3. /\ i = b.intent[o]
          /\ net = Gross(i.qty, p) - Commission(i.qty, p)
          /\ cost = CostOf(b, i.symbol, i.qty)
          /\ left = b.qty[i.symbol] - i.qty
      OBVIOUS
    <3> HIDE DEF i, net, cost, left
    <3>4. Sold(b, d, o, i, net, cost, left)
      BY <3>1, <3>2, <3>3, SettleSellFields
    <3> QED BY <3>2, <3>4 DEF Sold
  <2> QED BY <2>1, <2>2
<1>3. c = EnqueueEvent(e, "POSITION_UPDATED", s)
  BY DEF ApplyFill, Settled
<1>4. /\ v \in Books /\ v.intent = d.intent /\ SameMoney(d, v) /\ SameShares(d, v)
      /\ v.equity = v.cash + v.frozen + SumTo(v.mval, NSymbols)
      /\ v.basis = d.basis /\ v.realized = d.realized
      /\ v.fills = d.fills /\ v.outbox = d.outbox /\ SameTrail(d, v) /\ SameClock(d, v)
  BY <1>1, <1>2, RevalueType, RevalueFields DEF SameRows
<1> HIDE DEF v
<1>5. "FILLED" \in OrderStatus /\ "ORDER_FILLED" \in OutboxEvents
      /\ "POSITION_UPDATED" \in OutboxEvents /\ o \in Nat /\ s \in Nat
  BY <1>1 DEF OrderStatus, OutboxEvents, OrderIds, Symbols
<1>6. /\ t \in Books /\ t.intent = v.intent
      /\ t.status = [v.status EXCEPT ![o] = "FILLED"]
      /\ t.audit = [v.audit EXCEPT ![o] = Append(v.audit[o], "FILLED")]
      /\ t.fills = v.fills /\ t.outbox = v.outbox /\ SameClock(v, t) /\ SameMoney(v, t)
      /\ SameGains(v, t) /\ SameShares(v, t) /\ SameWorth(v, t)
  <2>1. v \in Books /\ "FILLED" \in OrderStatus /\ t = TransitionOrder(v, o, "FILLED")
    BY <1>4, <1>5
  <2> HIDE DEF t
  <2>2. t \in Books
    BY <2>1, TransitionType
  <2> QED BY <2>1, <2>2, TransitionFields
<1> HIDE DEF t
<1>7. /\ e \in Books /\ e.intent = t.intent /\ e.fills = t.fills
      /\ e.outbox = t.outbox \cup {<<"ORDER_FILLED", o>>}
      /\ SameTrail(t, e) /\ SameClock(t, e) /\ SameMoney(t, e)
      /\ SameGains(t, e) /\ SameShares(t, e) /\ SameWorth(t, e)
  <2>1. t \in Books /\ e = EnqueueEvent(t, "ORDER_FILLED", o)
    BY <1>6
  <2> HIDE DEF e
  <2>2. e \in Books
    BY <1>5, <2>1, EnqueueType
  <2> QED BY <2>1, <2>2, EnqueueFields
<1> HIDE DEF e
<1>8. /\ c \in Books /\ c.intent = e.intent /\ c.fills = e.fills
      /\ c.outbox = e.outbox \cup {<<"POSITION_UPDATED", s>>}
      /\ SameTrail(e, c) /\ SameClock(e, c) /\ SameMoney(e, c)
      /\ SameGains(e, c) /\ SameShares(e, c) /\ SameWorth(e, c)
  <2>1. c \in Books
    BY <1>3, <1>5, <1>7, EnqueueType
  <2> QED BY <1>3, <1>7, <2>1, EnqueueFields
<1>9. /\ c.status = [b.status EXCEPT ![o] = "FILLED"]
      /\ c.audit = [b.audit EXCEPT ![o] = Append(b.audit[o], "FILLED")]
  BY <1>2, <1>4, <1>6, <1>7, <1>8 DEF SameTrail
<1>10. SameMoney(d, c) /\ SameShares(d, c)
  BY <1>4, <1>6, <1>7, <1>8 DEF SameMoney, SameShares
<1>11. c.equity = c.cash + c.frozen + SumTo(c.mval, NSymbols)
  BY <1>4, <1>6, <1>7, <1>8 DEF SameMoney, SameGains, SameWorth
<1>12. c.basis = d.basis /\ c.realized = d.realized /\ c.fills = d.fills
  BY <1>4, <1>6, <1>7, <1>8 DEF SameGains, SameWorth
<1>13. SameClock(b, c)
  BY <1>2, <1>4, <1>6, <1>7, <1>8 DEF SameClock
<1>14. c.intent = b.intent
      /\ c.outbox = (b.outbox \cup {<<"ORDER_FILLED", o>>}) \cup {<<"POSITION_UPDATED", s>>}
  BY <1>2, <1>4, <1>6, <1>7, <1>8
<1> QED BY <1>8, <1>9, <1>10, <1>11, <1>12, <1>13, <1>14 DEF FilledBy

-----------------------------------------------------------------------------
(* The audit trails follow the state machine. *)

(* The last row of an order's trail is its status. *)
TrailExact(b) ==
    \A o \in OrderIds :
        IF b.status[o] = NoRow THEN b.audit[o] = << >>
        ELSE b.audit[o] # << >> /\ b.audit[o][Len(b.audit[o])] = b.status[o]

(* Trail t extends s by legal rows. *)
Continues(s, t) ==
    /\ Len(t) > Len(s)
    /\ \A n \in 1..Len(s) : t[n] = s[n]
    /\ \A n \in Len(s)+1..Len(t) : Lifecycle!LegalEntry(t, n)

(* From b to c, order o gains rows and no other order does. *)
TrailGrows(b, c, o) ==
    /\ Continues(b.audit[o], c.audit[o])
    /\ \A x \in OrderIds \ {o} : c.audit[x] = b.audit[x]

(* The abstract life cycle reads the same table of transitions. *)
LEMMA SameTransitions ==
    ASSUME NEW s, NEW t
    PROVE  Lifecycle!CanTransition(s, t) <=> CanTransition(s, t)
BY DEF CanTransition, AllowedTransitions, Lifecycle!CanTransition, Lifecycle!AllowedTransitions

(* One transition is one legal row. *)
LEMMA MoveGrows ==
    ASSUME NEW b \in Books, NEW c \in Books, NEW o \in OrderIds, NEW to \in OrderStatus,
           TrailExact(b),
           b.status[o] # NoRow, CanTransition(b.status[o], to),
           c.status = [b.status EXCEPT ![o] = to],
           c.audit = [b.audit EXCEPT ![o] = Append(b.audit[o], to)]
    PROVE  TrailExact(c) /\ TrailGrows(b, c, o)
<1>1. /\ b.audit \in [OrderIds -> Seq(OrderStatus)]
      /\ b.status \in [OrderIds -> OrderStatus \cup {NoRow}]
      /\ NoRow \notin OrderStatus
  BY DEF Books, NoRow, OrderStatus
<1> DEFINE s == b.audit[o]
           t == Append(s, to)
<1>2. s \in Seq(OrderStatus) /\ s # << >> /\ s[Len(s)] = b.status[o]
  BY <1>1 DEF TrailExact
<1>3. /\ Len(s) \in Nat \ {0} /\ Len(t) = Len(s) + 1 /\ t[Len(s)+1] = to
      /\ \A n \in 1..Len(s) : t[n] = s[n]
      /\ t # << >>
  BY <1>2
<1>4. c.audit[o] = t /\ c.status[o] = to
      /\ \A x \in OrderIds \ {o} : c.audit[x] = b.audit[x] /\ c.status[x] = b.status[x]
  BY <1>1
<1> HIDE DEF s, t
<1>5. Lifecycle!LegalEntry(t, Len(s)+1)
  <2>1. (Len(s)+1) - 1 = Len(s) /\ Len(s)+1 # 1 /\ t[Len(s)] = s[Len(s)]
    BY <1>3
  <2>2. Lifecycle!CanTransition(s[Len(s)], to)
    BY <1>2, SameTransitions
  <2> QED BY <1>3, <2>1, <2>2 DEF Lifecycle!LegalEntry
<1>6. Continues(s, t)
  <2>1. \A n \in Len(s)+1..Len(t) : n = Len(s)+1
    BY <1>3
  <2> QED BY <1>3, <1>5, <2>1 DEF Continues
<1>7. TrailGrows(b, c, o)
  BY <1>4, <1>6 DEF TrailGrows, s
<1>8. TrailExact(c)
  BY <1>1, <1>3, <1>4 DEF TrailExact
<1> QED BY <1>7, <1>8

(* A trail that has grown twice has grown. *)
LEMMA GrowsTwice ==
    ASSUME NEW b \in Books, NEW c \in Books, NEW d \in Books, NEW o \in OrderIds,
           TrailGrows(b, c, o), TrailGrows(c, d, o)
    PROVE  TrailGrows(b, d, o)
<1> DEFINE r == b.audit[o]
           s == c.audit[o]
           t == d.audit[o]
<1>1. r \in Seq(OrderStatus) /\ s \in Seq(OrderStatus) /\ t \in Seq(OrderStatus)
  BY DEF Books
<1>2. Len(r) \in Nat /\ Len(s) \in Nat /\ Len(t) \in Nat
  BY <1>1
<1>3. Continues(r, s) /\ Continues(s, t)
  BY DEF TrailGrows
<1> HIDE DEF r, s, t
<1>4. Len(t) > Len(r) /\ \A n \in 1..Len(r) : t[n] = r[n]
  BY <1>2, <1>3 DEF Continues
<1>5. ASSUME NEW n \in Len(r)+1..Len(t) PROVE Lifecycle!LegalEntry(t, n)
  <2>1. CASE n \in Len(s)+1..Len(t)
    BY <2>1, <1>3 DEF Continues
  <2>2. CASE n \in Len(r)+1..Len(s)
    <3>1. Lifecycle!LegalEntry(s, n) /\ t[n] = s[n]
      BY <1>2, <1>3, <2>2 DEF Continues
    <3>2. n # 1 => t[n-1] = s[n-1]
      BY <1>2, <1>3, <2>2 DEF Continues
    <3> QED BY <3>1, <3>2 DEF Lifecycle!LegalEntry
  <2> QED BY <1>2, <2>1, <2>2
<1>6. Continues(r, t)
  BY <1>4, <1>5 DEF Continues
<1> QED BY <1>6 DEF TrailGrows, r, t

-----------------------------------------------------------------------------
(* The rules of the risk engine, on a book. *)

(* Statuses between the risk check and the end. *)
Pending == {"RISK_APPROVED", "SUBMITTED"}

NoDuplicates(b) ==
    \A o, x \in OrderIds :
        o # x /\ b.status[o] \in Pending /\ b.status[x] \in Pending
        => \/ b.intent[o].symbol # b.intent[x].symbol
           \/ b.intent[o].side # b.intent[x].side

(* The orders of today that passed the risk check. *)
PassedToday(b) == {o \in b.today : b.status[o] \notin {"CREATED", "RISK_REJECTED"}}

WithinCap(b) == Cardinality(PassedToday(b)) <= MaxDailyOrders

(* Order ids are finite in number, and so is any set of them. *)
LEMMA OrdersFinite ==
    ASSUME NEW S \in SUBSET OrderIds
    PROVE  IsFiniteSet(S) /\ Cardinality(S) \in Nat
<1>1. IsFiniteSet(OrderIds)
  BY FS_Interval, BookAssumption DEF OrderIds
<1>2. IsFiniteSet(S)
  BY <1>1, FS_Subset
<1> QED BY <1>2, FS_CardinalityType

(* No order becomes pending: no duplicate can arise. *)
LEMMA DuplicatesKept ==
    ASSUME NEW b, NEW c, NoDuplicates(b), NEW o \in OrderIds, SameOthers(b, c, o),
           c.status[o] \in Pending => b.status[o] \in Pending /\ c.intent[o] = b.intent[o]
    PROVE  NoDuplicates(c)
BY DEF NoDuplicates, SameOthers

(* A smaller set of passed orders stays within the cap. *)
LEMMA CapKept ==
    ASSUME NEW b \in Books, NEW c \in Books, WithinCap(b), PassedToday(c) \subseteq PassedToday(b)
    PROVE  WithinCap(c)
<1>1. PassedToday(b) \in SUBSET OrderIds /\ PassedToday(c) \in SUBSET OrderIds
  BY DEF PassedToday, Books
<1>2. /\ IsFiniteSet(PassedToday(b)) /\ Cardinality(PassedToday(b)) \in Nat
      /\ Cardinality(PassedToday(c)) \in Nat
  BY <1>1, OrdersFinite
<1>3. Cardinality(PassedToday(c)) <= Cardinality(PassedToday(b))
  BY <1>2, FS_Subset
<1> QED BY <1>2, <1>3, BookAssumption DEF WithinCap

(* What the risk engine approves is no duplicate of a pending order ... *)
LEMMA ApprovalIsFirst ==
    ASSUME NEW b \in Books, NEW c, NEW o \in OrderIds, NEW q, NEW open,
           NoDuplicates(b), RiskApproves(b, o, q, open),
           c.intent = b.intent, SameOthers(b, c, o)
    PROVE  NoDuplicates(c)
<1>1. ASSUME NEW x \in OrderIds \ {o}, b.status[x] \in Pending,
             b.intent[x].symbol = b.intent[o].symbol, b.intent[x].side = b.intent[o].side
      PROVE  FALSE
  <2>1. x \in Similar(b, o)
    BY <1>1 DEF Similar, Created, Pending, NoRow
  <2>2. b.status[x] \notin OpenForDuplicate
    BY <2>1 DEF RiskApproves
  <2> QED BY <1>1, <2>2 DEF Pending, OpenForDuplicate
<1>2. ASSUME NEW x \in OrderIds, NEW y \in OrderIds, x # y,
             c.status[x] \in Pending, c.status[y] \in Pending
      PROVE  \/ c.intent[x].symbol # c.intent[y].symbol
             \/ c.intent[x].side # c.intent[y].side
  <2>1. CASE x = o
    BY <1>1, <1>2, <2>1 DEF SameOthers
  <2>2. CASE y = o
    BY <1>1, <1>2, <2>2 DEF SameOthers
  <2>3. CASE x # o /\ y # o
    BY <1>2, <2>3 DEF SameOthers, NoDuplicates
  <2> QED BY <2>1, <2>2, <2>3
<1> QED BY <1>2 DEF NoDuplicates

(* ... and one of the orders the day still allows. *)
LEMMA ApprovalIsWithinCap ==
    ASSUME NEW b \in Books, NEW c \in Books, NEW o \in OrderIds, NEW q, NEW open,
           RiskApproves(b, o, q, open), c.today = b.today
    PROVE  WithinCap(c)
<1> DEFINE T == b.today \ {o}
<1>1. T \in SUBSET OrderIds
  BY DEF Books
<1>2. IsFiniteSet(T) /\ Cardinality(T) \in Nat
  BY <1>1, OrdersFinite
<1>3. Cardinality(T) < MaxDailyOrders
  BY <1>2, BookAssumption DEF RiskApproves, DailyOrdersSpent
<1>5. PassedToday(c) \in SUBSET (T \cup {o}) /\ T \cup {o} \in SUBSET OrderIds
  BY <1>1 DEF PassedToday
<1> HIDE DEF T
<1>4. /\ IsFiniteSet(T \cup {o})
      /\ Cardinality(T \cup {o}) = IF o \in T THEN Cardinality(T) ELSE Cardinality(T) + 1
  BY ONLY <1>2, FS_AddElement, Zenon
<1>6. /\ Cardinality(PassedToday(c)) <= Cardinality(T \cup {o})
      /\ Cardinality(T \cup {o}) \in Nat /\ Cardinality(PassedToday(c)) \in Nat
  BY <1>4, <1>5, FS_Subset, OrdersFinite
<1>7. Cardinality(T \cup {o}) <= Cardinality(T) + 1
  BY <1>2, <1>4
<1> QED BY <1>2, <1>3, <1>6, <1>7, BookAssumption DEF WithinCap

-----------------------------------------------------------------------------
(* The balance, on a book. *)

(* The outbox names the outcomes; what is under way was announced. *)
Announced(b) ==
    \A o \in OrderIds :
        /\ <<"ORDER_FILLED", o>> \in b.outbox <=> b.status[o] = "FILLED"
        /\ <<"ORDER_CANCELLED", o>> \in b.outbox <=> b.status[o] = "CANCELLED"
        /\ b.status[o] \in {"RISK_APPROVED", "SUBMITTED", "FILLED", "CANCELLED"}
             => <<"ORDER_READY_TO_SUBMIT", o>> \in b.outbox

LedgerExact(b) ==
    /\ b.cash + b.frozen = InitCash + SumTo(Booked(b), MaxOrders)
    /\ \A o \in OrderIds : Len(b.fills[o]) = IF b.status[o] = "FILLED" THEN 1 ELSE 0

EquityExact(b) == b.equity = b.cash + b.frozen + SumTo(b.mval, NSymbols)

ProfitExact(b) ==
    b.cash + b.frozen + SumTo(b.basis, NSymbols)
        = InitCash + NSymbols * InitCost + b.realized

SymbolExact(b, s) ==
    /\ b.qty[s] = b.avail[s] + SumTo(HeldShares(b, s), MaxOrders)
    /\ b.avail[s] >= 0

SharesExact(b) == \A s \in Symbols : SymbolExact(b, s)

(* No intent is a bracket order: take-profit and stop orders reserve no     *)
(* shares (_is_bracket_order), so that one may sell what another has sold.  *)
NoBrackets == \A i \in Intents : ~IsBracketOrder(i)

(* A step that books no fill keeps the balance of money and profit. *)
LEMMA MoneyKept ==
    ASSUME NEW b \in Books, NEW c \in Books,
           c.cash + c.frozen = b.cash + b.frozen, c.fills = b.fills,
           SameGains(b, c), SameWorth(b, c),
           \A x \in OrderIds : c.status[x] = "FILLED" <=> b.status[x] = "FILLED"
    PROVE  /\ LedgerExact(b) => LedgerExact(c)
           /\ EquityExact(b) => EquityExact(c)
           /\ ProfitExact(b) => ProfitExact(c)
<1>1. Booked(c) = Booked(b)
  BY DEF Booked
<1>2. LedgerExact(b) => LedgerExact(c)
  BY <1>1 DEF LedgerExact
<1>3. EquityExact(b) => EquityExact(c)
  BY DEF EquityExact, SameGains, SameWorth
<1>4. ProfitExact(b) => ProfitExact(c)
  BY DEF ProfitExact, SameGains, SameWorth
<1> QED BY <1>2, <1>3, <1>4

(* Held shares are natural numbers. *)
LEMMA HeldSharesType ==
    ASSUME NEW b \in Books, RowsHaveIntents(b), NEW s \in Symbols
    PROVE  /\ HeldShares(b, s) \in [1..MaxOrders -> Int]
           /\ \A o \in 1..MaxOrders : HeldShares(b, s)[o] >= 0
           /\ SumTo(HeldShares(b, s), MaxOrders) \in Int
<1>1. ASSUME NEW o \in OrderIds
      PROVE  (IF /\ b.status[o] = "SUBMITTED" /\ b.intent[o].symbol = s
                 /\ b.intent[o].side = "SELL" /\ ~IsBracketOrder(b.intent[o])
              THEN b.intent[o].qty ELSE 0) \in Nat
  <2>1. b.status[o] = "SUBMITTED" => b.intent[o].qty \in Nat
    BY IntentType DEF RowsHaveIntents, NoRow
  <2> QED BY <2>1
<1>2. /\ HeldShares(b, s) \in [1..MaxOrders -> Int]
      /\ \A o \in 1..MaxOrders : HeldShares(b, s)[o] >= 0
  BY <1>1 DEF HeldShares, OrderIds
<1> QED BY <1>2, SumToType, BookAssumption

(* What one order holds of a symbol. *)
SharesOf(b, s, o) ==
    IF /\ b.status[o] = "SUBMITTED" /\ b.intent[o].symbol = s
       /\ b.intent[o].side = "SELL" /\ ~IsBracketOrder(b.intent[o])
    THEN b.intent[o].qty ELSE 0

(* A step on one order keeps the shares exact if what leaves or enters the  *)
(* available quantity is what the order holds more or less.                 *)
LEMMA SharesKept ==
    ASSUME NEW b \in Books, NEW c \in Books, RowsHaveIntents(b), RowsHaveIntents(c),
           NEW o \in OrderIds, SameOthers(b, c, o), SharesExact(b),
           \A s \in Symbols :
              /\ c.qty[s] - c.avail[s] - SharesOf(c, s, o)
                    = b.qty[s] - b.avail[s] - SharesOf(b, s, o)
              /\ c.avail[s] >= 0
    PROVE  SharesExact(c)
<1> SUFFICES ASSUME NEW s \in Symbols PROVE SymbolExact(c, s)
  BY DEF SharesExact
<1>1. /\ HeldShares(b, s) \in [1..MaxOrders -> Int] /\ SumTo(HeldShares(b, s), MaxOrders) \in Int
      /\ HeldShares(c, s) \in [1..MaxOrders -> Int] /\ SumTo(HeldShares(c, s), MaxOrders) \in Int
  BY HeldSharesType
<1>2. \A x \in 1..MaxOrders : o # x => HeldShares(c, s)[x] = HeldShares(b, s)[x]
  BY DEF HeldShares, SameOthers, OrderIds
<1>3. HeldShares(c, s)[o] = SharesOf(c, s, o) /\ HeldShares(b, s)[o] = SharesOf(b, s, o)
  BY DEF HeldShares, SharesOf
<1>4. o \in 1..MaxOrders /\ MaxOrders \in Nat
  BY BookAssumption DEF OrderIds
<1>5. SumTo(HeldShares(c, s), MaxOrders)
        = SumTo(HeldShares(b, s), MaxOrders) + (SharesOf(c, s, o) - SharesOf(b, s, o))
  BY <1>1, <1>2, <1>3, <1>4, SumToUpdate
<1>6. /\ SharesOf(c, s, o) \in Int /\ SharesOf(b, s, o) \in Int
      /\ b.qty[s] \in Int /\ b.avail[s] \in Int /\ c.qty[s] \in Int /\ c.avail[s] \in Int
  <2>1. SharesOf(c, s, o) \in Int /\ SharesOf(b, s, o) \in Int
    BY <1>1, <1>3, <1>4
  <2> QED BY <2>1 DEF Books
<1>7. b.qty[s] = b.avail[s] + SumTo(HeldShares(b, s), MaxOrders)
  BY DEF SharesExact, SymbolExact
<1>8. /\ c.qty[s] - c.avail[s] - SharesOf(c, s, o) = b.qty[s] - b.avail[s] - SharesOf(b, s, o)
      /\ c.avail[s] >= 0
  OBVIOUS
<1> DEFINE hb == SumTo(HeldShares(b, s), MaxOrders)
           hc == SumTo(HeldShares(c, s), MaxOrders)
<1>9. c.qty[s] = c.avail[s] + hc
  <2>1. /\ hb \in Int /\ hc \in Int /\ b.qty[s] = b.avail[s] + hb
        /\ hc = hb + (SharesOf(c, s, o) - SharesOf(b, s, o))
    BY <1>1, <1>5, <1>7
  <2> HIDE DEF hb, hc
  <2> QED BY <1>6, <1>8, <2>1
<1> QED BY <1>8, <1>9 DEF SymbolExact

(* In particular if the positions and what the order holds stay. *)
LEMMA SharesUntouched ==
    ASSUME NEW b \in Books, NEW c \in Books, RowsHaveIntents(b), RowsHaveIntents(c),
           NEW o \in OrderIds, SameOthers(b, c, o), SameShares(b, c), SharesExact(b),
           \A s \in Symbols : SharesOf(c, s, o) = SharesOf(b, s, o)
    PROVE  SharesExact(c)
<1>1. \A s \in Symbols : b.avail[s] >= 0
  BY DEF SharesExact, SymbolExact
<1>2. \A s \in Symbols :
         /\ c.qty[s] - c.avail[s] - SharesOf(c, s, o)
               = b.qty[s] - b.avail[s] - SharesOf(b, s, o)
         /\ c.avail[s] >= 0
  BY <1>1 DEF SameShares
<1> QED BY <1>2, SharesKept

-----------------------------------------------------------------------------
(* Every operation keeps the trails, the rules and the balance. *)

Sound(b) ==
    /\ TrailExact(b)
    /\ NoDuplicates(b) /\ WithinCap(b)
    /\ Announced(b) /\ LedgerExact(b) /\ EquityExact(b)
    /\ NoBrackets => ProfitExact(b) /\ SharesExact(b)

(* The rows of a book that is typed and whose orders have intents. *)
Typed(b) == b \in Books /\ RowsHaveIntents(b)

(* create_order_from_intent. *)
LEMMA CreateSound ==
    ASSUME NEW b, Typed(b), Sound(b), NEW o \in OrderIds, b.status[o] = NoRow,
           NEW i \in Intents, NEW c, Typed(c), c = CreateOrder(b, o, i)
    PROVE  Sound(c) /\ TrailGrows(b, c, o)
<1>1. b \in Books /\ c \in Books /\ RowsHaveIntents(b) /\ RowsHaveIntents(c)
  BY DEF Typed
<1>2. /\ b.status \in [OrderIds -> OrderStatus \cup {NoRow}]
      /\ b.audit \in [OrderIds -> Seq(OrderStatus)]
      /\ b.intent \in [OrderIds -> OrderIntents \cup {NoIntent}]
  BY <1>1 DEF Books
<1>3. /\ c.status = [b.status EXCEPT ![o] = "CREATED"]
      /\ c.intent = [b.intent EXCEPT ![o] = i]
      /\ SameMoney(b, c) /\ SameShares(b, c)
  BY <1>1, CreateType
<1>4. /\ c.audit = [b.audit EXCEPT ![o] = <<"CREATED">>]
      /\ c.today = b.today \cup {o}
      /\ c.fills = b.fills /\ c.outbox = b.outbox
      /\ SameGains(b, c) /\ SameWorth(b, c)
  BY <1>1, CreateFields
<1>5. c.status[o] = "CREATED" /\ SameOthers(b, c, o)
  BY <1>2, <1>3 DEF SameOthers
<1>6. c.audit[o] = <<"CREATED">> /\ \A x \in OrderIds \ {o} : c.audit[x] = b.audit[x]
  BY <1>2, <1>4
<1>7. TrailExact(c) /\ TrailGrows(b, c, o)
  <2>1. b.audit[o] = << >>
    BY DEF Sound, TrailExact
  <2>2. Len(<<"CREATED">>) = 1 /\ <<"CREATED">>[1] = "CREATED" /\ <<"CREATED">> # << >>
    OBVIOUS
  <2>3. Continues(<< >>, <<"CREATED">>)
    BY <2>2 DEF Continues, Lifecycle!LegalEntry
  <2>4. TrailGrows(b, c, o)
    BY <1>6, <2>1, <2>3 DEF TrailGrows
  <2>5. TrailExact(c)
    BY <1>5, <1>6, <2>2 DEF Sound, TrailExact, SameOthers, NoRow
  <2> QED BY <2>4, <2>5
<1>8. NoDuplicates(c)
  BY <1>5, DuplicatesKept DEF Sound, Pending
<1>9. WithinCap(c)
  <2>1. PassedToday(c) \subseteq PassedToday(b)
    BY <1>1, <1>4, <1>5 DEF PassedToday, SameOthers, Books
  <2> QED BY <1>1, <2>1, CapKept DEF Sound
<1>10. Announced(c)
  <2>1. Announced(b)
    BY DEF Sound
  <2> QED BY <1>4, <1>5, <2>1 DEF Announced, SameOthers, NoRow
<1>11. LedgerExact(c) /\ EquityExact(c) /\ (NoBrackets => ProfitExact(c))
  <2>1. c.cash + c.frozen = b.cash + b.frozen
    BY <1>3 DEF SameMoney
  <2>2. \A x \in OrderIds : c.status[x] = "FILLED" <=> b.status[x] = "FILLED"
    BY <1>5 DEF SameOthers, NoRow
  <2> QED BY <1>1, <1>4, <2>1, <2>2, MoneyKept DEF Sound
<1>12. NoBrackets => SharesExact(c)
  <2>1. \A s \in Symbols : SharesOf(c, s, o) = SharesOf(b, s, o)
    BY <1>5 DEF SharesOf, NoRow
  <2> QED BY <1>1, <1>3, <1>5, <2>1, SharesUntouched DEF Sound
<1> QED BY <1>7, <1>8, <1>9, <1>10, <1>11, <1>12 DEF Sound

(* A transition that reserves, books and releases nothing. *)
LEMMA MoveSound ==
    ASSUME NEW b, Typed(b), Sound(b), NEW o \in OrderIds, NEW to \in OrderStatus,
           \/ b.status[o] = "CREATED" /\ to = "RISK_REJECTED"
           \/ b.status[o] = "RISK_APPROVED" /\ to = "FAILED",
           NEW c, Typed(c), c = TransitionOrder(b, o, to)
    PROVE  Sound(c) /\ TrailGrows(b, c, o)
<1>1. b \in Books /\ c \in Books /\ RowsHaveIntents(b) /\ RowsHaveIntents(c)
  BY DEF Typed
<1>2. b.status \in [OrderIds -> OrderStatus \cup {NoRow}]
  BY <1>1 DEF Books
<1>3. /\ c.status = [b.status EXCEPT ![o] = to]
      /\ c.audit = [b.audit EXCEPT ![o] = Append(b.audit[o], to)]
      /\ c.intent = b.intent /\ c.fills = b.fills /\ c.outbox = b.outbox
      /\ SameClock(b, c) /\ SameMoney(b, c) /\ SameGains(b, c)
      /\ SameShares(b, c) /\ SameWorth(b, c)
  BY <1>1, TransitionFields
<1>4. c.status[o] = to /\ SameOthers(b, c, o)
  BY <1>2, <1>3 DEF SameOthers
<1>5. TrailExact(c) /\ TrailGrows(b, c, o)
  <2>1. b.status[o] # NoRow /\ CanTransition(b.status[o], to)
    BY DEF NoRow, CanTransition, AllowedTransitions
  <2> QED BY <1>1, <1>3, <2>1, MoveGrows DEF Sound
<1>6. NoDuplicates(c)
  BY <1>4, DuplicatesKept DEF Sound, Pending
<1>7. WithinCap(c)
  <2>1. PassedToday(c) \subseteq PassedToday(b)
    BY <1>1, <1>3, <1>4 DEF PassedToday, SameOthers, SameClock, Books
  <2> QED BY <1>1, <2>1, CapKept DEF Sound
<1>8. Announced(c)
  <2>1. Announced(b)
    BY DEF Sound
  <2> QED BY <1>3, <1>4, <2>1 DEF Announced, SameOthers
<1>9. LedgerExact(c) /\ EquityExact(c) /\ (NoBrackets => ProfitExact(c))
  <2>1. c.cash + c.frozen = b.cash + b.frozen
    BY <1>3 DEF SameMoney
  <2>2. \A x \in OrderIds : c.status[x] = "FILLED" <=> b.status[x] = "FILLED"
    BY <1>4 DEF SameOthers
  <2> QED BY <1>1, <1>3, <2>1, <2>2, MoneyKept DEF Sound
<1>10. NoBrackets => SharesExact(c)
  <2>1. \A s \in Symbols : SharesOf(c, s, o) = SharesOf(b, s, o)
    BY <1>4 DEF SharesOf
  <2> QED BY <1>1, <1>3, <1>4, <2>1, SharesUntouched DEF Sound
<1> QED BY <1>5, <1>6, <1>7, <1>8, <1>9, <1>10 DEF Sound

(* run_risk_check. *)
LEMMA RiskCheckSound ==
    ASSUME NEW b, Typed(b), Sound(b), NEW o \in OrderIds, b.status[o] = "CREATED",
           NEW q, NEW open, NEW c, Typed(c), c = RunRiskCheck(b, o, q, open)
    PROVE  Sound(c) /\ TrailGrows(b, c, o)
<1>1. CASE ~RiskApproves(b, o, q, open)
  <2>1. c = TransitionOrder(b, o, "RISK_REJECTED") /\ "RISK_REJECTED" \in OrderStatus
    BY <1>1 DEF RunRiskCheck, OrderStatus
  <2> QED BY <2>1, MoveSound
<1>2. CASE RiskApproves(b, o, q, open)
  <2> DEFINE t == TransitionOrder(b, o, "RISK_APPROVED")
  <2>0. "RISK_APPROVED" \in OrderStatus
    BY DEF OrderStatus
  <2>1. b \in Books /\ c \in Books /\ RowsHaveIntents(b) /\ RowsHaveIntents(c)
    BY DEF Typed
  <2>2. b.status \in [OrderIds -> OrderStatus \cup {NoRow}]
    BY <2>1 DEF Books
  <2>3. /\ t.status = [b.status EXCEPT ![o] = "RISK_APPROVED"]
        /\ t.audit = [b.audit EXCEPT ![o] = Append(b.audit[o], "RISK_APPROVED")]
        /\ t.intent = b.intent /\ t.fills = b.fills /\ t.outbox = b.outbox
        /\ SameClock(b, t) /\ SameMoney(b, t) /\ SameGains(b, t)
        /\ SameShares(b, t) /\ SameWorth(b, t) /\ t \in Books
    <3>1. t = TransitionOrder(b, o, "RISK_APPROVED")
      OBVIOUS
    <3> HIDE DEF t
    <3>2. t \in Books
      BY <2>0, <2>1, <3>1, TransitionType
    <3> QED BY <2>0, <2>1, <3>1, <3>2, TransitionFields
  <2>4. c = EnqueueEvent(t, "ORDER_READY_TO_SUBMIT", o)
    BY <1>2 DEF RunRiskCheck
  <2> HIDE DEF t
  <2>5. /\ c.outbox = t.outbox \cup {<<"ORDER_READY_TO_SUBMIT", o>>}
        /\ c.intent = t.intent /\ c.fills = t.fills
        /\ SameTrail(t, c) /\ SameClock(t, c) /\ SameMoney(t, c) /\ SameGains(t, c)
        /\ SameShares(t, c) /\ SameWorth(t, c)
    BY <2>1, <2>3, <2>4, EnqueueFields
  <2>6. /\ c.status = [b.status EXCEPT ![o] = "RISK_APPROVED"]
        /\ c.audit = [b.audit EXCEPT ![o] = Append(b.audit[o], "RISK_APPROVED")]
        /\ c.intent = b.intent /\ c.fills = b.fills
        /\ c.outbox = b.outbox \cup {<<"ORDER_READY_TO_SUBMIT", o>>}
    BY <2>3, <2>5 DEF SameTrail
  <2>7. SameClock(b, c) /\ SameMoney(b, c) /\ SameGains(b, c)
    BY <2>3, <2>5 DEF SameClock, SameMoney, SameGains
  <2>8. SameShares(b, c) /\ SameWorth(b, c)
    BY <2>3, <2>5 DEF SameShares, SameWorth
  <2>9. c.status[o] = "RISK_APPROVED" /\ SameOthers(b, c, o)
    BY <2>2, <2>6 DEF SameOthers
  <2>10. TrailExact(c) /\ TrailGrows(b, c, o)
    <3>1. b.status[o] # NoRow /\ CanTransition(b.status[o], "RISK_APPROVED")
      BY DEF NoRow, CanTransition, AllowedTransitions
    <3> QED BY <2>0, <2>1, <2>6, <3>1, MoveGrows DEF Sound
  <2>11. NoDuplicates(c)
    BY <1>2, <2>1, <2>6, <2>9, ApprovalIsFirst DEF Sound
  <2>12. WithinCap(c)
    BY <1>2, <2>1, <2>7, ApprovalIsWithinCap DEF SameClock
  <2>13. Announced(c)
    <3>1. Announced(b)
      BY DEF Sound
    <3>2. \A x \in OrderIds :
             /\ <<"ORDER_FILLED", x>> \in c.outbox <=> <<"ORDER_FILLED", x>> \in b.outbox
             /\ <<"ORDER_CANCELLED", x>> \in c.outbox <=> <<"ORDER_CANCELLED", x>> \in b.outbox
             /\ <<"ORDER_READY_TO_SUBMIT", x>> \in b.outbox
                   => <<"ORDER_READY_TO_SUBMIT", x>> \in c.outbox
             /\ <<"ORDER_READY_TO_SUBMIT", o>> \in c.outbox
      BY <2>6
    <3> QED BY <2>9, <3>1, <3>2 DEF Announced, SameOthers
  <2>14. LedgerExact(c) /\ EquityExact(c) /\ (NoBrackets => ProfitExact(c))
    <3>1. c.cash + c.frozen = b.cash + b.frozen
      BY <2>7 DEF SameMoney
    <3>2. \A x \in OrderIds : c.status[x] = "FILLED" <=> b.status[x] = "FILLED"
      BY <2>9 DEF SameOthers
    <3> QED BY <2>1, <2>6, <2>7, <2>8, <3>1, <3>2, MoneyKept DEF Sound
  <2>15. NoBrackets => SharesExact(c)
    <3>1. \A s \in Symbols : SharesOf(c, s, o) = SharesOf(b, s, o)
      BY <2>9 DEF SharesOf
    <3> QED BY <2>1, <2>8, <2>9, <3>1, SharesUntouched DEF Sound
  <2> QED BY <2>10, <2>11, <2>12, <2>13, <2>14, <2>15 DEF Sound
<1> QED BY <1>1, <1>2

(* A multiple divides evenly. *)
LEMMA DividesEvenly ==
    ASSUME NEW a \in Int, NEW n \in Nat \ {0}
    PROVE  (a * n) \div n = a
OBVIOUS

(* submit_order, up to the waiting order. *)
LEMMA WaitSound ==
    ASSUME NEW b, Typed(b), Sound(b), NEW o \in OrderIds, b.status[o] = "RISK_APPROVED",
           NEW q \in Quotes, CanReserve(b, o, q),
           NEW r, r = ReserveResources(b, o, q),
           NEW d, d = TransitionOrder(r, o, "SUBMITTING"),
           NEW c, c = TransitionOrder(d, o, "SUBMITTED")
    PROVE  /\ Typed(c) /\ Sound(c) /\ TrailGrows(b, c, o)
           /\ c.status[o] = "SUBMITTED" /\ c.intent = b.intent
<1> DEFINE i == b.intent[o]
<1>1. b \in Books /\ RowsHaveIntents(b) /\ i \in Intents
  BY DEF Typed, RowsHaveIntents, NoRow
<1>2. /\ b.status \in [OrderIds -> OrderStatus \cup {NoRow}]
      /\ b.audit \in [OrderIds -> Seq(OrderStatus)]
      /\ b.avail \in [Symbols -> Int] /\ b.qty \in [Symbols -> Nat]
      /\ i.symbol \in Symbols /\ i.qty \in Nat
  BY <1>1, IntentType DEF Books
<1>3. "SUBMITTING" \in OrderStatus /\ "SUBMITTED" \in OrderStatus
  BY DEF OrderStatus
<1>4. i = b.intent[o]
  OBVIOUS
<1> HIDE DEF i
<1>5. r \in Books /\ r.intent = b.intent /\ r.status = b.status
  BY <1>1, <1>4, ReserveType DEF SameRows
<1>6. /\ r.cash + r.frozen = b.cash + b.frozen
      /\ r.qty = b.qty
      /\ r.avail = IF i.side = "SELL" /\ ~IsBracketOrder(i)
                   THEN [b.avail EXCEPT ![i.symbol] = b.avail[i.symbol] - i.qty]
                   ELSE b.avail
      /\ r.fills = b.fills /\ r.outbox = b.outbox
      /\ SameTrail(b, r) /\ SameClock(b, r) /\ SameGains(b, r) /\ SameWorth(b, r)
  BY <1>1, <1>4, <1>5, ReserveFields
<1>7. d \in Books
  BY <1>3, <1>5, TransitionType
<1>8. /\ d.status = [r.status EXCEPT ![o] = "SUBMITTING"]
      /\ d.audit = [r.audit EXCEPT ![o] = Append(r.audit[o], "SUBMITTING")]
      /\ d.intent = r.intent /\ d.fills = r.fills /\ d.outbox = r.outbox
      /\ SameClock(r, d) /\ SameMoney(r, d) /\ SameGains(r, d)
      /\ SameShares(r, d) /\ SameWorth(r, d)
  <2>1. d = TransitionOrder(r, o, "SUBMITTING") /\ r \in Books /\ "SUBMITTING" \in OrderStatus
    BY <1>3, <1>5
  <2> QED BY ONLY <2>1, <1>7, TransitionFields, o \in OrderIds
<1>9. c \in Books
  BY <1>3, <1>7, TransitionType
<1>10. /\ c.status = [d.status EXCEPT ![o] = "SUBMITTED"]
       /\ c.audit = [d.audit EXCEPT ![o] = Append(d.audit[o], "SUBMITTED")]
       /\ c.intent = d.intent /\ c.fills = d.fills /\ c.outbox = d.outbox
       /\ SameClock(d, c) /\ SameMoney(d, c) /\ SameGains(d, c)
       /\ SameShares(d, c) /\ SameWorth(d, c)
  BY ONLY <1>3, <1>7, <1>9, TransitionFields, o \in OrderIds,
          c = TransitionOrder(d, o, "SUBMITTED")
<1>11. /\ c.intent = b.intent /\ c.fills = b.fills /\ c.outbox = b.outbox
       /\ c.status[o] = "SUBMITTED" /\ SameOthers(b, c, o)
  BY <1>2, <1>5, <1>6, <1>8, <1>10 DEF SameOthers
<1>12. RowsHaveIntents(c)
  BY <1>1, <1>4, <1>11 DEF RowsHaveIntents, SameOthers
<1>13. SameClock(b, c) /\ SameGains(b, c) /\ SameWorth(b, c)
  BY <1>6, <1>8, <1>10 DEF SameClock, SameGains, SameWorth
<1>14. c.cash + c.frozen = b.cash + b.frozen
  BY <1>6, <1>8, <1>10 DEF SameMoney
<1>15. c.qty = r.qty /\ c.avail = r.avail
  BY <1>8, <1>10 DEF SameShares
<1>16. TrailExact(c) /\ TrailGrows(b, c, o)
  <2>1. TrailExact(r) /\ r.status = b.status /\ r.audit = b.audit
    BY <1>6 DEF Sound, TrailExact, SameTrail
  <2>2. r.status[o] # NoRow /\ CanTransition(r.status[o], "SUBMITTING")
    BY <2>1 DEF NoRow, CanTransition, AllowedTransitions
  <2>3. TrailExact(d) /\ TrailGrows(r, d, o)
    BY <1>3, <1>5, <1>7, <1>8, <2>1, <2>2, MoveGrows
  <2>4. d.status[o] = "SUBMITTING"
    BY <1>2, <1>8, <2>1
  <2>5. d.status[o] # NoRow /\ CanTransition(d.status[o], "SUBMITTED")
    BY <2>4 DEF NoRow, CanTransition, AllowedTransitions
  <2>6. TrailExact(c) /\ TrailGrows(d, c, o)
    BY <1>3, <1>7, <1>9, <1>10, <2>3, <2>5, MoveGrows
  <2>7. TrailGrows(b, d, o)
    BY <2>1, <2>3 DEF TrailGrows
  <2> QED BY <1>1, <1>7, <1>9, <2>6, <2>7, GrowsTwice
<1>17. NoDuplicates(c)
  BY <1>11, DuplicatesKept DEF Sound, Pending
<1>18. WithinCap(c)
  <2>1. PassedToday(c) \subseteq PassedToday(b)
    BY <1>1, <1>11, <1>13 DEF PassedToday, SameOthers, SameClock, Books
  <2> QED BY <1>1, <1>9, <2>1, CapKept DEF Sound
<1>19. Announced(c)
  <2>1. Announced(b)
    BY DEF Sound
  <2> QED BY <1>11, <2>1, ZenonT(40) DEF Announced, SameOthers
<1>20. LedgerExact(c) /\ EquityExact(c) /\ (NoBrackets => ProfitExact(c))
  <2>1. \A x \in OrderIds : c.status[x] = "FILLED" <=> b.status[x] = "FILLED"
    BY <1>11 DEF SameOthers
  <2> QED BY <1>1, <1>9, <1>11, <1>13, <1>14, <2>1, MoneyKept DEF Sound
<1>21. NoBrackets => SharesExact(c)
  <2> SUFFICES ASSUME NoBrackets PROVE SharesExact(c)
    OBVIOUS
  <2>1. ~IsBracketOrder(i) /\ SharesExact(b)
    BY <1>1 DEF NoBrackets, Sound
  <2>2. i.side = "SELL" => b.avail[i.symbol] >= i.qty
    BY <1>4, <2>1 DEF CanReserve
  <2>3. ASSUME NEW s \in Symbols
        PROVE  /\ c.qty[s] - c.avail[s] - SharesOf(c, s, o)
                    = b.qty[s] - b.avail[s] - SharesOf(b, s, o)
               /\ c.avail[s] >= 0
    <3>1. b.avail[s] \in Int /\ b.qty[s] \in Int /\ b.avail[s] >= 0
      BY <1>2, <2>1 DEF SharesExact, SymbolExact
    <3>2. SharesOf(b, s, o) = 0
      BY DEF SharesOf
    <3>3. SharesOf(c, s, o) = IF i.side = "SELL" /\ i.symbol = s THEN i.qty ELSE 0
      BY <1>4, <1>11, <2>1 DEF SharesOf
    <3>4. c.qty[s] = b.qty[s]
      BY <1>6, <1>15
    <3>5. c.avail[s] = IF i.side = "SELL" /\ i.symbol = s THEN b.avail[s] - i.qty ELSE b.avail[s]
      BY <1>2, <1>6, <1>15, <2>1
    <3> QED BY <1>2, <2>2, <3>1, <3>2, <3>3, <3>4, <3>5
  <2> QED BY <1>1, <1>9, <1>11, <1>12, <2>1, <2>3, SharesKept
<1> QED BY <1>9, <1>11, <1>12, <1>16, <1>17, <1>18, <1>19, <1>20, <1>21 DEF Sound, Typed

(* cancel_order. *)
LEMMA CancelSound ==
    ASSUME NEW b, Typed(b), Sound(b), NEW o \in OrderIds, b.status[o] = "SUBMITTED",
           NEW c, Typed(c), c = CancelOrder(b, o)
    PROVE  Sound(c) /\ TrailGrows(b, c, o)
<1> DEFINE i == b.intent[o]
           p == TransitionOrder(b, o, "CANCEL_PENDING")
           r == ReleaseResources(p, o)
           d == TransitionOrder(r, o, "CANCELLED")
<1>1. b \in Books /\ c \in Books /\ RowsHaveIntents(b) /\ RowsHaveIntents(c) /\ i \in Intents
  BY DEF Typed, RowsHaveIntents, NoRow
<1>2. /\ b.status \in [OrderIds -> OrderStatus \cup {NoRow}]
      /\ b.audit \in [OrderIds -> Seq(OrderStatus)]
      /\ b.avail \in [Symbols -> Int] /\ b.qty \in [Symbols -> Nat]
      /\ i.symbol \in Symbols /\ i.qty \in Nat
  BY <1>1, IntentType DEF Books
<1>3. "CANCEL_PENDING" \in OrderStatus /\ "CANCELLED" \in OrderStatus
  BY DEF OrderStatus
<1>4. /\ c = EnqueueEvent(d, "ORDER_CANCELLED", o)
      /\ d = TransitionOrder(r, o, "CANCELLED")
      /\ r = ReleaseResources(p, o)
      /\ p = TransitionOrder(b, o, "CANCEL_PENDING")
      /\ i = b.intent[o]
  BY DEF CancelOrder
<1> HIDE DEF i, p, r, d
<1>5. p \in Books
  BY <1>1, <1>3, <1>4, TransitionType
<1>6. /\ p.status = [b.status EXCEPT ![o] = "CANCEL_PENDING"]
      /\ p.audit = [b.audit EXCEPT ![o] = Append(b.audit[o], "CANCEL_PENDING")]
      /\ p.intent = b.intent /\ p.fills = b.fills /\ p.outbox = b.outbox
      /\ SameClock(b, p) /\ SameMoney(b, p) /\ SameGains(b, p)
      /\ SameShares(b, p) /\ SameWorth(b, p)
  <2>1. p = TransitionOrder(b, o, "CANCEL_PENDING")
    BY <1>4
  <2> QED BY ONLY <1>1, <1>3, <1>5, <2>1, TransitionFields, o \in OrderIds
<1>7. p.intent[o] = i /\ p.intent[o] \in Intents
  BY <1>1, <1>4, <1>6
<1>8. r \in Books /\ r.intent = p.intent
  BY <1>4, <1>5, <1>7, ReleaseType DEF SameRows
<1>9. /\ r.cash + r.frozen = p.cash + p.frozen
      /\ r.qty = p.qty
      /\ r.avail = IF i.side = "SELL" /\ ~IsBracketOrder(i)
                   THEN [p.avail EXCEPT ![i.symbol] = p.avail[i.symbol] + i.qty]
                   ELSE p.avail
      /\ r.fills = p.fills /\ r.outbox = p.outbox
      /\ SameTrail(p, r) /\ SameClock(p, r) /\ SameGains(p, r) /\ SameWorth(p, r)
  BY <1>4, <1>5, <1>7, <1>8, ReleaseFields
<1>10. d \in Books
  BY <1>3, <1>4, <1>8, TransitionType
<1>11. /\ d.status = [r.status EXCEPT ![o] = "CANCELLED"]
       /\ d.audit = [r.audit EXCEPT ![o] = Append(r.audit[o], "CANCELLED")]
       /\ d.intent = r.intent /\ d.fills = r.fills /\ d.outbox = r.outbox
       /\ SameClock(r, d) /\ SameMoney(r, d) /\ SameGains(r, d)
       /\ SameShares(r, d) /\ SameWorth(r, d)
  BY <1>3, <1>4, <1>8, <1>10, TransitionFields
<1>12. /\ c.outbox = d.outbox \cup {<<"ORDER_CANCELLED", o>>}
       /\ c.intent = d.intent /\ c.fills = d.fills
       /\ SameTrail(d, c) /\ SameClock(d, c) /\ SameMoney(d, c) /\ SameGains(d, c)
       /\ SameShares(d, c) /\ SameWorth(d, c)
  BY <1>1, <1>4, <1>10, EnqueueFields
<1>13. /\ c.intent = b.intent /\ c.fills = b.fills
       /\ c.outbox = b.outbox \cup {<<"ORDER_CANCELLED", o>>}
  BY <1>6, <1>8, <1>9, <1>11, <1>12
<1>14. p.status[o] = "CANCEL_PENDING" /\ SameOthers(b, p, o)
  BY <1>2, <1>6 DEF SameOthers
<1>15. c.status[o] = "CANCELLED" /\ SameOthers(b, c, o)
  BY <1>2, <1>6, <1>9, <1>11, <1>12, <1>13 DEF SameOthers, SameTrail
<1>16. SameClock(b, c) /\ SameGains(b, c) /\ SameWorth(b, c)
  BY <1>6, <1>9, <1>11, <1>12 DEF SameClock, SameGains, SameWorth
<1>17. c.cash + c.frozen = b.cash + b.frozen
  BY <1>6, <1>9, <1>11, <1>12 DEF SameMoney
<1>18. /\ c.qty = b.qty
       /\ c.avail = IF i.side = "SELL" /\ ~IsBracketOrder(i)
                    THEN [b.avail EXCEPT ![i.symbol] = b.avail[i.symbol] + i.qty]
                    ELSE b.avail
  BY <1>6, <1>9, <1>11, <1>12 DEF SameShares
<1>19. TrailExact(c) /\ TrailGrows(b, c, o)
  <2>1. b.status[o] # NoRow /\ CanTransition(b.status[o], "CANCEL_PENDING")
    BY DEF NoRow, CanTransition, AllowedTransitions
  <2>2. TrailExact(p) /\ TrailGrows(b, p, o)
    BY <1>1, <1>3, <1>5, <1>6, <2>1, MoveGrows DEF Sound
  <2>3. TrailExact(r) /\ r.status = p.status /\ r.audit = p.audit
    BY <1>9, <2>2 DEF TrailExact, SameTrail
  <2>4. r.status[o] # NoRow /\ CanTransition(r.status[o], "CANCELLED")
    BY <1>14, <2>3 DEF NoRow, CanTransition, AllowedTransitions
  <2>5. TrailExact(d) /\ TrailGrows(r, d, o)
    BY <1>3, <1>8, <1>10, <1>11, <2>3, <2>4, MoveGrows
  <2>6. TrailExact(c) /\ TrailGrows(p, c, o)
    BY <1>12, <2>3, <2>5 DEF TrailExact, TrailGrows, SameTrail
  <2> QED BY <1>1, <1>5, <2>2, <2>6, GrowsTwice
<1>20. NoDuplicates(c)
  BY <1>15, DuplicatesKept DEF Sound, Pending
<1>21. WithinCap(c)
  <2>1. PassedToday(c) \subseteq PassedToday(b)
    BY <1>1, <1>15, <1>16 DEF PassedToday, SameOthers, SameClock, Books
  <2> QED BY <1>1, <2>1, CapKept DEF Sound
<1>22. Announced(c)
  <2>1. Announced(b)
    BY DEF Sound
  <2>2. \A x \in OrderIds :
           /\ <<"ORDER_FILLED", x>> \in c.outbox <=> <<"ORDER_FILLED", x>> \in b.outbox
           /\ <<"ORDER_CANCELLED", x>> \in c.outbox
                 <=> <<"ORDER_CANCELLED", x>> \in b.outbox \/ x = o
           /\ <<"ORDER_READY_TO_SUBMIT", x>> \in b.outbox
                 => <<"ORDER_READY_TO_SUBMIT", x>> \in c.outbox
    BY <1>13
  <2> QED BY <1>15, <2>1, <2>2 DEF Announced, SameOthers
<1>23. LedgerExact(c) /\ EquityExact(c) /\ (NoBrackets => ProfitExact(c))
  <2>1. \A x \in OrderIds : c.status[x] = "FILLED" <=> b.status[x] = "FILLED"
    BY <1>15 DEF SameOthers
  <2> QED BY <1>1, <1>13, <1>16, <1>17, <2>1, MoneyKept DEF Sound
<1>24. NoBrackets => SharesExact(c)
  <2> SUFFICES ASSUME NoBrackets PROVE SharesExact(c)
    OBVIOUS
  <2>1. ~IsBracketOrder(i) /\ SharesExact(b)
    BY <1>1 DEF NoBrackets, Sound
  <2>3. ASSUME NEW s \in Symbols
        PROVE  /\ c.qty[s] - c.avail[s] - SharesOf(c, s, o)
                    = b.qty[s] - b.avail[s] - SharesOf(b, s, o)
               /\ c.avail[s] >= 0
    <3>1. b.avail[s] \in Int /\ b.qty[s] \in Int /\ b.avail[s] >= 0
      BY <1>2, <2>1 DEF SharesExact, SymbolExact
    <3>2. SharesOf(c, s, o) = 0
      BY <1>15 DEF SharesOf
    <3>3. SharesOf(b, s, o) = IF i.side = "SELL" /\ i.symbol = s THEN i.qty ELSE 0
      BY <1>4, <2>1 DEF SharesOf
    <3>4. c.qty[s] = b.qty[s]
      BY <1>18
    <3>5. c.avail[s] = IF i.side = "SELL" /\ i.symbol = s THEN b.avail[s] + i.qty ELSE b.avail[s]
      BY <1>2, <1>18, <2>1
    <3> QED BY <1>2, <3>1, <3>2, <3>3, <3>4, <3>5
  <2> QED BY <1>1, <1>15, <2>1, <2>3, SharesKept
<1> QED BY <1>19, <1>20, <1>21, <1>22, <1>23, <1>24 DEF Sound

(* A fill books one row, of the amount by which the account changes. *)
LEMMA LedgerGrows ==
    ASSUME NEW b \in Books, NEW c \in Books, NEW o \in OrderIds, NEW amount \in Int,
           LedgerExact(b), OneRow(b, c, o, amount), SameOthers(b, c, o),
           b.status[o] # "FILLED", c.status[o] = "FILLED"
    PROVE  LedgerExact(c)
<1>1. b.fills \in [OrderIds -> Seq(FillRow)] /\ b.cash \in Int /\ b.frozen \in Int
  BY DEF Books, FillRow
<1>2. PICK row \in FillRow :
         row.amount = amount /\ c.fills = [b.fills EXCEPT ![o] = Append(b.fills[o], row)]
  BY DEF OneRow
<1>3. b.fills[o] = << >>
  <2>1. Len(b.fills[o]) = 0
    BY DEF LedgerExact
  <2> QED BY <1>1, <2>1
<1>4. c.fills[o] = <<row>> /\ \A x \in OrderIds \ {o} : c.fills[x] = b.fills[x]
  BY <1>1, <1>2, <1>3
<1> DEFINE Amounts(f) == [n \in DOMAIN f |-> f[n].amount]
<1>5. ASSUME NEW f \in Seq(FillRow)
      PROVE  SumTo(Amounts(f), Len(f)) \in Int
  <2>1. Len(f) \in Nat /\ DOMAIN f = 1..Len(f) /\ \A n \in 1..Len(f) : f[n] \in FillRow
    OBVIOUS
  <2>2. \A n \in 1..Len(f) : f[n].amount \in Int
    BY <2>1 DEF FillRow
  <2>3. Amounts(f) \in [1..Len(f) -> Int]
    BY <2>1, <2>2
  <2> HIDE DEF Amounts
  <2> QED BY <2>1, <2>3, SumToType
<1>6. /\ SumTo(Amounts(c.fills[o]), Len(c.fills[o])) = amount
      /\ SumTo(Amounts(b.fills[o]), Len(b.fills[o])) = 0
  <2>1. Amounts(<<row>>) = [n \in 1..1 |-> amount]
    BY <1>2
  <2>2. SumTo([n \in 1..1 |-> amount], 1) = amount
    <3>1. [n \in 1..1 |-> amount] \in [1..1 -> Int] /\ [n \in 1..1 |-> amount][1] = amount
      OBVIOUS
    <3> QED BY <3>1, SumToOne
  <2>3. Len(<<row>>) = 1 /\ Len(<< >>) = 0
    OBVIOUS
  <2>4. Amounts(<< >>) \in [1..0 -> Int]
    OBVIOUS
  <2>5. SumTo(Amounts(<< >>), 0) = 0
    BY <2>4, SumToNone
  <2> HIDE DEF Amounts
  <2> QED BY <1>3, <1>4, <2>1, <2>2, <2>3, <2>5
<1>7. \A x \in OrderIds : c.fills[x] \in Seq(FillRow) /\ b.fills[x] \in Seq(FillRow)
  BY DEF Books, FillRow
<1>8. /\ Booked(b) = [x \in OrderIds |-> SumTo(Amounts(b.fills[x]), Len(b.fills[x]))]
      /\ Booked(c) = [x \in OrderIds |-> SumTo(Amounts(c.fills[x]), Len(c.fills[x]))]
  BY DEF Booked
<1> HIDE DEF Amounts
<1>9. /\ Booked(b) \in [1..MaxOrders -> Int] /\ Booked(c) \in [1..MaxOrders -> Int]
      /\ Booked(b)[o] = 0 /\ Booked(c)[o] = amount
      /\ \A x \in 1..MaxOrders : o # x => Booked(c)[x] = Booked(b)[x]
  <2>1. \A x \in OrderIds :
           /\ SumTo(Amounts(b.fills[x]), Len(b.fills[x])) \in Int
           /\ SumTo(Amounts(c.fills[x]), Len(c.fills[x])) \in Int
    BY <1>5, <1>7
  <2>2. Booked(b) \in [1..MaxOrders -> Int] /\ Booked(c) \in [1..MaxOrders -> Int]
    BY <1>8, <2>1 DEF OrderIds
  <2>3. Booked(b)[o] = 0 /\ Booked(c)[o] = amount
    BY <1>6, <1>8
  <2>4. \A x \in 1..MaxOrders : o # x => Booked(c)[x] = Booked(b)[x]
    BY <1>4, <1>8 DEF OrderIds
  <2> QED BY <2>2, <2>3, <2>4
<1>10. MaxOrders \in Nat /\ o \in 1..MaxOrders /\ InitCash \in Int
  BY BookAssumption DEF OrderIds
<1>11. SumTo(Booked(c), MaxOrders) = SumTo(Booked(b), MaxOrders) + (amount - 0)
       /\ SumTo(Booked(b), MaxOrders) \in Int
  BY <1>9, <1>10, SumToUpdate, SumToType
<1>12. c.cash + c.frozen = InitCash + SumTo(Booked(c), MaxOrders)
  BY <1>1, <1>10, <1>11 DEF LedgerExact, OneRow
<1>13. \A x \in OrderIds : Len(c.fills[x]) = IF c.status[x] = "FILLED" THEN 1 ELSE 0
  <2>1. Len(<<row>>) = 1
    OBVIOUS
  <2> QED BY <1>4, <2>1 DEF LedgerExact, SameOthers
<1> QED BY <1>12, <1>13 DEF LedgerExact

(* Changing one position changes the sum over the positions. *)
LEMMA PositionsUpdate ==
    ASSUME NEW f \in [Symbols -> Int], NEW s \in Symbols, NEW x \in Int
    PROVE  SumTo([f EXCEPT ![s] = f[s] + x], NSymbols) = SumTo(f, NSymbols) + x
           /\ SumTo(f, NSymbols) \in Int
<1> DEFINE g == [f EXCEPT ![s] = f[s] + x]
<1>1. /\ f \in [1..NSymbols -> Int] /\ g \in [1..NSymbols -> Int]
      /\ s \in 1..NSymbols /\ NSymbols \in Nat
      /\ \A k \in 1..NSymbols : s # k => g[k] = f[k]
      /\ g[s] = f[s] + x /\ f[s] \in Int
  BY BookAssumption DEF Symbols
<1> HIDE DEF g
<1>2. SumTo(g, NSymbols) = SumTo(f, NSymbols) + (g[s] - f[s]) /\ SumTo(f, NSymbols) \in Int
  BY <1>1, SumToUpdate, SumToType
<1> QED BY <1>1, <1>2 DEF g

(* A waiting sell order holds shares of the position, so that there are     *)
(* enough of them.                                                          *)
LEMMA SharesSuffice ==
    ASSUME NEW b, Typed(b), SharesExact(b), NEW o \in OrderIds, b.status[o] = "SUBMITTED",
           b.intent[o].side = "SELL", ~IsBracketOrder(b.intent[o])
    PROVE  b.qty[b.intent[o].symbol] >= b.intent[o].qty
<1> DEFINE i == b.intent[o]
           s == i.symbol
           h == SumTo(HeldShares(b, s), MaxOrders)
<1>1. b \in Books /\ RowsHaveIntents(b) /\ i \in Intents
  BY DEF Typed, RowsHaveIntents, NoRow
<1>2. s \in Symbols /\ i.qty \in Nat /\ b.qty[s] \in Nat /\ b.avail[s] \in Int
  BY <1>1, IntentType DEF Books
<1>3. HeldShares(b, s)[o] = i.qty
  BY DEF HeldShares
<1>4. h \in Int /\ h >= HeldShares(b, s)[o]
  <2>1. /\ HeldShares(b, s) \in [1..MaxOrders -> Int]
        /\ \A x \in 1..MaxOrders : HeldShares(b, s)[x] >= 0
        /\ h \in Int
    BY <1>1, <1>2, HeldSharesType
  <2>2. o \in 1..MaxOrders /\ MaxOrders \in Nat
    BY BookAssumption DEF OrderIds
  <2> QED BY <2>1, <2>2, SumToBounds
<1>5. b.qty[s] = b.avail[s] + h /\ b.avail[s] >= 0
  BY <1>2 DEF SharesExact, SymbolExact
<1> HIDE DEF h
<1> QED BY <1>2, <1>3, <1>4, <1>5

(* _apply_fill of a waiting order. *)
LEMMA FillSound ==
    ASSUME NEW b, Typed(b), Sound(b), NEW o \in OrderIds, b.status[o] = "SUBMITTED",
           NEW p \in Nat, NEW c, c = ApplyFill(b, o, p)
    PROVE  Sound(c) /\ TrailGrows(b, c, o)
<1> DEFINE i == b.intent[o]
           d == Settled(b, o, p)
           w == WithCommission(i.qty, p)
           net == Gross(i.qty, p) - Commission(i.qty, p)
           cost == CostOf(b, i.symbol, i.qty)
           left == b.qty[i.symbol] - i.qty
<1>1. b \in Books /\ RowsHaveIntents(b) /\ i \in Intents
  BY DEF Typed, RowsHaveIntents, NoRow
<1>2. /\ i.symbol \in Symbols /\ i.qty \in Nat \ {0} /\ i.side \in {"BUY", "SELL"}
  BY <1>1, IntentType DEF OrderSide
<1>3. /\ b.status \in [OrderIds -> OrderStatus \cup {NoRow}]
      /\ b.avail \in [Symbols -> Int] /\ b.qty \in [Symbols -> Nat]
      /\ b.basis \in [Symbols -> Int] /\ b.realized \in Int
      /\ b.cash \in Int /\ b.frozen \in Int
  BY <1>1 DEF Books
<1>4. /\ i = b.intent[o] /\ d = Settled(b, o, p)
      /\ w = WithCommission(i.qty, p)
      /\ net = Gross(i.qty, p) - Commission(i.qty, p)
      /\ cost = CostOf(b, i.symbol, i.qty)
      /\ left = b.qty[i.symbol] - i.qty
  OBVIOUS
<1> HIDE DEF i, d, w, net, cost, left
<1>5. i.side = "BUY" => d \in Books /\ Bought(b, d, o, i, w)
  <2> SUFFICES ASSUME i.side = "BUY" PROVE d \in Books /\ Bought(b, d, o, i, w)
    OBVIOUS
  <2>1. d = SettleBuy(b, o, p)
    BY <1>4 DEF Settled
  <2>2. d \in Books
    BY <1>1, <1>4, <2>1, SettleBuyType
  <2> QED BY <1>1, <1>4, <2>1, <2>2, SettleBuyFields
<1>6. i.side = "SELL" => d \in Books /\ Sold(b, d, o, i, net, cost, left)
  <2> SUFFICES ASSUME i.side = "SELL" PROVE d \in Books /\ Sold(b, d, o, i, net, cost, left)
    OBVIOUS
  <2>1. d = SettleSell(b, o, p)
    BY <1>4 DEF Settled
  <2>2. d \in Books
    BY <1>1, <1>4, <2>1, SettleSellType
  <2> QED BY <1>1, <1>4, <2>1, <2>2, SettleSellFields
<1>7. /\ c \in Books /\ c.intent = b.intent
      /\ c.status = [b.status EXCEPT ![o] = "FILLED"]
      /\ c.audit = [b.audit EXCEPT ![o] = Append(b.audit[o], "FILLED")]
      /\ c.outbox = (b.outbox \cup {<<"ORDER_FILLED", o>>})
                       \cup {<<"POSITION_UPDATED", i.symbol>>}
      /\ c.equity = c.cash + c.frozen + SumTo(c.mval, NSymbols)
      /\ SameMoney(d, c) /\ SameShares(d, c)
      /\ c.basis = d.basis /\ c.realized = d.realized /\ c.fills = d.fills
      /\ SameClock(b, c)
  <2>1. FilledBy(b, d, c, o)
    BY <1>1, <1>4, FillFields
  <2> QED BY <1>4, <2>1 DEF FilledBy
<1>8. c.status[o] = "FILLED" /\ SameOthers(b, c, o)
  BY <1>3, <1>7 DEF SameOthers
<1>9. RowsHaveIntents(c)
  BY <1>1, <1>4, <1>7, <1>8 DEF RowsHaveIntents, SameOthers
<1>10. TrailExact(c) /\ TrailGrows(b, c, o)
  <2>1. b.status[o] # NoRow /\ CanTransition(b.status[o], "FILLED") /\ "FILLED" \in OrderStatus
    BY DEF NoRow, CanTransition, AllowedTransitions, OrderStatus
  <2> QED BY <1>1, <1>7, <2>1, MoveGrows DEF Sound
<1>11. NoDuplicates(c)
  BY <1>8, DuplicatesKept DEF Sound, Pending
<1>12. WithinCap(c)
  <2>1. PassedToday(c) \subseteq PassedToday(b)
    BY <1>1, <1>7, <1>8 DEF PassedToday, SameOthers, SameClock, Books
  <2> QED BY <1>1, <1>7, <2>1, CapKept DEF Sound
<1>13. Announced(c)
  <2>1. Announced(b)
    BY DEF Sound
  <2>2. \A x \in OrderIds :
           /\ <<"ORDER_CANCELLED", x>> \in c.outbox <=> <<"ORDER_CANCELLED", x>> \in b.outbox
           /\ <<"ORDER_FILLED", x>> \in c.outbox
                 <=> <<"ORDER_FILLED", x>> \in b.outbox \/ x = o
           /\ <<"ORDER_READY_TO_SUBMIT", x>> \in b.outbox
                 => <<"ORDER_READY_TO_SUBMIT", x>> \in c.outbox
    BY <1>7
  <2> QED BY <1>8, <2>1, <2>2 DEF Announced, SameOthers
<1>14. EquityExact(c)
  BY <1>7 DEF EquityExact
<1>15. LedgerExact(c)
  <2>1. ASSUME NEW a \in Int, OneRow(b, d, o, a) PROVE LedgerExact(c)
    <3>1. OneRow(b, c, o, a)
      BY <1>7, <2>1 DEF OneRow, SameMoney
    <3> QED BY <1>1, <1>7, <1>8, <3>1, LedgerGrows DEF Sound
  <2>2. CASE i.side = "BUY"
    <3>1. OneRow(b, d, o, -w) /\ -w \in Int
      BY <1>5, <2>2 DEF Bought
    <3> QED BY <2>1, <3>1
  <2>3. CASE i.side = "SELL"
    <3>1. OneRow(b, d, o, net) /\ net \in Int
      BY <1>6, <2>3 DEF Sold
    <3> QED BY <2>1, <3>1
  <2> QED BY <1>2, <2>2, <2>3
<1>16. NoBrackets /\ i.side = "SELL" => left >= 0
  <2> SUFFICES ASSUME NoBrackets, i.side = "SELL" PROVE left >= 0
    OBVIOUS
  <2>1. ~IsBracketOrder(i) /\ SharesExact(b)
    BY <1>1 DEF NoBrackets, Sound
  <2>2. b.qty[i.symbol] >= i.qty
    BY <1>4, <2>1, SharesSuffice
  <2> QED BY <1>2, <1>3, <1>4, <2>2
<1>17. NoBrackets => ProfitExact(c)
  <2> SUFFICES ASSUME NoBrackets PROVE ProfitExact(c)
    OBVIOUS
  <2>0. ProfitExact(b) /\ InitCash + NSymbols * InitCost \in Int
    BY BookAssumption DEF Sound
  <2>1. ASSUME NEW x \in Int, NEW y \in Int,
               c.cash + c.frozen = b.cash + b.frozen + y,
               c.basis = [b.basis EXCEPT ![i.symbol] = b.basis[i.symbol] + x],
               c.realized = b.realized + (x + y)
        PROVE  ProfitExact(c)
    <3> DEFINE sb == SumTo(b.basis, NSymbols)
               sc == SumTo(c.basis, NSymbols)
               seed == InitCash + NSymbols * InitCost
               mb == b.cash + b.frozen
               mc == c.cash + c.frozen
    <3>1. sc = sb + x /\ sb \in Int
      BY <1>2, <1>3, <2>1, PositionsUpdate
    <3>2. mb + sb = seed + b.realized /\ mb \in Int /\ seed \in Int
      BY <1>3, <2>0 DEF ProfitExact
    <3>3. mc = mb + y
      BY <2>1
    <3>4. ProfitExact(c) <=> mc + sc = seed + c.realized
      BY DEF ProfitExact
    <3> HIDE DEF sb, sc, seed, mb, mc
    <3> QED BY <1>3, <2>1, <3>1, <3>2, <3>3, <3>4
  <2>2. CASE i.side = "BUY"
    <3>1. /\ w \in Nat
          /\ d.cash + d.frozen = b.cash + b.frozen + -w
          /\ d.basis = [b.basis EXCEPT ![i.symbol] = b.basis[i.symbol] + w]
          /\ d.realized = b.realized
      BY <1>5, <2>2 DEF Bought, OneRow, SameGains
    <3>2. c.cash + c.frozen = b.cash + b.frozen + -w
      BY <1>7, <3>1 DEF SameMoney
    <3>3. c.realized = b.realized + (w + -w) /\ w \in Int /\ -w \in Int
      BY <1>3, <1>7, <3>1
    <3> QED BY <1>7, <2>1, <3>1, <3>2, <3>3
  <2>3. CASE i.side = "SELL"
    <3>1. /\ net \in Int /\ cost \in Int
          /\ d.cash + d.frozen = b.cash + b.frozen + net
          /\ d.basis = [b.basis EXCEPT ![i.symbol] = IF left <= 0 THEN 0
                                                     ELSE b.basis[i.symbol] - cost]
          /\ d.realized = b.realized + (net - cost)
      BY <1>6, <2>3 DEF Sold, OneRow
    <3>2. left = 0 => cost = b.basis[i.symbol]
      <4> SUFFICES ASSUME left = 0 PROVE cost = b.basis[i.symbol]
        OBVIOUS
      <4>1. b.qty[i.symbol] = i.qty /\ b.basis[i.symbol] \in Int
        BY <1>2, <1>3, <1>4
      <4>2. cost = (b.basis[i.symbol] * i.qty) \div i.qty
        BY <1>2, <1>4, <4>1 DEF CostOf
      <4> QED BY <1>2, <4>1, <4>2, DividesEvenly
    <3>3. (IF left <= 0 THEN 0 ELSE b.basis[i.symbol] - cost) = b.basis[i.symbol] + -cost
      <4>1. left >= 0 /\ b.basis[i.symbol] \in Int /\ left \in Int
        BY <1>2, <1>3, <1>4, <1>16, <2>3
      <4> QED BY <3>1, <3>2, <4>1
    <3>4. c.basis = [b.basis EXCEPT ![i.symbol] = b.basis[i.symbol] + -cost]
      BY <1>7, <3>1, <3>3
    <3>5. c.cash + c.frozen = b.cash + b.frozen + net
      BY <1>7, <3>1 DEF SameMoney
    <3>6. c.realized = b.realized + (-cost + net) /\ -cost \in Int
      BY <1>3, <1>7, <3>1
    <3> QED BY <2>1, <3>1, <3>4, <3>5, <3>6
  <2> QED BY <1>2, <2>2, <2>3
<1>18. NoBrackets => SharesExact(c)
  <2> SUFFICES ASSUME NoBrackets PROVE SharesExact(c)
    OBVIOUS
  <2>1. ~IsBracketOrder(i) /\ SharesExact(b)
    BY <1>1 DEF NoBrackets, Sound
  <2>2. ASSUME NEW s \in Symbols
        PROVE  /\ c.qty[s] - c.avail[s] - SharesOf(c, s, o)
                    = b.qty[s] - b.avail[s] - SharesOf(b, s, o)
               /\ c.avail[s] >= 0
    <3>1. b.avail[s] \in Int /\ b.qty[s] \in Int /\ b.avail[s] >= 0
      BY <1>3, <2>1 DEF SharesExact, SymbolExact
    <3>2. SharesOf(c, s, o) = 0
      BY <1>8 DEF SharesOf
    <3>3. SharesOf(b, s, o) = IF i.side = "SELL" /\ i.symbol = s THEN i.qty ELSE 0
      BY <1>4, <2>1 DEF SharesOf
    <3>4. CASE i.side = "BUY"
      <4>1. /\ c.qty = [b.qty EXCEPT ![i.symbol] = b.qty[i.symbol] + i.qty]
            /\ c.avail = [b.avail EXCEPT ![i.symbol] = b.avail[i.symbol] + i.qty]
        BY <1>5, <1>7, <3>4 DEF Bought, SameShares
      <4>2. /\ c.qty[s] = IF i.symbol = s THEN b.qty[s] + i.qty ELSE b.qty[s]
            /\ c.avail[s] = IF i.symbol = s THEN b.avail[s] + i.qty ELSE b.avail[s]
        BY <1>2, <1>3, <4>1
      <4> QED BY <1>2, <3>1, <3>2, <3>3, <3>4, <4>2
    <3>5. CASE i.side = "SELL"
      <4>1. /\ c.qty = [b.qty EXCEPT ![i.symbol] = IF left <= 0 THEN 0 ELSE left]
            /\ c.avail = b.avail
        BY <1>6, <1>7, <3>5 DEF Sold, SameShares
      <4>2. c.qty[s] = IF i.symbol = s THEN b.qty[s] - i.qty ELSE b.qty[s]
        BY <1>2, <1>3, <1>4, <1>16, <3>5, <4>1
      <4> QED BY <1>2, <3>1, <3>2, <3>3, <3>5, <4>1, <4>2
    <3> QED BY <1>2, <3>4, <3>5
  <2> QED BY <1>1, <1>7, <1>8, <1>9, <2>1, <2>2, SharesKept
<1> QED BY <1>10, <1>11, <1>12, <1>13, <1>14, <1>15, <1>17, <1>18 DEF Sound

(* submit_order. *)
LEMMA SubmitSound ==
    ASSUME NEW b, Typed(b), Sound(b), NEW o \in OrderIds, b.status[o] = "RISK_APPROVED",
           NEW q \in Quotes, NEW c, Typed(c), c = SubmitOrder(b, o, q)
    PROVE  Sound(c) /\ TrailGrows(b, c, o)
<1> DEFINE r == ReserveResources(b, o, q)
           d == TransitionOrder(r, o, "SUBMITTING")
           t == TransitionOrder(d, o, "SUBMITTED")
           p == FillPrice(b.intent[o], q)
<1>1. CASE ~Accepts(b, o, q)
  <2>1. c = TransitionOrder(b, o, "FAILED") /\ "FAILED" \in OrderStatus
    BY <1>1 DEF SubmitOrder, OrderStatus
  <2> QED BY <2>1, MoveSound
<1>2. CASE Accepts(b, o, q)
  <2>1. c = IF p = 0 THEN t ELSE ApplyFill(t, o, p)
    BY <1>2 DEF SubmitOrder
  <2>2. /\ r = ReserveResources(b, o, q)
        /\ d = TransitionOrder(r, o, "SUBMITTING")
        /\ t = TransitionOrder(d, o, "SUBMITTED")
    OBVIOUS
  <2>3. CanReserve(b, o, q)
    BY <1>2 DEF Accepts
  <2>4. p \in Nat
    <3>1. b.intent[o] \in Intents
      BY DEF Typed, RowsHaveIntents, NoRow
    <3> QED BY <3>1, FillPriceFacts
  <2> HIDE DEF r, d, t, p
  <2>5. Typed(t) /\ Sound(t) /\ TrailGrows(b, t, o) /\ t.status[o] = "SUBMITTED"
    BY <2>2, <2>3, WaitSound
  <2>6. CASE p = 0
    BY <2>1, <2>5, <2>6
  <2>7. CASE p # 0
    <3>1. c = ApplyFill(t, o, p)
      BY <2>1, <2>7
    <3>2. Sound(c) /\ TrailGrows(t, c, o)
      BY <2>4, <2>5, <3>1, FillSound
    <3> QED BY <2>5, <3>2, GrowsTwice DEF Typed
  <2> QED BY <2>6, <2>7
<1> QED BY <1>1, <1>2

(* Forgetting the age of an order. *)
LEMMA ClockSound ==
    ASSUME NEW b \in Books, Sound(b), NEW f \in SUBSET OrderIds, NEW n \in SUBSET OrderIds,
           n \subseteq b.today,
           NEW c \in Books, c = [b EXCEPT !.fresh = f, !.today = n]
    PROVE  Sound(c) /\ c.audit = b.audit
<1>1. /\ c.status = b.status /\ c.audit = b.audit /\ c.intent = b.intent
      /\ c.fills = b.fills /\ c.outbox = b.outbox /\ c.today \subseteq b.today
      /\ SameMoney(b, c) /\ SameGains(b, c) /\ SameShares(b, c) /\ SameWorth(b, c)
  BY DEF Books, SameMoney, SameGains, SameShares, SameWorth
<1>2. TrailExact(c) /\ NoDuplicates(c) /\ Announced(c)
  BY <1>1 DEF Sound, TrailExact, NoDuplicates, Announced
<1>3. WithinCap(c)
  <2>1. PassedToday(c) \subseteq PassedToday(b)
    BY <1>1 DEF PassedToday
  <2> QED BY <2>1, CapKept DEF Sound
<1>4. LedgerExact(c) /\ EquityExact(c) /\ (NoBrackets => ProfitExact(c))
  <2>1. c.cash + c.frozen = b.cash + b.frozen
    BY <1>1 DEF SameMoney
  <2>2. \A x \in OrderIds : c.status[x] = "FILLED" <=> b.status[x] = "FILLED"
    BY <1>1
  <2>3. /\ LedgerExact(b) => LedgerExact(c)
        /\ EquityExact(b) => EquityExact(c)
        /\ ProfitExact(b) => ProfitExact(c)
    BY ONLY <1>1, <2>1, <2>2, MoneyKept, b \in Books, c \in Books
  <2> QED BY <2>3 DEF Sound
<1>5. NoBrackets => SharesExact(c)
  <2>1. \A s \in Symbols : HeldShares(c, s) = HeldShares(b, s)
    BY <1>1 DEF HeldShares
  <2>2. SharesExact(b) => SharesExact(c)
    BY <1>1, <2>1 DEF SharesExact, SymbolExact, SameShares
  <2> QED BY <2>2 DEF Sound
<1> QED BY <1>1, <1>2, <1>3, <1>4, <1>5 DEF Sound

(* The book an account is seeded with. *)
LEMMA EmptySound == Typed(EmptyBook) => Sound(EmptyBook)
<1> SUFFICES ASSUME Typed(EmptyBook) PROVE Sound(EmptyBook)
  OBVIOUS
<1> DEFINE b == EmptyBook
<1>1. \A o \in OrderIds : b.status[o] = NoRow /\ b.audit[o] = << >> /\ b.fills[o] = << >>
  BY DEF EmptyBook
<1>2. /\ b.cash = InitCash /\ b.frozen = 0 /\ b.realized = 0 /\ b.today = {} /\ b.outbox = {}
      /\ b.equity = InitCash + NSymbols * InitCost
      /\ b.qty = [s \in Symbols |-> InitQty] /\ b.avail = [s \in Symbols |-> InitQty]
      /\ b.basis = [s \in Symbols |-> InitCost] /\ b.mval = [s \in Symbols |-> InitCost]
  BY DEF EmptyBook
<1>3. /\ InitCash \in Int /\ InitCost \in Int /\ InitQty \in Nat /\ NSymbols \in Nat
      /\ MaxOrders \in Nat /\ MaxDailyOrders \in Nat
  BY BookAssumption
<1>4. b \in Books /\ RowsHaveIntents(b)
  BY DEF Typed
<1> HIDE DEF b
<1>5. TrailExact(b) /\ NoDuplicates(b) /\ Announced(b)
  BY <1>1, <1>2 DEF TrailExact, NoDuplicates, Announced, Pending, NoRow
<1>6. WithinCap(b)
  <2>1. PassedToday(b) = {}
    BY <1>2 DEF PassedToday
  <2> QED BY <1>3, <2>1, FS_EmptySet DEF WithinCap
<1>7. LedgerExact(b)
  <2>1. \A o \in OrderIds : Booked(b)[o] = 0
    <3>1. ASSUME NEW o \in OrderIds PROVE Booked(b)[o] = 0
      <4> DEFINE f == [n \in DOMAIN b.fills[o] |-> b.fills[o][n].amount]
      <4>1. Len(b.fills[o]) = 0 /\ f \in [1..0 -> Int]
        BY <1>1
      <4>2. Booked(b)[o] = SumTo(f, Len(b.fills[o]))
        BY DEF Booked
      <4> HIDE DEF f
      <4> QED BY <4>1, <4>2, SumToNone
    <3> QED BY <3>1
  <2>2. Booked(b) \in [1..MaxOrders -> Int] /\ \A o \in 1..MaxOrders : Booked(b)[o] = 0
    <3>1. Booked(b) = [o \in OrderIds |-> Booked(b)[o]]
      BY DEF Booked
    <3> QED BY <2>1, <3>1 DEF OrderIds
  <2>3. SumTo(Booked(b), MaxOrders) = 0
    BY <1>3, <2>2, SumToZero
  <2> QED BY <1>1, <1>2, <1>3, <2>3 DEF LedgerExact, NoRow
<1>8. SumTo(b.mval, NSymbols) = NSymbols * InitCost /\ SumTo(b.basis, NSymbols) = NSymbols * InitCost
  <2>1. /\ b.mval \in [1..NSymbols -> Int] /\ b.basis \in [1..NSymbols -> Int]
        /\ \A s \in 1..NSymbols : b.mval[s] = InitCost /\ b.basis[s] = InitCost
    BY <1>2, <1>3 DEF Symbols
  <2> QED BY <1>3, <2>1, SumToConst
<1>9. EquityExact(b) /\ ProfitExact(b)
  <2>1. NSymbols * InitCost \in Int
    BY <1>3
  <2> QED BY <1>2, <1>3, <1>8, <2>1 DEF EquityExact, ProfitExact
<1>10. SharesExact(b)
  <2>1. ASSUME NEW s \in Symbols PROVE SymbolExact(b, s)
    <3>1. HeldShares(b, s) \in [1..MaxOrders -> Int]
      BY <1>4, HeldSharesType
    <3>2. \A o \in 1..MaxOrders : HeldShares(b, s)[o] = 0
      BY <1>1 DEF HeldShares, OrderIds, NoRow
    <3>3. SumTo(HeldShares(b, s), MaxOrders) = 0
      BY <1>3, <3>1, <3>2, SumToZero
    <3> QED BY <1>2, <1>3, <3>3 DEF SymbolExact
  <2> QED BY <2>1 DEF SharesExact
<1> QED BY <1>5, <1>6, <1>7, <1>9, <1>10 DEF Sound, b

(* A step of an order, or of none, is a step of the abstract life cycle. *)
LifecycleStep == [Lifecycle!Next]_(book.audit)

LEMMA GrowthIsLifecycle ==
    ASSUME NEW o \in OrderIds, TrailGrows(book, book', o)
    PROVE  LifecycleStep
<1>1. Lifecycle!Advance(o)
  BY DEF TrailGrows, Continues, Lifecycle!Advance
<1> QED BY <1>1 DEF Lifecycle!Next, LifecycleStep

(* Every step of the specification. *)
LEMMA StepSound ==
    ASSUME IInv, Sound(book), [Next]_vars, IInv'
    PROVE  Sound(book') /\ LifecycleStep
<1> DEFINE b == book
           c == book'
<1>1. Typed(b) /\ Typed(c) /\ b \in Books /\ c \in Books
  <2>1. BookInv(book) /\ BookInv(book)'
    BY DEF IInv
  <2>2. Typed(book) /\ Typed(book)'
    BY <2>1 DEF BookInv, Typed
  <2>3. Typed(book)' <=> Typed(book')
    BY DEF Typed, RowsHaveIntents
  <2> QED BY <2>2, <2>3 DEF Typed
<1>2. ASSUME NEW i \in Intents, Create(i)
      PROVE  Sound(c) /\ LifecycleStep
  <2>1. PICK o \in OrderIds \ Created(book) : book' = CreateOrder(book, o, i)
    BY <1>2 DEF Create
  <2>2. book.status[o] = NoRow
    BY DEF Created
  <2>3. Sound(c) /\ TrailGrows(b, c, o)
    BY <1>1, <2>1, <2>2, CreateSound
  <2> QED BY <2>3, GrowthIsLifecycle
<1>3. ASSUME NEW o \in OrderIds, NEW q \in Quotes, NEW open \in BOOLEAN, RiskCheck(o, q, open)
      PROVE  Sound(c) /\ LifecycleStep
  <2>1. Sound(c) /\ TrailGrows(b, c, o)
    BY <1>1, <1>3, RiskCheckSound DEF RiskCheck
  <2> QED BY <2>1, GrowthIsLifecycle
<1>4. ASSUME NEW o \in OrderIds, NEW q \in Quotes, Submit(o, q)
      PROVE  Sound(c) /\ LifecycleStep
  <2>1. Sound(c) /\ TrailGrows(b, c, o)
    BY <1>1, <1>4, SubmitSound DEF Submit
  <2> QED BY <2>1, GrowthIsLifecycle
<1>5. ASSUME book' = book
      PROVE  Sound(c) /\ LifecycleStep
  BY <1>5 DEF LifecycleStep
<1>6. ASSUME NEW o \in OrderIds, MatchNext(o)
      PROVE  Sound(c) /\ LifecycleStep
  <2> DEFINE p == FillPrice(book.intent[o], scan.quote)
  <2>1. book.status[o] = "SUBMITTED" /\ scan.quote \in Quotes
    BY <1>6 DEF MatchNext, IInv, ScanIsLive
  <2>2. book' = IF p = 0 THEN book ELSE ApplyFill(book, o, p)
    BY <1>6 DEF MatchNext
  <2>3. p \in Nat
    <3>1. book.intent[o] \in Intents
      BY <1>1, <2>1 DEF Typed, RowsHaveIntents, NoRow
    <3> QED BY <2>1, <3>1, FillPriceFacts
  <2> HIDE DEF p
  <2>4. CASE p = 0
    BY <1>5, <2>2, <2>4
  <2>5. CASE p # 0
    <3>1. Sound(c) /\ TrailGrows(b, c, o)
      BY <1>1, <2>1, <2>2, <2>3, <2>5, FillSound
    <3> QED BY <3>1, GrowthIsLifecycle
  <2> QED BY <2>4, <2>5
<1>7. ASSUME NEW o \in OrderIds, Cancel(o)
      PROVE  Sound(c) /\ LifecycleStep
  <2>1. Sound(c) /\ TrailGrows(b, c, o)
    BY <1>1, <1>7, CancelSound DEF Cancel
  <2> QED BY <2>1, GrowthIsLifecycle
<1>8. ASSUME NEW f \in SUBSET OrderIds, NEW n \in SUBSET OrderIds, n \subseteq b.today,
             c = [b EXCEPT !.fresh = f, !.today = n]
      PROVE  Sound(c) /\ LifecycleStep
  <2>1. b \in Books /\ c \in Books /\ Sound(b)
    BY <1>1
  <2> HIDE DEF b, c
  <2>2. Sound(c) /\ c.audit = b.audit
    BY ONLY <1>8, <2>1, ClockSound, ZenonT(40)
  <2> QED BY <2>2 DEF b, c, LifecycleStep
<1>9. book.fresh \in SUBSET OrderIds /\ book.today \in SUBSET OrderIds
  BY <1>1 DEF Books
<1>10. ASSUME NEW o \in OrderIds, CooldownElapses(o)
       PROVE  Sound(c) /\ LifecycleStep
  <2>1. c = [b EXCEPT !.fresh = b.fresh \ {o}, !.today = b.today]
    BY <1>1, <1>10 DEF CooldownElapses, Books
  <2> QED BY <1>8, <1>9, <2>1
<1>11. CASE NewDay
  <2>1. c = [b EXCEPT !.fresh = b.fresh, !.today = {}]
    BY <1>1, <1>11 DEF NewDay, Books
  <2> QED BY <1>8, <1>9, <2>1
<1>12. ASSUME NEW q \in Quotes, ProcessQuote(q)
       PROVE  Sound(c) /\ LifecycleStep
  BY <1>5, <1>12 DEF ProcessQuote
<1>13. CASE UNCHANGED vars
  BY <1>5, <1>13 DEF vars
<1> QED BY <1>2, <1>3, <1>4, <1>6, <1>7, <1>10, <1>11, <1>12, <1>13 DEF Next

(* The invariant of the books. *)
BooksInv == IInv /\ Sound(book)

LEMMA BooksInvHolds == Spec => [](BooksInv) /\ [][LifecycleStep]_vars
<1>1. Init => BooksInv
  <2> SUFFICES ASSUME Init PROVE BooksInv
    OBVIOUS
  <2>1. IInv /\ book = EmptyBook
    BY InitInv DEF Init
  <2>2. Typed(EmptyBook)
    BY <2>1 DEF IInv, BookInv, Typed
  <2> QED BY <2>1, <2>2, EmptySound DEF BooksInv
<1>2. BooksInv /\ [Next]_vars => BooksInv' /\ LifecycleStep
  <2> SUFFICES ASSUME BooksInv, [Next]_vars PROVE BooksInv' /\ LifecycleStep
    OBVIOUS
  <2>1. IInv /\ Sound(book)
    BY DEF BooksInv
  <2>2. IInv'
    BY <2>1, NextInv
  <2>3. Sound(book') /\ LifecycleStep
    BY <2>1, <2>2, StepSound
  <2>4. Sound(book)' <=> Sound(book')
    BY DEF Sound, TrailExact, NoDuplicates, WithinCap, Announced, LedgerExact, EquityExact,
           ProfitExact, SharesExact
  <2> QED BY <2>2, <2>3, <2>4 DEF BooksInv
<1> QED BY <1>1, <1>2, PTL DEF Spec

-----------------------------------------------------------------------------
(* The theorems. *)

(* The tables keep their types in every reachable state, for every set of   *)
(* intents and quotes and every configuration.                              *)
THEOREM TypeCorrect == Spec => []TypeOK
<1>1. IInv => TypeOK
  BY DEF IInv, BookInv, RowsHaveIntents, TypeOK
<1> QED BY <1>1, InitInv, NextInv, PTL DEF Spec

(* cash_frozen always is what the waiting buy orders reserved: the fills,   *)
(* cancellations and refusals of local_sim.py release each reservation      *)
(* once and in full.                                                        *)
THEOREM FrozenIsReserved == Spec => []FrozenBacksOpenBuys
<1>1. IInv => FrozenBacksOpenBuys
  BY DEF IInv, BookInv, FrozenExact, FrozenBacksOpenBuys
<1> QED BY <1>1, InitInv, NextInv, PTL DEF Spec

(* With fees that sales can cover, the account never overdraws, whatever    *)
(* the fills do to the prices the reservations were made at.                *)
THEOREM CashIsSafe == ASSUME FeesCovered PROVE Spec => []NoOverdraft
<1> DEFINE Safe == IInv /\ book.cash >= 0
<1>1. Init => Safe
  <2>1. Init => book.cash >= 0
    BY BookAssumption DEF Init, EmptyBook
  <2> QED BY <2>1, InitInv
<1>2. Safe /\ [Next]_vars => Safe'
  BY NextInv, FeesCovered DEF KeepsCash
<1>3. Safe => NoOverdraft
  <2> SUFFICES ASSUME Safe PROVE book.frozen >= 0
    BY DEF NoOverdraft
  <2>1. book \in Books /\ RowsHaveIntents(book) /\ book.frozen = SumTo(HeldCash(book), MaxOrders)
    BY DEF IInv, BookInv, FrozenExact
  <2>2. /\ HeldCash(book) \in [1..MaxOrders -> Int] /\ MaxOrders \in Nat
        /\ \A o \in 1..MaxOrders : HeldCash(book)[o] >= 0
    BY <2>1, HeldType, BookAssumption
  <2> QED BY <2>1, <2>2, SumToBounds
<1> QED BY <1>1, <1>2, <1>3, PTL DEF Spec

(* Two orders of one symbol and side are never both past the risk check and *)
(* unfinished, and no more orders a day pass it than the configuration      *)
(* allows: what RiskEngine.check compared once stays true (risk/engine.py). *)
THEOREM RiskRulesStay == Spec => []RiskRulesHold
<1>1. BooksInv => RiskRulesHold
  BY DEF BooksInv, Sound, NoDuplicates, WithinCap, PassedToday, Pending,
         RiskRulesHold, NoDuplicateExposure, DailyCapHolds
<1> QED BY <1>1, BooksInvHolds, PTL

(* The ledger replays to the account, equity is current and the outbox      *)
(* agrees with the orders, for every set of intents (broker/local_sim.py,   *)
(* _apply_fill).                                                            *)
THEOREM LedgerStaysTrue == Spec => [](LedgerReplays /\ EquityIsCurrent /\ OutboxAgrees)
<1>1. BooksInv => LedgerReplays /\ EquityIsCurrent /\ OutboxAgrees
  BY DEF BooksInv, Sound, LedgerExact, EquityExact, Announced,
         LedgerReplays, EquityIsCurrent, OutboxAgrees
<1> QED BY <1>1, BooksInvHolds, PTL

(* Without bracket orders the books balance after every call: no share is   *)
(* sold twice, and profit is neither made nor lost by the bookkeeping.      *)
THEOREM BooksStayBalanced == ASSUME NoBrackets PROVE Spec => []BooksBalance
<1>1. BooksInv => BooksBalance
  <2> SUFFICES ASSUME BooksInv PROVE BooksBalance
    OBVIOUS
  <2>1. Sound(book) /\ ProfitExact(book) /\ SharesExact(book)
    BY NoBrackets DEF BooksInv, Sound
  <2>2. LedgerReplays /\ EquityIsCurrent /\ OutboxAgrees
    BY <2>1 DEF Sound, LedgerExact, EquityExact, Announced,
                LedgerReplays, EquityIsCurrent, OutboxAgrees
  <2>3. SharesAccounted /\ PnlConserved
    BY <2>1 DEF ProfitExact, SharesExact, SymbolExact, SharesAccounted, PnlConserved
  <2> QED BY <2>2, <2>3 DEF BooksBalance
<1> QED BY <1>1, BooksInvHolds, PTL

(* Every call moves orders along the state machine only: the audit trails   *)
(* implement the abstract life cycle (domain/state_machine.py,              *)
(* assert_order_transition).                                                *)
THEOREM LifecycleKept == Spec => LifecycleSpec
<1>1. Init => Lifecycle!Init
  BY DEF Init, EmptyBook, Lifecycle!Init
<1>2. [LifecycleStep]_vars => [Lifecycle!Next]_(book.audit)
  BY DEF LifecycleStep, vars
<1> QED BY <1>1, <1>2, BooksInvHolds, PTL DEF LifecycleSpec, Lifecycle!Spec, Spec

-----------------------------------------------------------------------------
(* One execution of the trade executor (module TradeExecutor): it works on  *)
(* the snapshot its transaction read, submits every order at the order's    *)
(* own price, and so every order the broker accepts is filled at once.      *)

(* The quote of one price: both sides of the market are there. *)
LEMMA QuoteAtType ==
    ASSUME NEW s \in Symbols, NEW p \in Nat \ {0}, NEW q, q = QuoteAt(s, p)
    PROVE  /\ q \in MarketQuotes /\ q.symbol = s
           /\ AskOrLast(q) = p /\ BidOrLast(q) = p
BY DEF QuoteAt, MarketQuotes, AskOrLast, BidOrLast

(* The intents an execution may submit. *)
SubmittedAtLimit(i) == i \in OrderIntents /\ (i.type = "LIMIT" \/ IsBracketOrder(i))

(* The intent of the order of an execution with a price. *)
LEMMA MainIntentType ==
    ASSUME NEW j \in JobIds, NEW p \in Proposals, p.limit # 0,
           NEW i, i = MainIntent(j, p)
    PROVE  /\ SubmittedAtLimit(i) /\ ~IsBracketOrder(i)
           /\ i.symbol = p.symbol /\ i.side = p.side /\ i.qty = p.qty /\ i.limit = p.limit
<1>1. /\ p.symbol \in Symbols /\ p.side \in OrderSide /\ p.qty \in Nat \ {0}
      /\ p.limit \in Nat /\ j \in Nat
  BY ExecutorAssumption DEF JobIds
<1>2. i = [symbol |-> p.symbol, side |-> p.side, type |-> "LIMIT", qty |-> p.qty,
           limit |-> p.limit, signal |-> j]
  BY DEF MainIntent
<1>3. i \in OrderIntents
  BY <1>1, <1>2 DEF OrderIntents, OrderType
<1> QED BY <1>2, <1>3 DEF SubmittedAtLimit, IsBracketOrder

(* The intents of its bracket orders. *)
LEMMA BracketIntentType ==
    ASSUME NEW j \in JobIds, NEW p \in Proposals,
           NEW type \in {"LIMIT_IF_TOUCHED", "STOP_LIMIT"}, NEW trigger \in Nat \ {0},
           NEW i, i = BracketIntent(j, p, type, trigger)
    PROVE  /\ SubmittedAtLimit(i) /\ IsBracketOrder(i)
           /\ i.symbol = p.symbol /\ i.side = "SELL" /\ i.qty = p.qty /\ i.limit = trigger
<1>1. p.symbol \in Symbols /\ p.qty \in Nat \ {0} /\ j \in Nat
  BY ExecutorAssumption DEF JobIds
<1>2. i = [symbol |-> p.symbol, side |-> "SELL", type |-> type, qty |-> p.qty,
           limit |-> trigger, signal |-> j]
  BY DEF BracketIntent
<1>3. i \in OrderIntents
  BY <1>1, <1>2 DEF OrderIntents, OrderType, OrderSide
<1> QED BY <1>2, <1>3 DEF SubmittedAtLimit, IsBracketOrder

(* At its own price an order is matched. *)
LEMMA MatchedAtLimit ==
    ASSUME NEW i, SubmittedAtLimit(i), NEW q, q = QuoteAt(i.symbol, i.limit)
    PROVE  i.limit \in Nat \ {0} /\ q \in MarketQuotes /\ FillPrice(i, q) = i.limit
           /\ q.symbol = i.symbol /\ AskOrLast(q) = i.limit
<1>1. /\ i \in OrderIntents /\ i.side \in OrderSide /\ i.limit \in Nat /\ i.symbol \in Symbols
      /\ i.type # "MARKET" => i.limit > 0
  BY IntentType DEF SubmittedAtLimit
<1>2. \/ i.type = "LIMIT"
      \/ i.type = "LIMIT_IF_TOUCHED" /\ i.side = "SELL"
      \/ i.type = "STOP_LIMIT" /\ i.side = "SELL"
  BY DEF SubmittedAtLimit, IsBracketOrder
<1>3. i.limit \in Nat \ {0}
  BY <1>1, <1>2
<1>4. q \in MarketQuotes /\ q.symbol = i.symbol /\ AskOrLast(q) = i.limit /\ BidOrLast(q) = i.limit
  BY <1>1, <1>3, QuoteAtType
<1>5. FillPrice(i, q) = i.limit
  <2>1. CASE i.type = "LIMIT" /\ i.side = "BUY"
    BY <1>3, <1>4, <2>1 DEF FillPrice
  <2>2. CASE i.type = "LIMIT" /\ i.side = "SELL"
    BY <1>3, <1>4, <2>2 DEF FillPrice
  <2>3. CASE i.type = "LIMIT_IF_TOUCHED" /\ i.side = "SELL"
    BY <1>3, <1>4, <2>3 DEF FillPrice
  <2>4. CASE i.type = "STOP_LIMIT" /\ i.side = "SELL"
    BY <1>3, <1>4, <2>4 DEF FillPrice
  <2> QED BY <1>1, <1>2, <2>1, <2>2, <2>3, <2>4 DEF OrderSide
<1> QED BY <1>3, <1>4, <1>5

(* What a fill at the limit brings into the account. *)
Proceeds(i) ==
    IF i.side = "BUY" THEN -WithCommission(i.qty, i.limit)
    ELSE Gross(i.qty, i.limit) - Commission(i.qty, i.limit)

(* The rows of the other orders stay. *)
RowsKept(b, c, o) ==
    \A x \in OrderIds \ {o} :
        /\ c.intent[x] = b.intent[x] /\ c.status[x] = b.status[x]
        /\ c.audit[x] = b.audit[x] /\ c.fills[x] = b.fills[x]

(* No position of the book offers more shares than it holds. *)
WithinPosition(b) == \A s \in Symbols : b.avail[s] \in 0..b.qty[s]

(* From b to c, order o with intent i is filled at its limit. *)
FilledAtLimit(b, c, o, i) ==
    /\ c \in Books /\ c.intent = b.intent
    /\ c.status = [b.status EXCEPT ![o] = "FILLED"]
    /\ c.audit = [b.audit EXCEPT ![o] =
                    Append(Append(Append(b.audit[o], "SUBMITTING"), "SUBMITTED"), "FILLED")]
    /\ OneRow(b, c, o, Proceeds(i))
    /\ c.frozen = b.frozen /\ c.fresh = b.fresh
    /\ i.side = "BUY" => c.cash >= 0
    /\ ~IsBracketOrder(i) /\ WithinPosition(b) => WithinPosition(c)

(* A book that ends where another begins fills the same order. *)
LEMMA OneRowThrough ==
    ASSUME NEW b \in Books, NEW w \in Books, NEW e \in Books, NEW c \in Books,
           NEW o \in OrderIds, NEW amount \in Int,
           OneRow(w, e, o, amount),
           w.fills = b.fills, w.cash + w.frozen = b.cash + b.frozen,
           c.fills = e.fills, SameMoney(e, c)
    PROVE  OneRow(b, c, o, amount)
<1>1. PICK row \in FillRow :
        /\ row.amount = amount /\ row.balance = e.cash
        /\ e.fills = [w.fills EXCEPT ![o] = Append(w.fills[o], row)]
  BY DEF OneRow
<1>2. row.balance = c.cash /\ c.fills = [b.fills EXCEPT ![o] = Append(b.fills[o], row)]
  BY <1>1 DEF SameMoney
<1>3. c.cash + c.frozen = b.cash + b.frozen + amount
  BY DEF OneRow, SameMoney
<1> QED BY <1>1, <1>2, <1>3 DEF OneRow

(* What a fill brings is an amount. *)
LEMMA ProceedsType ==
    ASSUME NEW i \in OrderIntents
    PROVE  Proceeds(i) \in Int
<1>1. i.qty \in Nat /\ i.limit \in Nat
  BY IntentType
<1>2. /\ Gross(i.qty, i.limit) \in Nat /\ Commission(i.qty, i.limit) \in Nat
      /\ WithCommission(i.qty, i.limit) \in Nat
  BY <1>1, AmountType
<1>3. /\ -WithCommission(i.qty, i.limit) \in Int
      /\ Gross(i.qty, i.limit) - Commission(i.qty, i.limit) \in Int
  BY ONLY <1>2
<1> QED BY <1>3 DEF Proceeds

(* submit_order of an order the broker accepts, at its own price. *)
LEMMA SubmitAtLimit ==
    ASSUME NEW b \in Books, NEW o \in OrderIds,
           NEW i, i = b.intent[o], SubmittedAtLimit(i),
           NEW q, q = QuoteAt(i.symbol, i.limit), Accepts(b, o, q),
           NEW c, c = SubmitOrder(b, o, q)
    PROVE  FilledAtLimit(b, c, o, i)
<1> DEFINE d == ReserveResources(b, o, q)
           t == TransitionOrder(d, o, "SUBMITTING")
           w == TransitionOrder(t, o, "SUBMITTED")
           p == i.limit
           e == Settled(w, o, p)
           s == i.symbol
<1>1. /\ p \in Nat \ {0} /\ q \in MarketQuotes /\ FillPrice(i, q) = p
      /\ q.symbol = s /\ AskOrLast(q) = p
  BY MatchedAtLimit
<1>2. /\ i \in OrderIntents /\ s \in Symbols /\ i.side \in OrderSide /\ i.qty \in Nat \ {0}
  BY IntentType DEF SubmittedAtLimit
<1>3. "SUBMITTING" \in OrderStatus /\ "SUBMITTED" \in OrderStatus
  BY DEF OrderStatus
<1>4. c = ApplyFill(w, o, p)
  BY <1>1 DEF SubmitOrder
<1>5. /\ d \in Books /\ SameRows(b, d)
      /\ i.side = "BUY" => /\ d.cash = b.cash - ReservedCash(i, p)
                           /\ d.frozen = b.frozen + ReservedCash(i, p)
      /\ i.side = "SELL" => SameMoney(b, d)
  <2>1. AskOrLast(q) = p /\ d = ReserveResources(b, o, q)
    BY <1>1
  <2> HIDE DEF d
  <2> QED BY <1>1, <1>2, <2>1, ReserveType
<1>6. /\ d.cash + d.frozen = b.cash + b.frozen
      /\ d.qty = b.qty
      /\ d.avail = IF i.side = "SELL" /\ ~IsBracketOrder(i)
                   THEN [b.avail EXCEPT ![s] = b.avail[s] - i.qty] ELSE b.avail
      /\ d.fills = b.fills /\ SameTrail(b, d) /\ SameClock(b, d)
  <2>1. d = ReserveResources(b, o, q)
    OBVIOUS
  <2> HIDE DEF d
  <2> QED BY <1>1, <1>2, <2>1, ReserveFields
<1>7. t = TransitionOrder(d, o, "SUBMITTING") /\ w = TransitionOrder(t, o, "SUBMITTED")
      /\ e = Settled(w, o, p)
  OBVIOUS
<1> HIDE DEF d, t, w, e
<1>8. /\ t \in Books /\ t.status = [d.status EXCEPT ![o] = "SUBMITTING"]
      /\ t.audit = [d.audit EXCEPT ![o] = Append(d.audit[o], "SUBMITTING")]
      /\ t.intent = d.intent /\ t.fills = d.fills
      /\ SameMoney(d, t) /\ SameShares(d, t) /\ SameClock(d, t)
  <2>0. t = TransitionOrder(d, o, "SUBMITTING") /\ d \in Books /\ "SUBMITTING" \in OrderStatus
    BY <1>3, <1>5, <1>7
  <2>1. t \in Books
    BY <1>3, <1>5, <1>7, TransitionType
  <2>2. /\ t.status = [d.status EXCEPT ![o] = "SUBMITTING"]
        /\ t.audit = [d.audit EXCEPT ![o] = Append(d.audit[o], "SUBMITTING")]
        /\ t.intent = d.intent /\ t.fills = d.fills /\ t.outbox = d.outbox
        /\ SameClock(d, t) /\ SameMoney(d, t) /\ SameGains(d, t)
        /\ SameShares(d, t) /\ SameWorth(d, t)
    BY ONLY <2>0, TransitionFields, o \in OrderIds
  <2> QED BY <2>1, <2>2
<1>9. /\ w \in Books /\ w.status = [t.status EXCEPT ![o] = "SUBMITTED"]
      /\ w.audit = [t.audit EXCEPT ![o] = Append(t.audit[o], "SUBMITTED")]
      /\ w.intent = t.intent /\ w.fills = t.fills
      /\ SameMoney(t, w) /\ SameShares(t, w) /\ SameClock(t, w)
  <2>0. w = TransitionOrder(t, o, "SUBMITTED") /\ t \in Books /\ "SUBMITTED" \in OrderStatus
    BY <1>3, <1>7, <1>8
  <2>1. w \in Books
    BY <1>3, <1>7, <1>8, TransitionType
  <2>2. /\ w.status = [t.status EXCEPT ![o] = "SUBMITTED"]
        /\ w.audit = [t.audit EXCEPT ![o] = Append(t.audit[o], "SUBMITTED")]
        /\ w.intent = t.intent /\ w.fills = t.fills /\ w.outbox = t.outbox
        /\ SameClock(t, w) /\ SameMoney(t, w) /\ SameGains(t, w)
        /\ SameShares(t, w) /\ SameWorth(t, w)
    BY ONLY <2>0, TransitionFields, o \in OrderIds
  <2> QED BY <2>1, <2>2
<1>10. w.intent = b.intent /\ w.intent[o] = i
  BY <1>5, <1>8, <1>9 DEF SameRows
<1>11. FilledBy(w, e, c, o)
  BY <1>1, <1>2, <1>4, <1>7, <1>9, <1>10, FillFields
<1>12. /\ c \in Books /\ c.intent = b.intent
       /\ c.status = [b.status EXCEPT ![o] = "FILLED"]
       /\ c.audit = [b.audit EXCEPT ![o] =
                       Append(Append(Append(b.audit[o], "SUBMITTING"), "SUBMITTED"), "FILLED")]
       /\ c.fresh = b.fresh
  <2>1. c \in Books /\ c.intent = b.intent
    BY <1>10, <1>11 DEF FilledBy
  <2>2. b.status \in [OrderIds -> OrderStatus \cup {NoRow}] /\ b.audit \in [OrderIds -> Seq(OrderStatus)]
    BY DEF Books
  <2>3. c.status = [b.status EXCEPT ![o] = "FILLED"]
    <3>1. c.status = [w.status EXCEPT ![o] = "FILLED"]
      BY <1>11 DEF FilledBy
    <3>2. d.status = b.status
      BY <1>6 DEF SameTrail
    <3>3. /\ w.status = [t.status EXCEPT ![o] = "SUBMITTED"]
          /\ t.status = [d.status EXCEPT ![o] = "SUBMITTING"]
      BY <1>8, <1>9
    <3> QED BY ONLY <2>2, <3>1, <3>2, <3>3
  <2>4. c.audit = [w.audit EXCEPT ![o] = Append(w.audit[o], "FILLED")] /\ d.audit = b.audit
    BY <1>6, <1>11 DEF FilledBy, SameTrail
  <2>5. c.audit = [b.audit EXCEPT ![o] =
                     Append(Append(Append(b.audit[o], "SUBMITTING"), "SUBMITTED"), "FILLED")]
    BY ONLY <1>8, <1>9, <2>2, <2>4
  <2>6. c.fresh = b.fresh
    BY <1>6, <1>8, <1>9, <1>11 DEF FilledBy, SameClock
  <2> QED BY <2>1, <2>3, <2>5, <2>6
<1>13. w.fills = b.fills /\ w.cash + w.frozen = b.cash + b.frozen /\ w.qty = b.qty /\ w.avail = d.avail
       /\ w.cash = d.cash /\ w.frozen = d.frozen
  BY <1>6, <1>8, <1>9 DEF SameMoney, SameShares
<1>14. c.fills = e.fills /\ SameMoney(e, c) /\ SameShares(e, c)
  BY <1>11 DEF FilledBy
<1>15. b.cash \in Int /\ b.frozen \in Int /\ b.qty \in [Symbols -> Nat] /\ b.avail \in [Symbols -> Int]
  BY DEF Books
<1>16. ReservedCash(i, p) = WithCommission(i.qty, p) /\ WithCommission(i.qty, p) \in Nat
  BY <1>1, <1>2, AmountType DEF ReservedCash
<1>17. CASE i.side = "BUY"
  <2>1. e = SettleBuy(w, o, p)
    BY <1>7, <1>10, <1>17 DEF Settled
  <2>2. /\ e \in Books /\ e.frozen = w.frozen - ReservedCash(i, p)
        /\ e.cash = w.cash + (ReservedCash(i, p) - WithCommission(i.qty, p))
    BY <1>1, <1>2, <1>9, <1>10, <2>1, SettleBuyType
  <2>3. Bought(w, e, o, i, WithCommission(i.qty, p))
    BY <1>1, <1>2, <1>9, <1>10, <2>1, <2>2, SettleBuyFields
  <2>4. Proceeds(i) = -WithCommission(i.qty, p)
    BY <1>17 DEF Proceeds
  <2>5. OneRow(b, c, o, Proceeds(i))
    <3>1. OneRow(w, e, o, Proceeds(i))
      BY <2>3, <2>4 DEF Bought
    <3> QED BY <1>2, <1>9, <1>12, <1>13, <1>14, <2>2, <3>1, ProceedsType, OneRowThrough
  <2>6. b.cash >= ReservedCash(i, p)
    BY <1>1, <1>17 DEF Accepts, CanReserve
  <2>7. c.frozen = b.frozen /\ c.cash >= 0
    BY <1>5, <1>13, <1>14, <1>15, <1>16, <1>17, <2>2, <2>6 DEF SameMoney
  <2>8. ASSUME WithinPosition(b) PROVE WithinPosition(c)
    <3>1. /\ c.qty = [b.qty EXCEPT ![s] = b.qty[s] + i.qty]
          /\ c.avail = [b.avail EXCEPT ![s] = b.avail[s] + i.qty]
      <4>1. c.qty = e.qty /\ c.avail = e.avail
        BY <1>14 DEF SameShares
      <4>2. /\ e.qty = [w.qty EXCEPT ![s] = w.qty[s] + i.qty]
            /\ e.avail = [w.avail EXCEPT ![s] = w.avail[s] + i.qty]
        BY <2>3 DEF Bought
      <4>3. d.avail = b.avail
        BY <1>6, <1>17
      <4> QED BY ONLY <1>13, <4>1, <4>2, <4>3
    <3>2. \A x \in Symbols : b.avail[x] \in 0..b.qty[x]
      BY <2>8 DEF WithinPosition
    <3>3. \A x \in Symbols : c.avail[x] \in 0..c.qty[x]
      BY <1>2, <1>15, <3>1, <3>2
    <3> QED BY <3>3 DEF WithinPosition
  <2> QED BY <1>12, <2>5, <2>7, <2>8 DEF FilledAtLimit
<1>18. CASE i.side = "SELL"
  <2> DEFINE net == Gross(i.qty, p) - Commission(i.qty, p)
             cost == CostOf(w, s, i.qty)
             left == w.qty[s] - i.qty
  <2>1. e = SettleSell(w, o, p)
    BY <1>7, <1>10, <1>18 DEF Settled
  <2>2. e \in Books /\ e.frozen = w.frozen
    BY <1>1, <1>2, <1>9, <1>10, <2>1, SettleSellType
  <2>3. Sold(w, e, o, i, net, cost, left)
    BY <1>1, <1>2, <1>9, <1>10, <2>1, <2>2, SettleSellFields
  <2>4. Proceeds(i) = net
    BY <1>18 DEF Proceeds
  <2>5. OneRow(b, c, o, Proceeds(i))
    <3>1. OneRow(w, e, o, Proceeds(i))
      BY <2>3, <2>4 DEF Sold
    <3> QED BY <1>2, <1>9, <1>12, <1>13, <1>14, <2>2, <3>1, ProceedsType, OneRowThrough
  <2>6. c.frozen = b.frozen
    BY <1>5, <1>13, <1>14, <1>18, <2>2 DEF SameMoney
  <2>7. ASSUME ~IsBracketOrder(i), WithinPosition(b) PROVE WithinPosition(c)
    <3>1. /\ c.qty = [b.qty EXCEPT ![s] = IF b.qty[s] - i.qty <= 0 THEN 0 ELSE b.qty[s] - i.qty]
          /\ c.avail = [b.avail EXCEPT ![s] = b.avail[s] - i.qty]
      BY <1>6, <1>13, <1>14, <1>18, <2>3, <2>7 DEF Sold, SameShares
    <3>2. \A x \in Symbols : b.avail[x] \in 0..b.qty[x]
      BY <2>7 DEF WithinPosition
    <3>3. b.avail[s] >= i.qty
      BY <1>18, <2>7 DEF Accepts, CanReserve
    <3>4. ASSUME NEW x \in Symbols PROVE c.avail[x] \in 0..c.qty[x]
      <4>1. b.avail[x] \in 0..b.qty[x] /\ b.qty[x] \in Nat /\ b.qty[s] \in Nat
        BY <1>2, <1>15, <3>2
      <4>2. CASE x = s
        <5>1. /\ c.qty[x] = IF b.qty[s] - i.qty <= 0 THEN 0 ELSE b.qty[s] - i.qty
              /\ c.avail[x] = b.avail[s] - i.qty
          BY <1>15, <3>1, <4>2
        <5> QED BY <1>2, <3>3, <4>1, <4>2, <5>1
      <4>3. CASE x # s
        BY <1>15, <3>1, <4>1, <4>3
      <4> QED BY <4>2, <4>3
    <3> QED BY <3>4 DEF WithinPosition
  <2> QED BY <1>12, <1>18, <2>5, <2>6, <2>7 DEF FilledAtLimit
<1> QED BY <1>2, <1>17, <1>18 DEF OrderSide

(* Sequences, entry by entry. *)
LEMMA AppendEntries ==
    ASSUME NEW S, NEW t \in Seq(S), NEW a \in S, NEW u, u = Append(t, a)
    PROVE  /\ u \in Seq(S) /\ Len(u) = Len(t) + 1 /\ u[Len(t) + 1] = a
           /\ \A n \in 1..Len(t) : u[n] = t[n]
OBVIOUS

LEMMA TwoEntries ==
    ASSUME NEW S, NEW t \in Seq(S), Len(t) = 2
    PROVE  t = <<t[1], t[2]>>
OBVIOUS

LEMMA FiveEntries ==
    ASSUME NEW S, NEW t \in Seq(S), Len(t) = 5
    PROVE  t = <<t[1], t[2], t[3], t[4], t[5]>>
OBVIOUS

(* The trail of an order that was filled at once. *)
FilledTrail == <<"CREATED", "RISK_APPROVED", "SUBMITTING", "SUBMITTED", "FILLED">>

(* An order that does not exist, and one that was filled. *)
Blank(b, o) == b.status[o] = NoRow /\ b.audit[o] = << >> /\ b.fills[o] = << >>
FilledRow(b, o) == b.status[o] = "FILLED" /\ b.audit[o] = FilledTrail

(* The one ledger row of the order shows the cash of the account. *)
ShowsBalance(b, o) == Len(b.fills[o]) = 1 /\ b.fills[o][1].balance = b.cash

(* An order past the risk check that has booked nothing. *)
ReadyRow(b, o) ==
    /\ b.status[o] = "RISK_APPROVED" /\ b.audit[o] = <<"CREATED", "RISK_APPROVED">>
    /\ b.fills[o] = << >>

(* From b to c, order o with intent i runs through to its fill. *)
Executed(b, c, o, i) ==
    /\ c \in Books /\ RowsKept(b, c, o)
    /\ FilledRow(c, o) /\ c.intent[o] = i /\ ShowsBalance(c, o)
    /\ c.frozen = b.frozen /\ c.cash = b.cash + Proceeds(i)
    /\ LedgerExact(b) => LedgerExact(c)

(* The order of a transaction, from its approval on. *)
LEMMA ReadyExecuted ==
    ASSUME NEW b \in Books, NEW o \in OrderIds, ReadyRow(b, o),
           NEW i, i = b.intent[o], i \in OrderIntents,
           NEW c, FilledAtLimit(b, c, o, i)
    PROVE  Executed(b, c, o, i)
<1>1. /\ b.status \in [OrderIds -> OrderStatus \cup {NoRow}]
      /\ b.audit \in [OrderIds -> Seq(OrderStatus)]
      /\ b.fills \in [OrderIds -> Seq(FillRow)]
      /\ b.cash \in Int /\ b.frozen \in Int
  BY DEF Books, FillRow
<1>2. PICK row \in FillRow :
        /\ row.amount = Proceeds(i) /\ row.balance = c.cash
        /\ c.fills = [b.fills EXCEPT ![o] = Append(b.fills[o], row)]
  BY DEF FilledAtLimit, OneRow
<1>3. c \in Books /\ c.cash \in Int /\ c.frozen = b.frozen /\ Proceeds(i) \in Int
  BY ProceedsType DEF FilledAtLimit, Books
<1>4. RowsKept(b, c, o)
  BY <1>1, <1>2 DEF FilledAtLimit, RowsKept
<1>5. FilledRow(c, o)
  <2>1. c.status[o] = "FILLED"
    BY <1>1 DEF FilledAtLimit
  <2>2. c.audit[o] = Append(Append(Append(b.audit[o], "SUBMITTING"), "SUBMITTED"), "FILLED")
    BY <1>1 DEF FilledAtLimit
  <2>3. b.audit[o] = <<"CREATED", "RISK_APPROVED">>
    BY DEF ReadyRow
  <2>4. c.audit[o] = FilledTrail
    <3> DEFINE t == b.audit[o]
               u == Append(t, "SUBMITTING")
               v == Append(u, "SUBMITTED")
               w == Append(v, "FILLED")
    <3>1. t \in Seq(OrderStatus) /\ Len(t) = 2 /\ t[1] = "CREATED" /\ t[2] = "RISK_APPROVED"
      <4>1. t \in Seq(OrderStatus)
        BY <1>1
      <4>2. Len(t) = 2 /\ t[1] = "CREATED" /\ t[2] = "RISK_APPROVED"
        BY ONLY <2>3
      <4> QED BY <4>1, <4>2
    <3>2. /\ "SUBMITTING" \in OrderStatus /\ "SUBMITTED" \in OrderStatus
          /\ "FILLED" \in OrderStatus
      BY DEF OrderStatus
    <3>3. c.audit[o] = w /\ u = Append(t, "SUBMITTING") /\ v = Append(u, "SUBMITTED")
          /\ w = Append(v, "FILLED")
      BY <2>2
    <3> HIDE DEF t, u, v, w
    <3>4. u \in Seq(OrderStatus) /\ Len(u) = 3 /\ u[1] = t[1] /\ u[2] = t[2] /\ u[3] = "SUBMITTING"
      <4>1. t \in Seq(OrderStatus) /\ "SUBMITTING" \in OrderStatus /\ u = Append(t, "SUBMITTING")
        BY ONLY <3>1, <3>2, <3>3
      <4>2. /\ u \in Seq(OrderStatus) /\ Len(u) = Len(t) + 1 /\ u[Len(t) + 1] = "SUBMITTING"
            /\ \A n \in 1..Len(t) : u[n] = t[n]
        BY ONLY <4>1, AppendEntries
      <4> QED BY ONLY <3>1, <4>2
    <3>5. v \in Seq(OrderStatus) /\ Len(v) = 4 /\ v[1] = u[1] /\ v[2] = u[2] /\ v[3] = u[3]
          /\ v[4] = "SUBMITTED"
      <4>1. u \in Seq(OrderStatus) /\ "SUBMITTED" \in OrderStatus /\ v = Append(u, "SUBMITTED")
        BY ONLY <3>4, <3>2, <3>3
      <4>2. /\ v \in Seq(OrderStatus) /\ Len(v) = Len(u) + 1 /\ v[Len(u) + 1] = "SUBMITTED"
            /\ \A n \in 1..Len(u) : v[n] = u[n]
        BY ONLY <4>1, AppendEntries
      <4> QED BY ONLY <3>4, <4>2
    <3>6. w \in Seq(OrderStatus) /\ Len(w) = 5 /\ w[1] = v[1] /\ w[2] = v[2] /\ w[3] = v[3]
          /\ w[4] = v[4] /\ w[5] = "FILLED"
      <4>1. v \in Seq(OrderStatus) /\ "FILLED" \in OrderStatus /\ w = Append(v, "FILLED")
        BY ONLY <3>5, <3>2, <3>3
      <4>2. /\ w \in Seq(OrderStatus) /\ Len(w) = Len(v) + 1 /\ w[Len(v) + 1] = "FILLED"
            /\ \A n \in 1..Len(v) : w[n] = v[n]
        BY ONLY <4>1, AppendEntries
      <4> QED BY ONLY <3>5, <4>2
    <3>7. w = <<w[1], w[2], w[3], w[4], w[5]>>
      BY ONLY <3>6, FiveEntries
    <3> QED BY <3>1, <3>3, <3>4, <3>5, <3>6, <3>7 DEF FilledTrail
  <2> QED BY <2>1, <2>4 DEF FilledRow
<1>6. ShowsBalance(c, o)
  <2>1. b.fills[o] = << >> /\ c.fills[o] = Append(b.fills[o], row)
    BY <1>1, <1>2 DEF ReadyRow
  <2>2. Len(c.fills[o]) = 1 /\ c.fills[o][1] = row
    BY ONLY <2>1, <1>2
  <2> QED BY <1>2, <2>2 DEF ShowsBalance
<1>7. c.cash = b.cash + Proceeds(i)
  <2>1. c.cash + c.frozen = b.cash + b.frozen + Proceeds(i)
    BY DEF FilledAtLimit, OneRow
  <2> DEFINE x == Proceeds(i)
  <2>2. /\ x \in Int /\ c.cash + c.frozen = b.cash + b.frozen + x /\ c.frozen = b.frozen
        /\ b.cash \in Int /\ b.frozen \in Int /\ c.cash \in Int
    BY <1>1, <1>3, <2>1
  <2> HIDE DEF x
  <2>3. c.cash = b.cash + x
    <3> DEFINE bc == b.cash
               bf == b.frozen
               cc == c.cash
    <3>1. bc \in Int /\ bf \in Int /\ cc \in Int /\ x \in Int /\ cc + bf = bc + bf + x
      BY <2>2
    <3> HIDE DEF bc, bf, cc
    <3>2. cc = bc + x
      BY ONLY <3>1
    <3> QED BY <3>2 DEF bc, cc
  <2> QED BY <2>3 DEF x
<1>8. ASSUME LedgerExact(b) PROVE LedgerExact(c)
  <2>1. SameOthers(b, c, o) /\ b.status[o] # "FILLED" /\ c.status[o] = "FILLED"
    BY <1>4, <1>5 DEF RowsKept, SameOthers, ReadyRow, FilledRow
  <2>2. OneRow(b, c, o, Proceeds(i))
    BY DEF FilledAtLimit
  <2> QED BY <1>3, <1>8, <2>1, <2>2, LedgerGrows
<1>9. c.intent[o] = i
  BY DEF FilledAtLimit
<1> QED BY <1>3, <1>4, <1>5, <1>6, <1>7, <1>8, <1>9 DEF Executed

(* What is booked depends on the fills alone. *)
LEMMA SameBooked ==
    ASSUME NEW b, NEW c, c.fills = b.fills
    PROVE  Booked(c) = Booked(b)
BY DEF Booked

(* A new row that is approved books nothing. *)
LEMMA ApprovedRow ==
    ASSUME NEW b \in Books, NEW o \in OrderIds, Blank(b, o), NEW i \in OrderIntents,
           NEW m, m = CreateOrder(b, o, i),
           NEW a, a = TransitionOrder(m, o, "RISK_APPROVED")
    PROVE  /\ a \in Books /\ RowsKept(b, a, o) /\ ReadyRow(a, o) /\ a.intent[o] = i
           /\ SameMoney(b, a) /\ SameShares(b, a)
           /\ LedgerExact(b) => LedgerExact(a)
<1>1. /\ m \in Books /\ m.status = [b.status EXCEPT ![o] = "CREATED"]
      /\ m.intent = [b.intent EXCEPT ![o] = i]
      /\ SameMoney(b, m) /\ SameShares(b, m)
  BY CreateType
<1>2. m.audit = [b.audit EXCEPT ![o] = <<"CREATED">>] /\ m.fills = b.fills
  BY CreateFields
<1>3. "RISK_APPROVED" \in OrderStatus
  BY DEF OrderStatus
<1>4. a \in Books
  BY <1>1, <1>3, TransitionType
<1>5. /\ a.status = [m.status EXCEPT ![o] = "RISK_APPROVED"]
      /\ a.audit = [m.audit EXCEPT ![o] = Append(m.audit[o], "RISK_APPROVED")]
      /\ a.intent = m.intent /\ a.fills = m.fills /\ a.outbox = m.outbox
      /\ SameClock(m, a) /\ SameMoney(m, a) /\ SameGains(m, a)
      /\ SameShares(m, a) /\ SameWorth(m, a)
  <2>1. a = TransitionOrder(m, o, "RISK_APPROVED")
    OBVIOUS
  <2> QED BY ONLY <1>1, <1>3, <2>1, TransitionFields, o \in OrderIds
<1>6. /\ b.status \in [OrderIds -> OrderStatus \cup {NoRow}]
      /\ b.audit \in [OrderIds -> Seq(OrderStatus)]
      /\ b.intent \in [OrderIds -> OrderIntents \cup {NoIntent}]
  BY DEF Books
<1>7. a.fills = b.fills /\ SameMoney(b, a) /\ SameShares(b, a)
  BY <1>1, <1>2, <1>5 DEF SameMoney, SameShares
<1>8. /\ a.status[o] = "RISK_APPROVED" /\ a.intent[o] = i
      /\ \A x \in OrderIds \ {o} :
            /\ a.status[x] = b.status[x] /\ a.intent[x] = b.intent[x]
            /\ a.audit[x] = b.audit[x]
  BY <1>1, <1>2, <1>5, <1>6
<1>9. a.audit[o] = <<"CREATED", "RISK_APPROVED">>
  <2> DEFINE u == Append(<<"CREATED">>, "RISK_APPROVED")
  <2>1. a.audit[o] = u
    BY <1>2, <1>5, <1>6
  <2>2. u \in Seq(OrderStatus) /\ Len(u) = 2 /\ u[1] = "CREATED" /\ u[2] = "RISK_APPROVED"
    BY DEF OrderStatus
  <2> HIDE DEF u
  <2>3. u = <<u[1], u[2]>>
    BY ONLY <2>2, TwoEntries
  <2> QED BY <2>1, <2>2, <2>3
<1>10. RowsKept(b, a, o) /\ ReadyRow(a, o)
  BY <1>7, <1>8, <1>9 DEF RowsKept, ReadyRow, Blank
<1>11. ASSUME LedgerExact(b) PROVE LedgerExact(a)
  <2>1. Booked(a) = Booked(b)
    BY <1>7, SameBooked
  <2>2. \A x \in OrderIds : Len(a.fills[x]) = IF a.status[x] = "FILLED" THEN 1 ELSE 0
    <3>1. ASSUME NEW x \in OrderIds
          PROVE  Len(a.fills[x]) = IF a.status[x] = "FILLED" THEN 1 ELSE 0
      <4>1. Len(b.fills[x]) = IF b.status[x] = "FILLED" THEN 1 ELSE 0
        BY <1>11 DEF LedgerExact
      <4>2. a.status[x] = "FILLED" <=> b.status[x] = "FILLED"
        BY <1>8 DEF Blank, NoRow
      <4> QED BY <1>7, <4>1, <4>2
    <3> QED BY <3>1
  <2>3. a.cash + a.frozen = InitCash + SumTo(Booked(a), MaxOrders)
    BY <1>7, <1>11, <2>1 DEF LedgerExact, SameMoney
  <2> QED BY <2>2, <2>3 DEF LedgerExact
<1> QED BY <1>4, <1>7, <1>8, <1>10, <1>11

(* A bracket order of a transaction, from its creation on. *)
LEMMA BracketExecuted ==
    ASSUME NEW b \in Books, NEW o \in OrderIds, Blank(b, o),
           NEW i, SubmittedAtLimit(i), IsBracketOrder(i),
           NEW c, c = SubmitBracketOrder(b, o, i)
    PROVE  Executed(b, c, o, i)
<1> DEFINE m == CreateOrder(b, o, i)
           a == TransitionOrder(m, o, "RISK_APPROVED")
           q == QuoteAt(i.symbol, i.limit)
<1>1. c = SubmitOrder(a, o, q)
  BY DEF SubmitBracketOrder
<1>2. i \in OrderIntents
  BY DEF SubmittedAtLimit
<1>3. m = CreateOrder(b, o, i) /\ a = TransitionOrder(m, o, "RISK_APPROVED")
      /\ q = QuoteAt(i.symbol, i.limit)
  OBVIOUS
<1> HIDE DEF m, a, q
<1>4. /\ a \in Books /\ RowsKept(b, a, o) /\ ReadyRow(a, o) /\ a.intent[o] = i
      /\ SameMoney(b, a) /\ (LedgerExact(b) => LedgerExact(a))
  BY <1>2, <1>3, ApprovedRow
<1>5. Accepts(a, o, q)
  BY <1>3, <1>4, MatchedAtLimit DEF Accepts, CanReserve, IsBracketOrder
<1>6. FilledAtLimit(a, c, o, i)
  BY <1>1, <1>3, <1>4, <1>5, SubmitAtLimit
<1>7. Executed(a, c, o, i)
  BY <1>2, <1>4, <1>6, ReadyExecuted
<1>8. RowsKept(b, c, o)
  BY <1>4, <1>7 DEF Executed, RowsKept
<1>9. c.frozen = b.frozen /\ c.cash = b.cash + Proceeds(i)
  <2>1. c.frozen = a.frozen /\ c.cash = a.cash + Proceeds(i)
    BY <1>7 DEF Executed
  <2> QED BY <1>4, <2>1 DEF SameMoney
<1>10. LedgerExact(b) => LedgerExact(c)
  BY <1>4, <1>7 DEF Executed
<1> QED BY <1>7, <1>8, <1>9, <1>10 DEF Executed

(* Every execution has three order ids of its own. *)
LEMMA OwnIds ==
    ASSUME NEW j \in JobIds
    PROVE  /\ MainOrder(j) \in OrderIds /\ TakeProfit(j) \in OrderIds /\ StopLoss(j) \in OrderIds
           /\ MainOrder(j) # TakeProfit(j) /\ MainOrder(j) # StopLoss(j)
           /\ TakeProfit(j) # StopLoss(j)
<1>1. j \in Nat /\ 1 <= j /\ j <= Jobs /\ Jobs \in Nat /\ 3 * Jobs <= MaxOrders /\ MaxOrders \in Nat
  BY ExecutorAssumption, BookAssumption DEF JobIds
<1>2. 3 * j <= 3 * Jobs
  BY <1>1
<1> QED BY <1>1, <1>2 DEF MainOrder, TakeProfit, StopLoss, OrderIds

LEMMA OtherIds ==
    ASSUME NEW j \in JobIds, NEW k \in JobIds, j # k
    PROVE  /\ OrdersOf(j) \cap OrdersOf(k) = {}
           /\ MainOrder(k) \notin OrdersOf(j)
<1>1. j \in Nat /\ k \in Nat
  BY ExecutorAssumption DEF JobIds
<1>2. MainOrder(k) \notin OrdersOf(j) /\ TakeProfit(k) \notin OrdersOf(j) /\ StopLoss(k) \notin OrdersOf(j)
  BY <1>1 DEF OrdersOf, MainOrder, TakeProfit, StopLoss
<1> QED BY <1>2 DEF OrdersOf

(* A commission never exceeds the proceeds of the sale it is charged on: a  *)
(* condition on the fees and on the prices of the proposals.                *)
ExecutorFees ==
    \A p \in Proposals :
        \A price \in (IF p.side = "SELL" THEN {p.limit} ELSE {p.tp, p.sl}) \ {0} :
            Commission(p.qty, price) <= Gross(p.qty, price)

(* The snapshot after the risk check: the order of execution j is approved, *)
(* its bracket orders do not exist.                                         *)
Prepared(b, j, p) ==
    /\ ReadyRow(b, MainOrder(j)) /\ b.intent[MainOrder(j)] = MainIntent(j, p)
    /\ Blank(b, TakeProfit(j)) /\ Blank(b, StopLoss(j))

(* From snapshot b to w, execution j delivered its order, with brackets or  *)
(* without.                                                                 *)
Delivered(b, w, j, p) ==
    /\ w \in Books /\ w.frozen = b.frozen
    /\ \A x \in OrderIds \ OrdersOf(j) : w.fills[x] = b.fills[x]
    /\ FilledRow(w, MainOrder(j)) /\ w.intent[MainOrder(j)] = MainIntent(j, p)
    /\ \A o \in {TakeProfit(j), StopLoss(j)} : Blank(w, o) \/ FilledRow(w, o)
    /\ \E o \in OrdersOf(j) : ShowsBalance(w, o)
    /\ LedgerExact(b) => LedgerExact(w)
    /\ ExecutorFees /\ b.cash >= 0 => w.cash >= 0
    /\ Blank(w, TakeProfit(j)) /\ Blank(w, StopLoss(j)) /\ WithinPosition(b) => WithinPosition(w)

(* A sale that covers its fee brings cash. *)
LEMMA SaleBringsCash ==
    ASSUME NEW i \in OrderIntents, i.side = "SELL",
           Commission(i.qty, i.limit) <= Gross(i.qty, i.limit),
           NEW x \in Int, x >= 0
    PROVE  x + Proceeds(i) >= 0
<1>1. i.qty \in Nat /\ i.limit \in Nat
  BY IntentType
<1> DEFINE g == Gross(i.qty, i.limit)
           f == Commission(i.qty, i.limit)
<1>2. g \in Nat /\ f \in Nat /\ f <= g
  BY <1>1, AmountType
<1>3. Proceeds(i) = g - f
  BY DEF Proceeds
<1> HIDE DEF g, f
<1> QED BY <1>2, <1>3

(* The order itself. *)
LEMMA DeliverMain ==
    ASSUME NEW b \in Books, NEW j \in JobIds, NEW p \in Proposals, p.limit # 0,
           Prepared(b, j, p),
           NEW q, q = QuoteAt(p.symbol, p.limit), Accepts(b, MainOrder(j), q),
           NEW c, c = SubmitOrder(b, MainOrder(j), q)
    PROVE  /\ Delivered(b, c, j, p)
           /\ Blank(c, TakeProfit(j)) /\ Blank(c, StopLoss(j))
<1> DEFINE i == MainIntent(j, p)
           o == MainOrder(j)
<1>1. /\ SubmittedAtLimit(i) /\ ~IsBracketOrder(i)
      /\ i.symbol = p.symbol /\ i.side = p.side /\ i.qty = p.qty /\ i.limit = p.limit
  BY MainIntentType
<1>2. /\ o \in OrderIds /\ TakeProfit(j) \in OrderIds \ {o} /\ StopLoss(j) \in OrderIds \ {o}
      /\ o \in OrdersOf(j)
  BY OwnIds DEF OrdersOf
<1>3. b.intent[o] = i /\ ReadyRow(b, o)
  BY DEF Prepared
<1>4. i \in OrderIntents /\ i.side \in OrderSide
  BY <1>1, IntentType DEF SubmittedAtLimit
<1> HIDE DEF i, o
<1>5. FilledAtLimit(b, c, o, i)
  <2>1. q = QuoteAt(i.symbol, i.limit) /\ Accepts(b, o, q) /\ c = SubmitOrder(b, o, q)
    BY <1>1 DEF o
  <2> QED BY <1>1, <1>2, <1>3, <2>1, SubmitAtLimit
<1>6. Executed(b, c, o, i)
  BY <1>2, <1>3, <1>4, <1>5, ReadyExecuted
<1>7. Blank(c, TakeProfit(j)) /\ Blank(c, StopLoss(j))
  BY <1>2, <1>6 DEF Executed, RowsKept, Prepared, Blank
<1>8. \A x \in OrderIds \ OrdersOf(j) : c.fills[x] = b.fills[x]
  BY <1>2, <1>6 DEF Executed, RowsKept
<1>9. ASSUME ExecutorFees, b.cash >= 0 PROVE c.cash >= 0
  <2>1. CASE i.side = "BUY"
    BY <1>5, <2>1 DEF FilledAtLimit
  <2>2. CASE i.side = "SELL"
    <3>1. Commission(i.qty, i.limit) <= Gross(i.qty, i.limit)
      BY <1>1, <1>9, <2>2 DEF ExecutorFees
    <3>2. b.cash \in Int
      BY DEF Books
    <3>3. b.cash + Proceeds(i) >= 0
      BY <1>4, <1>9, <2>2, <3>1, <3>2, SaleBringsCash
    <3> QED BY <1>6, <3>3 DEF Executed
  <2> QED BY <1>4, <2>1, <2>2 DEF OrderSide
<1>10. WithinPosition(b) => WithinPosition(c)
  BY <1>1, <1>5 DEF FilledAtLimit
<1>11. /\ c \in Books /\ c.frozen = b.frozen
       /\ FilledRow(c, MainOrder(j)) /\ c.intent[MainOrder(j)] = MainIntent(j, p)
       /\ LedgerExact(b) => LedgerExact(c)
  BY <1>6 DEF Executed, o, i
<1>12. \E x \in OrdersOf(j) : ShowsBalance(c, x)
  BY <1>2, <1>6 DEF Executed
<1> QED BY <1>7, <1>8, <1>9, <1>10, <1>11, <1>12 DEF Delivered

(* One of its bracket orders. *)
LEMMA DeliverBracket ==
    ASSUME NEW b \in Books, NEW w, NEW j \in JobIds, NEW p \in Proposals, p.side = "BUY",
           Delivered(b, w, j, p),
           NEW o \in {TakeProfit(j), StopLoss(j)}, Blank(w, o),
           NEW type \in {"LIMIT_IF_TOUCHED", "STOP_LIMIT"},
           NEW trigger \in {p.tp, p.sl} \ {0},
           NEW c, c = SubmitBracketOrder(w, o, BracketIntent(j, p, type, trigger))
    PROVE  Delivered(b, c, j, p) /\ RowsKept(w, c, o)
<1> DEFINE i == BracketIntent(j, p, type, trigger)
<1>1. trigger \in Nat \ {0}
  BY ExecutorAssumption
<1>2. /\ SubmittedAtLimit(i) /\ IsBracketOrder(i)
      /\ i.side = "SELL" /\ i.qty = p.qty /\ i.limit = trigger
  BY <1>1, BracketIntentType
<1>3. /\ o \in OrderIds /\ o \in OrdersOf(j) /\ MainOrder(j) \in OrderIds \ {o}
      /\ TakeProfit(j) \in OrderIds /\ StopLoss(j) \in OrderIds
  BY OwnIds DEF OrdersOf
<1>4. w \in Books
  BY DEF Delivered
<1>5. c = SubmitBracketOrder(w, o, i)
  OBVIOUS
<1> HIDE DEF i
<1>6. Executed(w, c, o, i)
  BY <1>2, <1>3, <1>4, <1>5, BracketExecuted
<1>7. RowsKept(w, c, o)
  BY <1>6 DEF Executed
<1>8. \A x \in OrderIds \ OrdersOf(j) : c.fills[x] = b.fills[x]
  BY <1>3, <1>7 DEF Delivered, RowsKept
<1>9. FilledRow(c, MainOrder(j)) /\ c.intent[MainOrder(j)] = MainIntent(j, p)
  BY <1>3, <1>7 DEF Delivered, RowsKept, FilledRow
<1>10. FilledRow(c, o) /\ ~Blank(c, o)
  BY <1>6 DEF Executed, FilledRow, Blank, NoRow
<1>11. \A x \in {TakeProfit(j), StopLoss(j)} : Blank(c, x) \/ FilledRow(c, x)
  <2>1. ASSUME NEW x \in {TakeProfit(j), StopLoss(j)}, x # o PROVE Blank(c, x) \/ FilledRow(c, x)
    <3>1. Blank(w, x) \/ FilledRow(w, x)
      BY DEF Delivered
    <3> QED BY <1>3, <1>7, <2>1, <3>1 DEF RowsKept, Blank, FilledRow
  <2> QED BY <1>10, <2>1
<1>12. \E x \in OrdersOf(j) : ShowsBalance(c, x)
  BY <1>3, <1>6 DEF Executed
<1>13. c \in Books /\ c.frozen = b.frozen /\ (LedgerExact(b) => LedgerExact(c))
  BY <1>6 DEF Executed, Delivered
<1>14. ASSUME ExecutorFees, b.cash >= 0 PROVE c.cash >= 0
  <2>1. w.cash >= 0 /\ w.cash \in Int
    BY <1>4, <1>14 DEF Delivered, Books
  <2>2. Commission(i.qty, i.limit) <= Gross(i.qty, i.limit)
    BY <1>2, <1>14 DEF ExecutorFees
  <2>3. w.cash + Proceeds(i) >= 0
    BY <1>2, <2>1, <2>2, SaleBringsCash DEF SubmittedAtLimit
  <2> QED BY <1>6, <2>3 DEF Executed
<1>15. ~(Blank(c, TakeProfit(j)) /\ Blank(c, StopLoss(j)))
  BY <1>10
<1> QED BY <1>7, <1>8, <1>9, <1>11, <1>12, <1>13, <1>14, <1>15 DEF Delivered

(* The order and its brackets. *)
LEMMA DeliverAll ==
    ASSUME NEW b \in Books, NEW j \in JobIds, NEW p \in Proposals, p.limit # 0,
           Prepared(b, j, p),
           NEW q, q = QuoteAt(p.symbol, p.limit), Accepts(b, MainOrder(j), q),
           NEW sent, sent = SubmitOrder(b, MainOrder(j), q),
           NEW w, w = SubmitBrackets(sent, j, p)
    PROVE  Delivered(b, w, j, p)
<1> DEFINE first == IF p.tp = 0 THEN sent
                    ELSE SubmitBracketOrder(sent, TakeProfit(j),
                                            BracketIntent(j, p, "LIMIT_IF_TOUCHED", p.tp))
<1>1. Delivered(b, sent, j, p) /\ Blank(sent, TakeProfit(j)) /\ Blank(sent, StopLoss(j))
  BY DeliverMain
<1>2. w = IF p.side = "BUY"
          THEN IF p.sl = 0 THEN first
               ELSE SubmitBracketOrder(first, StopLoss(j),
                                       BracketIntent(j, p, "STOP_LIMIT", p.sl))
          ELSE sent
  BY DEF SubmitBrackets
<1>3. ASSUME p.side = "BUY" PROVE Delivered(b, first, j, p) /\ Blank(first, StopLoss(j))
  <2>1. CASE p.tp = 0
    BY <1>1, <2>1
  <2>2. CASE p.tp # 0
    <3>1. first = SubmitBracketOrder(sent, TakeProfit(j),
                                     BracketIntent(j, p, "LIMIT_IF_TOUCHED", p.tp))
      BY <2>2
    <3> HIDE DEF first
    <3>2. p.tp \in {p.tp, p.sl} \ {0} /\ TakeProfit(j) \in {TakeProfit(j), StopLoss(j)}
      BY <2>2
    <3>3. Delivered(b, first, j, p) /\ RowsKept(sent, first, TakeProfit(j))
      BY <1>1, <1>3, <3>1, <3>2, DeliverBracket
    <3>4. StopLoss(j) \in OrderIds \ {TakeProfit(j)}
      BY OwnIds
    <3> QED BY <1>1, <3>3, <3>4 DEF RowsKept, Blank
  <2> QED BY <2>1, <2>2
<1> HIDE DEF first
<1>4. CASE p.side = "BUY" /\ p.sl # 0
  <2>1. w = SubmitBracketOrder(first, StopLoss(j), BracketIntent(j, p, "STOP_LIMIT", p.sl))
    BY <1>2, <1>4
  <2>2. p.sl \in {p.tp, p.sl} \ {0} /\ StopLoss(j) \in {TakeProfit(j), StopLoss(j)}
    BY <1>4
  <2> QED BY <1>3, <1>4, <2>1, <2>2, DeliverBracket
<1>5. CASE ~(p.side = "BUY" /\ p.sl # 0)
  BY <1>1, <1>2, <1>3, <1>5
<1> QED BY <1>4, <1>5

(* No order of the cooldown window has the symbol and side of i. *)
CooledDown(b, f, o, i) ==
    \A x \in (b.fresh \cap f) \ {o} :
        b.status[x] # NoRow
        => b.intent[x].symbol # i.symbol \/ b.intent[x].side # i.side

(* Orders leave the cooldown window. *)
LEMMA AgedType ==
    ASSUME NEW b \in Books, NEW f, NEW seen, seen = [b EXCEPT !.fresh = @ \cap f]
    PROVE  /\ seen \in Books /\ seen.fresh = b.fresh \cap f
           /\ seen.intent = b.intent /\ seen.fills = b.fills /\ SameTrail(b, seen)
           /\ SameMoney(b, seen) /\ SameShares(b, seen)
<1>1. b.fresh \cap f \in SUBSET OrderIds
  BY DEF Books
<1>2. seen = [b EXCEPT !.fresh = b.fresh \cap f]
  BY DEF Books
<1>3. seen \in Books
  BY <1>1, <1>2, ZenonT(40) DEF Books
<1>4. /\ seen.fresh = b.fresh \cap f
      /\ seen.intent = b.intent /\ seen.fills = b.fills /\ SameTrail(b, seen)
      /\ SameMoney(b, seen) /\ SameShares(b, seen)
  BY <1>2 DEF Books, SameTrail, SameMoney, SameShares
<1> QED BY <1>3, <1>4

(* From b to c, order o with intent i is created and approved. *)
ApprovedIn(b, c, o, i) ==
    /\ c \in Books /\ RowsKept(b, c, o) /\ ReadyRow(c, o) /\ c.intent[o] = i
    /\ SameMoney(b, c) /\ SameShares(b, c)
    /\ LedgerExact(b) => LedgerExact(c)

(* What an approval of the snapshot's new order leaves. *)
LEMMA ApprovalType ==
    ASSUME NEW b \in Books, NEW o \in OrderIds, Blank(b, o), NEW i \in OrderIntents,
           NEW made, made = CreateOrder(b, o, i), NEW q,
           NEW c, c = RunRiskCheck(made, o, q, TRUE), c.status[o] = "RISK_APPROVED"
    PROVE  ApprovedIn(b, c, o, i) /\ RiskApproves(made, o, q, TRUE)
<1> DEFINE a == TransitionOrder(made, o, "RISK_APPROVED")
           r == TransitionOrder(made, o, "RISK_REJECTED")
<1>1. made \in Books
  BY CreateType
<1>2. "RISK_REJECTED" \in OrderStatus /\ "ORDER_READY_TO_SUBMIT" \in OutboxEvents
  BY DEF OrderStatus, OutboxEvents
<1>3. r.status[o] = "RISK_REJECTED"
  <2>1. r.status = [made.status EXCEPT ![o] = "RISK_REJECTED"] /\ DOMAIN made.status = OrderIds
    <3>1. r = TransitionOrder(made, o, "RISK_REJECTED")
      OBVIOUS
    <3> HIDE DEF r
    <3>2. r.status = [made.status EXCEPT ![o] = "RISK_REJECTED"]
      BY <1>1, <1>2, <3>1, TransitionType
    <3> QED BY <1>1, <3>2 DEF Books
  <2> HIDE DEF r
  <2> QED BY <2>1
<1>4. RiskApproves(made, o, q, TRUE)
  <2>1. ~RiskApproves(made, o, q, TRUE) => c = r
    BY DEF RunRiskCheck
  <2> HIDE DEF r
  <2> QED BY <1>3, <2>1
<1>5. c = EnqueueEvent(a, "ORDER_READY_TO_SUBMIT", o)
  BY <1>4 DEF RunRiskCheck
<1>6. a = TransitionOrder(made, o, "RISK_APPROVED")
  OBVIOUS
<1> HIDE DEF a, r
<1>7. /\ a \in Books /\ RowsKept(b, a, o) /\ ReadyRow(a, o) /\ a.intent[o] = i
      /\ SameMoney(b, a) /\ SameShares(b, a)
      /\ LedgerExact(b) => LedgerExact(a)
  BY <1>6, ApprovedRow
<1>8. c \in Books
  <2>1. a \in Books /\ o \in Nat
    BY <1>7, BookAssumption DEF OrderIds
  <2> QED BY ONLY <1>2, <1>5, <2>1, EnqueueType
<1>9. /\ c.outbox = a.outbox \cup {<<"ORDER_READY_TO_SUBMIT", o>>}
      /\ c.intent = a.intent /\ c.fills = a.fills
      /\ SameTrail(a, c) /\ SameClock(a, c) /\ SameMoney(a, c) /\ SameGains(a, c)
      /\ SameShares(a, c) /\ SameWorth(a, c)
  <2>1. a \in Books
    BY <1>7
  <2> QED BY ONLY <1>5, <2>1, EnqueueFields
<1>10. RowsKept(b, c, o) /\ ReadyRow(c, o) /\ c.intent[o] = i
  <2>1. c.intent = a.intent /\ c.fills = a.fills /\ c.status = a.status /\ c.audit = a.audit
    BY <1>9 DEF SameTrail
  <2>2. RowsKept(b, a, o) /\ ReadyRow(a, o) /\ a.intent[o] = i
    BY <1>7
  <2>3. RowsKept(b, c, o)
    BY ONLY <2>1, <2>2 DEF RowsKept
  <2>4. ReadyRow(c, o)
    BY ONLY <2>1, <2>2 DEF ReadyRow
  <2> QED BY <2>1, <2>2, <2>3, <2>4
<1>11. SameMoney(b, c) /\ SameShares(b, c)
  BY <1>7, <1>9 DEF SameMoney, SameShares
<1>12. LedgerExact(a) => LedgerExact(c)
  <2>1. Booked(c) = Booked(a)
    BY <1>9, SameBooked
  <2> QED BY <1>9, <2>1 DEF LedgerExact, SameTrail, SameMoney
<1> QED BY <1>4, <1>7, <1>8, <1>10, <1>11, <1>12 DEF ApprovedIn

(* From snapshot b to c, the order of execution j passes the risk check. *)
CheckedIn(b, c, j, p) ==
    /\ c \in Books /\ RowsKept(b, c, MainOrder(j)) /\ Prepared(c, j, p)
    /\ SameMoney(b, c) /\ SameShares(b, c)
    /\ LedgerExact(b) => LedgerExact(c)

(* The risk check of an execution, on the snapshot b at a time when the     *)
(* orders f are in the cooldown window.                                     *)
LEMMA CheckedType ==
    ASSUME NEW b \in Books, NEW f, NEW j \in JobIds, NEW p \in Proposals, p.limit # 0,
           \A o \in OrdersOf(j) : Blank(b, o),
           NEW seen, seen = [b EXCEPT !.fresh = @ \cap f],
           NEW made, made = CreateOrder(seen, MainOrder(j), MainIntent(j, p)),
           NEW c, c = RunRiskCheck(made, MainOrder(j), QuoteAt(p.symbol, p.limit), TRUE),
           c.status[MainOrder(j)] = "RISK_APPROVED"
    PROVE  /\ CheckedIn(b, c, j, p)
           /\ CooledDown(b, f, MainOrder(j), MainIntent(j, p))
<1> DEFINE i == MainIntent(j, p)
           o == MainOrder(j)
           q == QuoteAt(p.symbol, p.limit)
<1>1. i \in OrderIntents
  BY MainIntentType DEF SubmittedAtLimit
<1>2. /\ o \in OrderIds /\ TakeProfit(j) \in OrderIds \ {o} /\ StopLoss(j) \in OrderIds \ {o}
      /\ o \in OrdersOf(j) /\ TakeProfit(j) \in OrdersOf(j) /\ StopLoss(j) \in OrdersOf(j)
  BY OwnIds DEF OrdersOf
<1>3. /\ made = CreateOrder(seen, o, i) /\ c = RunRiskCheck(made, o, q, TRUE)
      /\ c.status[o] = "RISK_APPROVED"
  OBVIOUS
<1> HIDE DEF i, o, q
<1>4. /\ seen \in Books /\ seen.fresh = b.fresh \cap f
      /\ seen.intent = b.intent /\ seen.fills = b.fills /\ SameTrail(b, seen)
      /\ SameMoney(b, seen) /\ SameShares(b, seen)
  BY AgedType
<1>5. Blank(seen, o)
  BY <1>2, <1>4 DEF Blank, SameTrail
<1>6. ApprovedIn(seen, c, o, i) /\ RiskApproves(made, o, q, TRUE)
  <2>1. seen \in Books /\ o \in OrderIds
    BY <1>2, <1>4
  <2> QED BY ONLY <1>1, <1>3, <1>5, <2>1, ApprovalType, Zenon
<1>7. RowsKept(b, c, o) /\ SameMoney(b, c) /\ SameShares(b, c)
  <2>1. RowsKept(b, c, o)
    <3>1. RowsKept(seen, c, o)
      BY <1>6 DEF ApprovedIn
    <3>2. seen.intent = b.intent /\ seen.fills = b.fills
          /\ seen.status = b.status /\ seen.audit = b.audit
      BY <1>4 DEF SameTrail
    <3> QED BY ONLY <3>1, <3>2 DEF RowsKept
  <2>2. SameMoney(b, c) /\ SameShares(b, c)
    BY <1>4, <1>6 DEF ApprovedIn, SameMoney, SameShares
  <2> QED BY <2>1, <2>2
<1>8. Prepared(c, j, p)
  <2>1. Blank(c, TakeProfit(j)) /\ Blank(c, StopLoss(j))
    BY <1>2, <1>7 DEF RowsKept, Blank
  <2> QED BY <1>6, <2>1 DEF Prepared, ApprovedIn, o, i
<1>9. LedgerExact(b) => LedgerExact(seen)
  <2>1. Booked(seen) = Booked(b)
    BY <1>4, SameBooked
  <2> QED BY <1>4, <2>1 DEF LedgerExact, SameTrail, SameMoney
<1>10. CooledDown(b, f, o, i)
  <2>1. ASSUME NEW x \in (b.fresh \cap f) \ {o}, b.status[x] # NoRow,
               b.intent[x].symbol = i.symbol, b.intent[x].side = i.side
        PROVE  FALSE
    <3>1. /\ made.status = [seen.status EXCEPT ![o] = "CREATED"]
          /\ made.intent = [seen.intent EXCEPT ![o] = i]
      <4>1. seen \in Books /\ o \in OrderIds
        BY <1>2, <1>4
      <4> QED BY ONLY <1>1, <1>3, <4>1, CreateType
    <3>2. x \in OrderIds /\ DOMAIN seen.status = OrderIds /\ DOMAIN seen.intent = OrderIds
      BY <1>4, <2>1 DEF Books
    <3>3. /\ made.status[x] # NoRow /\ made.intent[x] = b.intent[x] /\ made.intent[o] = i
      BY <1>2, <1>4, <2>1, <3>1, <3>2 DEF SameTrail
    <3>4. x \in Similar(made, o)
      BY <2>1, <3>2, <3>3 DEF Similar, Created
    <3>5. made.fresh = seen.fresh \cup {o}
      <4>1. made = CreateOrder(seen, o, i) /\ seen \in Books
        BY <1>3, <1>4
      <4> QED BY ONLY <4>1, SMTT(30) DEF CreateOrder, Books
    <3>6. Similar(made, o) \cap made.fresh = {}
      BY <1>6 DEF RiskApproves
    <3> QED BY <1>4, <2>1, <3>4, <3>5, <3>6
  <2> QED BY <2>1 DEF CooledDown
<1> QED BY <1>6, <1>7, <1>8, <1>9, <1>10 DEF CheckedIn, ApprovedIn, o, i

(* What a commit writes: the rows of execution j, the account, the position *)
(* of symbol s.                                                             *)
Committed(b, w, c, j, s) ==
    /\ c \in Books
    /\ \A o \in OrdersOf(j) :
          /\ c.intent[o] = w.intent[o] /\ c.status[o] = w.status[o]
          /\ c.audit[o] = w.audit[o] /\ c.fills[o] = w.fills[o]
    /\ \A o \in OrderIds \ OrdersOf(j) :
          /\ c.intent[o] = b.intent[o] /\ c.status[o] = b.status[o]
          /\ c.audit[o] = b.audit[o] /\ c.fills[o] = b.fills[o]
    /\ c.fresh = b.fresh \cup {o \in OrdersOf(j) : w.status[o] # NoRow}
    /\ SameMoney(w, c)
    /\ c.qty = [b.qty EXCEPT ![s] = w.qty[s]]
    /\ c.avail = [b.avail EXCEPT ![s] = w.avail[s]]

(* session.commit. *)
LEMMA CommitType ==
    ASSUME NEW b \in Books, NEW w \in Books, NEW j \in JobIds, NEW s \in Symbols,
           NEW c, c = Commit(b, w, j, s)
    PROVE  Committed(b, w, c, j, s)
<1> DEFINE own(f, g) == [o \in OrderIds |-> IF o \in OrdersOf(j) THEN g[o] ELSE f[o]]
           rows == {o \in OrdersOf(j) : w.status[o] # NoRow}
           int == own(b.intent, w.intent)
           sta == own(b.status, w.status)
           aud == own(b.audit, w.audit)
           fil == own(b.fills, w.fills)
           out == b.outbox \cup w.outbox
           fre == b.fresh \cup rows
           tod == b.today \cup rows
           qty == [b.qty EXCEPT ![s] = w.qty[s]]
           ava == [b.avail EXCEPT ![s] = w.avail[s]]
           bas == [b.basis EXCEPT ![s] = w.basis[s]]
           mva == [b.mval EXCEPT ![s] = w.mval[s]]
<1>1. OrdersOf(j) \subseteq OrderIds
  BY OwnIds DEF OrdersOf
<1>2. c = [b EXCEPT !.intent = int, !.status = sta, !.audit = aud, !.fills = fil,
                    !.outbox = out, !.fresh = fre, !.today = tod,
                    !.cash = w.cash, !.frozen = w.frozen, !.realized = w.realized,
                    !.equity = w.equity, !.qty = qty, !.avail = ava, !.basis = bas,
                    !.mval = mva]
  BY ZenonT(60) DEF Commit, Books
<1>3. /\ int \in [OrderIds -> OrderIntents \cup {NoIntent}]
      /\ sta \in [OrderIds -> OrderStatus \cup {NoRow}]
  BY <1>1 DEF Books
<1>4. /\ aud \in [OrderIds -> Seq(OrderStatus)]
      /\ fil \in [OrderIds -> Seq([price : Nat, amount : Int, balance : Int])]
  BY <1>1 DEF Books
<1>5. /\ out \in SUBSET (OutboxEvents \X Nat)
      /\ fre \in SUBSET OrderIds /\ tod \in SUBSET OrderIds
  BY <1>1 DEF Books
<1>6. w.cash \in Int /\ w.frozen \in Int /\ w.realized \in Int /\ w.equity \in Int
  BY DEF Books
<1>7. qty \in [Symbols -> Nat] /\ ava \in [Symbols -> Int]
  BY DEF Books
<1>8. bas \in [Symbols -> Int] /\ mva \in [Symbols -> Int]
  BY DEF Books
<1>9. /\ \A o \in OrdersOf(j) :
            /\ int[o] = w.intent[o] /\ sta[o] = w.status[o]
            /\ aud[o] = w.audit[o] /\ fil[o] = w.fills[o]
      /\ \A o \in OrderIds \ OrdersOf(j) :
            /\ int[o] = b.intent[o] /\ sta[o] = b.status[o]
            /\ aud[o] = b.audit[o] /\ fil[o] = b.fills[o]
  BY <1>1
<1> HIDE DEF int, sta, aud, fil, out, fre, tod, qty, ava, bas, mva
<1>10. c \in Books
  BY <1>2, <1>3, <1>4, <1>5, <1>6, <1>7, <1>8, ZenonT(120) DEF Books
<1>11. /\ c.intent = int /\ c.status = sta /\ c.audit = aud /\ c.fills = fil
       /\ c.fresh = fre /\ c.cash = w.cash /\ c.frozen = w.frozen
       /\ c.qty = qty /\ c.avail = ava
  BY <1>2 DEF Books
<1> QED BY <1>9, <1>10, <1>11 DEF Committed, SameMoney, fre, qty, ava

-----------------------------------------------------------------------------
(* The inductive invariant of the executions.  It speaks of the committed   *)
(* tables and of the snapshot every open transaction works on; what holds   *)
(* only while executions do not overlap is a part of its own.               *)

Phases == {"waiting", "reading", "inserted", "done", "failed"}

Transactions == [phase : Phases, proposal : Proposals \cup {NoProposal}, work : Books]

Open(t) == t.phase \in {"reading", "inserted"}

NoBracketRows(b) ==
    \A j \in JobIds : b.status[TakeProfit(j)] = NoRow /\ b.status[StopLoss(j)] = NoRow

(* Every committed order was filled at once, and nothing stays frozen. *)
TablesInv(b) ==
    /\ b \in Books /\ b.frozen = 0
    /\ \A o \in OrderIds : Blank(b, o) \/ FilledRow(b, o)
    /\ NoBracketRows(b) => WithinPosition(b)

(* Transaction t of execution j, next to the tables b: its rows are its own *)
(* until it commits, and an order in the cooldown window is committed.      *)
JobInv(j, t, b) ==
    /\ t \in Transactions
    /\ t.phase # "waiting" => t.proposal \in Proposals
    /\ t.phase \in {"waiting", "reading", "inserted"} => \A o \in OrdersOf(j) : Blank(b, o)
    /\ t.phase = "reading" => \A o \in OrdersOf(j) : Blank(t.work, o)
    /\ t.phase = "inserted" => t.proposal.limit # 0 /\ Prepared(t.work, j, t.proposal)
    /\ Open(t) => t.work.frozen = 0 /\ (NoBracketRows(b) => WithinPosition(t.work))
    /\ MainOrder(j) \in b.fresh =>
         /\ t.phase = "done"
         /\ b.status[MainOrder(j)] # NoRow
         /\ b.intent[MainOrder(j)] = MainIntent(j, t.proposal)

(* Two proposals the cooldown does not keep apart. *)
Apart(p, r) == p.symbol # r.symbol \/ p.side # r.side

(* While executions do not overlap, an open one knows the tables: nobody    *)
(* else writes, and the cooldown window only shrinks.                       *)
AloneJob(j, t, b) ==
    Open(t) =>
        /\ SameMoney(b, t.work) /\ LedgerExact(t.work)
        /\ \A x \in OrderIds \ OrdersOf(j) :
              /\ t.work.fills[x] = b.fills[x] /\ t.work.status[x] = b.status[x]
              /\ t.work.intent[x] = b.intent[x]
        /\ t.phase = "reading" => b.fresh \subseteq t.work.fresh

AloneInv(b, T) ==
    /\ LedgerExact(b)
    /\ ExecutorFees => b.cash >= 0
    /\ \A j, k \in JobIds : Open(T[j]) /\ Open(T[k]) => j = k
    /\ \A j \in JobIds : AloneJob(j, T[j], b)
    /\ \A j, k \in JobIds :
          /\ j # k
          /\ MainOrder(j) \in b.fresh \/ T[j].phase = "inserted"
          /\ MainOrder(k) \in b.fresh
          => Apart(T[j].proposal, T[k].proposal)

ExecutorInv ==
    /\ TablesInv(tables)
    /\ tx \in [JobIds -> Transactions]
    /\ \A j \in JobIds : JobInv(j, tx[j], tables)
    /\ alone \in BOOLEAN
    /\ alone => AloneInv(tables, tx)

(* The book an account is seeded with. *)
LEMMA EmptyBookType ==
    /\ EmptyBook \in Books /\ EmptyBook.frozen = 0 /\ EmptyBook.fresh = {}
    /\ EmptyBook.cash >= 0
    /\ \A o \in OrderIds : Blank(EmptyBook, o)
    /\ WithinPosition(EmptyBook) /\ LedgerExact(EmptyBook)
<1> DEFINE b == EmptyBook
<1>1. /\ InitCash \in Int /\ InitQty \in Nat /\ InitCost \in Int
      /\ InitCash + NSymbols * InitCost \in Int /\ InitCash >= 0 /\ MaxOrders \in Nat
  BY BookAssumption
<1>2. b \in Books
  <2>1. << >> \in Seq(OrderStatus)
        /\ << >> \in Seq([price : Nat, amount : Int, balance : Int])
    OBVIOUS
  <2> QED BY <1>1, <2>1 DEF EmptyBook, Books
<1>3. /\ \A o \in OrderIds : b.status[o] = NoRow /\ b.audit[o] = << >> /\ b.fills[o] = << >>
      /\ b.frozen = 0 /\ b.fresh = {} /\ b.cash = InitCash
      /\ b.qty = [s \in Symbols |-> InitQty] /\ b.avail = [s \in Symbols |-> InitQty]
  BY DEF EmptyBook
<1> HIDE DEF b
<1>4. \A o \in OrderIds : Blank(b, o)
  BY <1>3 DEF Blank
<1>5. WithinPosition(b)
  BY <1>1, <1>3 DEF WithinPosition
<1>6. LedgerExact(b)
  <2>1. ASSUME NEW o \in OrderIds PROVE Booked(b)[o] = 0
    <3> DEFINE f == [n \in DOMAIN b.fills[o] |-> b.fills[o][n].amount]
    <3>1. Len(b.fills[o]) = 0 /\ f \in [1..0 -> Int]
      BY <1>3
    <3>2. Booked(b)[o] = SumTo(f, Len(b.fills[o]))
      BY DEF Booked
    <3> HIDE DEF f
    <3> QED BY <3>1, <3>2, SumToNone
  <2>2. Booked(b) \in [1..MaxOrders -> Int] /\ \A o \in 1..MaxOrders : Booked(b)[o] = 0
    <3>1. Booked(b) = [o \in OrderIds |-> Booked(b)[o]]
      BY DEF Booked
    <3> QED BY <2>1, <3>1 DEF OrderIds
  <2>3. SumTo(Booked(b), MaxOrders) = 0
    BY <1>1, <2>2, SumToZero
  <2> QED BY <1>1, <1>3, <2>3 DEF LedgerExact, NoRow
<1> QED BY <1>1, <1>2, <1>3, <1>4, <1>5, <1>6 DEF b

(* An execution that has not begun, or has ended, holds an empty snapshot. *)
LEMMA IdleJob ==
    ASSUME NEW j \in JobIds, NEW b, NEW t, NEW phase \in {"waiting", "done", "failed"},
           NEW p \in Proposals \cup {NoProposal},
           t = [phase |-> phase, proposal |-> p, work |-> EmptyBook],
           phase # "waiting" => p \in Proposals,
           phase = "waiting" => \A o \in OrdersOf(j) : Blank(b, o),
           MainOrder(j) \in b.fresh => phase = "done" /\ b.status[MainOrder(j)] # NoRow
                                       /\ b.intent[MainOrder(j)] = MainIntent(j, p)
    PROVE  JobInv(j, t, b) /\ ~Open(t)
<1>1. t \in Transactions
  BY EmptyBookType DEF Transactions, Phases
<1>2. t.phase = phase /\ t.proposal = p /\ ~Open(t)
  BY DEF Open
<1> QED BY <1>1, <1>2 DEF JobInv

(* The initial state. *)
LEMMA ExecutorInitInv == ExecutorInit => ExecutorInv
<1> SUFFICES ASSUME ExecutorInit PROVE ExecutorInv
  OBVIOUS
<1>1. tables = EmptyBook /\ tx = [j \in JobIds |-> NoTx] /\ alone = TRUE
  BY DEF ExecutorInit
<1>2. /\ tables \in Books /\ tables.frozen = 0 /\ tables.fresh = {} /\ tables.cash >= 0
      /\ \A o \in OrderIds : Blank(tables, o)
      /\ WithinPosition(tables) /\ LedgerExact(tables)
  BY <1>1, EmptyBookType
<1>3. TablesInv(tables)
  BY <1>2 DEF TablesInv
<1>4. ASSUME NEW j \in JobIds PROVE JobInv(j, NoTx, tables) /\ ~Open(NoTx)
  <2>1. \A o \in OrdersOf(j) : Blank(tables, o)
    BY <1>2, OwnIds DEF OrdersOf
  <2>2. NoTx = [phase |-> "waiting", proposal |-> NoProposal, work |-> EmptyBook]
    BY DEF NoTx
  <2>3. MainOrder(j) \notin tables.fresh /\ NoProposal \in Proposals \cup {NoProposal}
    BY <1>2
  <2> QED BY <2>1, <2>2, <2>3, IdleJob
<1>5. \A j \in JobIds : tx[j] = NoTx /\ JobInv(j, tx[j], tables) /\ ~Open(tx[j])
  BY <1>1, <1>4
<1>6. tx \in [JobIds -> Transactions]
  BY <1>1, <1>5 DEF JobInv
<1>7. AloneInv(tables, tx)
  BY <1>2, <1>5 DEF AloneInv, AloneJob, Open
<1> QED BY <1>1, <1>3, <1>5, <1>6, <1>7 DEF ExecutorInv

(* A step of execution j that leaves the tables alone. *)
LEMMA AloneStep ==
    ASSUME NEW b, NEW T, NEW U, NEW j \in JobIds, AloneInv(b, T),
           \A k \in JobIds \ {j} : U[k] = T[k],
           Open(U[j]) => Open(T[j]) \/ \A k \in JobIds : ~Open(T[k]),
           AloneJob(j, U[j], b),
           MainOrder(j) \notin b.fresh,
           U[j].phase = "inserted" =>
             \A k \in JobIds \ {j} : MainOrder(k) \in b.fresh
                                     => Apart(U[j].proposal, T[k].proposal)
    PROVE  AloneInv(b, U)
<1>1. \A k, l \in JobIds : Open(U[k]) /\ Open(U[l]) => k = l
  BY DEF AloneInv
<1>2. \A k \in JobIds : AloneJob(k, U[k], b)
  BY DEF AloneInv
<1>3. ASSUME NEW k \in JobIds, NEW l \in JobIds, k # l,
             MainOrder(k) \in b.fresh \/ U[k].phase = "inserted", MainOrder(l) \in b.fresh
      PROVE  Apart(U[k].proposal, U[l].proposal)
  <2>1. l # j /\ U[l] = T[l]
    BY <1>3
  <2>2. CASE k = j
    BY <1>3, <2>1, <2>2
  <2>3. CASE k # j
    BY <1>3, <2>1, <2>3 DEF AloneInv
  <2> QED BY <2>2, <2>3
<1> QED BY <1>1, <1>2, <1>3 DEF AloneInv

LEMMA TransactionStep ==
    ASSUME ExecutorInv, NEW j \in JobIds, UNCHANGED tables,
           NEW r, tx' = [tx EXCEPT ![j] = r], JobInv(j, r, tables),
           alone' \in BOOLEAN, alone' => alone,
           alone' /\ Open(r) => Open(tx[j]) \/ \A k \in JobIds : ~Open(tx[k]),
           alone' => AloneJob(j, r, tables),
           MainOrder(j) \notin tables.fresh,
           alone' /\ r.phase = "inserted" =>
             \A k \in JobIds \ {j} : MainOrder(k) \in tables.fresh
                                     => Apart(r.proposal, tx[k].proposal)
    PROVE  ExecutorInv'
<1>1. tx \in [JobIds -> Transactions] /\ r \in Transactions
  BY DEF ExecutorInv, JobInv
<1>2. tx' \in [JobIds -> Transactions] /\ tx'[j] = r /\ \A k \in JobIds \ {j} : tx'[k] = tx[k]
  BY <1>1
<1>3. \A k \in JobIds : JobInv(k, tx'[k], tables)
  BY <1>2 DEF ExecutorInv
<1> DEFINE U == tx'
           n == alone'
<1>4. n => AloneInv(tables, U)
  <2>1. /\ \A k \in JobIds \ {j} : U[k] = tx[k]
        /\ U[j] = r /\ (n => alone)
    BY <1>2
  <2> HIDE DEF U
  <2>2. SUFFICES ASSUME n PROVE AloneInv(tables, U)
    OBVIOUS
  <2>3. AloneInv(tables, tx)
    BY <2>1, <2>2 DEF ExecutorInv
  <2>4. Open(U[j]) => Open(tx[j]) \/ \A k \in JobIds : ~Open(tx[k])
    BY <2>1, <2>2, Zenon
  <2>5. AloneJob(j, U[j], tables)
    BY <2>1, <2>2, Zenon
  <2>6. U[j].phase = "inserted" =>
          \A k \in JobIds \ {j} : MainOrder(k) \in tables.fresh
                                  => Apart(U[j].proposal, tx[k].proposal)
    BY <2>1, <2>2, Zenon
  <2> QED BY <2>1, <2>3, <2>4, <2>5, <2>6, AloneStep, Zenon
<1>5. TablesInv(tables)
  BY DEF ExecutorInv
<1> QED BY <1>2, <1>3, <1>4, <1>5 DEF ExecutorInv

(* execute opens its session. *)
LEMMA BeginKeeps ==
    ASSUME ExecutorInv, NEW j \in JobIds, NEW p \in Proposals, Begin(j, p)
    PROVE  ExecutorInv'
<1> DEFINE r == [phase |-> "reading", proposal |-> p, work |-> tables]
<1>1. /\ tx[j].phase = "waiting" /\ tx' = [tx EXCEPT ![j] = r] /\ UNCHANGED tables
      /\ alone' = (alone /\ \A k \in JobIds : ~Active(k))
  BY DEF Begin
<1>2. JobInv(j, tx[j], tables) /\ TablesInv(tables) /\ alone \in BOOLEAN
  BY DEF ExecutorInv
<1>3. MainOrder(j) \notin tables.fresh
  BY <1>1, <1>2 DEF JobInv
<1>4. JobInv(j, r, tables)
  <2>1. r \in Transactions
    BY <1>2 DEF Transactions, Phases, TablesInv
  <2>2. r.phase = "reading" /\ r.proposal = p /\ r.work = tables
    OBVIOUS
  <2> HIDE DEF r
  <2> QED BY <1>1, <1>2, <1>3, <2>1, <2>2 DEF JobInv, TablesInv
<1>5. alone' \in BOOLEAN /\ (alone' => alone /\ \A k \in JobIds : ~Open(tx[k]))
  BY <1>1, <1>2 DEF Active, Open
<1>6. alone' => AloneJob(j, r, tables)
  <2>1. alone => LedgerExact(tables)
    BY DEF ExecutorInv, AloneInv
  <2>2. r.work = tables
    OBVIOUS
  <2> HIDE DEF r
  <2> QED BY <1>5, <2>1, <2>2 DEF AloneJob, SameMoney
<1>7. r.phase # "inserted"
  OBVIOUS
<1> HIDE DEF r
<1> QED BY <1>1, <1>3, <1>4, <1>5, <1>6, <1>7, TransactionStep

(* A transaction is rolled back. *)
LEMMA RollbackKeeps ==
    ASSUME ExecutorInv, NEW j \in JobIds, tx[j].phase \in {"reading", "inserted"},
           Ended(j, "failed"), UNCHANGED <<tables, alone>>
    PROVE  ExecutorInv'
<1> DEFINE r == [phase |-> "failed", proposal |-> tx[j].proposal, work |-> EmptyBook]
<1>1. tx \in [JobIds -> Transactions] /\ JobInv(j, tx[j], tables) /\ alone \in BOOLEAN
  BY DEF ExecutorInv
<1>2. tx' = [tx EXCEPT ![j] = r]
  BY <1>1 DEF Ended
<1>3. tx[j].proposal \in Proposals /\ MainOrder(j) \notin tables.fresh
  BY <1>1 DEF JobInv
<1>4. JobInv(j, r, tables) /\ ~Open(r)
  BY <1>3, IdleJob
<1>5. AloneJob(j, r, tables) /\ r.phase # "inserted"
  BY <1>4 DEF AloneJob
<1> HIDE DEF r
<1> QED BY <1>1, <1>2, <1>3, <1>4, <1>5, TransactionStep

(* The order is created and approved. *)
LEMMA InsertKeeps ==
    ASSUME ExecutorInv, NEW j \in JobIds, Insert(j)
    PROVE  ExecutorInv'
<1> DEFINE b == tx[j].work
           p == tx[j].proposal
           c == Checked(j)
           r == [tx[j] EXCEPT !.phase = "inserted", !.work = c]
<1>1. tx \in [JobIds -> Transactions] /\ JobInv(j, tx[j], tables) /\ alone \in BOOLEAN
  BY DEF ExecutorInv
<1>2. /\ tx[j].phase = "reading" /\ CanInsert(j) /\ UNCHANGED <<tables, alone>>
      /\ tx' = [tx EXCEPT ![j] = [tx[j] EXCEPT !.phase = "inserted", !.work = c]]
  BY <1>1 DEF Insert
<1>3. tx[j] \in Transactions
  BY <1>1
<1>4. tx' = [tx EXCEPT ![j] = r]
  BY <1>2
<1>5. /\ p \in Proposals /\ MainOrder(j) \notin tables.fresh /\ b \in Books
      /\ \A o \in OrdersOf(j) : Blank(b, o) /\ Blank(tables, o)
      /\ b.frozen = 0 /\ (NoBracketRows(tables) => WithinPosition(b))
  BY <1>1, <1>2 DEF JobInv, Open, Transactions
<1>6. p.limit # 0 /\ c.status[MainOrder(j)] = "RISK_APPROVED"
  BY <1>2 DEF CanInsert, Approved
<1>7. /\ c \in Books /\ RowsKept(b, c, MainOrder(j)) /\ Prepared(c, j, p)
      /\ SameMoney(b, c) /\ SameShares(b, c)
      /\ LedgerExact(b) => LedgerExact(c)
      /\ CooledDown(b, tables.fresh, MainOrder(j), MainIntent(j, p))
  <2> DEFINE seen == [b EXCEPT !.fresh = @ \cap tables.fresh]
             made == CreateOrder(seen, MainOrder(j), MainIntent(j, p))
             f == tables.fresh
  <2>1. /\ c = RunRiskCheck(made, MainOrder(j), QuoteAt(p.symbol, p.limit), TRUE)
        /\ made = CreateOrder(seen, MainOrder(j), MainIntent(j, p))
        /\ seen = [b EXCEPT !.fresh = @ \cap f]
    BY DEF Checked
  <2> HIDE DEF seen, made, c, b, p, f
  <2>2. \A o \in OrdersOf(j) : Blank(b, o)
    BY <1>5
  <2>3. CheckedIn(b, c, j, p) /\ CooledDown(b, f, MainOrder(j), MainIntent(j, p))
    BY ONLY <1>5, <1>6, <2>1, <2>2, CheckedType, j \in JobIds
  <2> QED BY <2>3 DEF CheckedIn, f
<1> HIDE DEF c
<1>8. r.phase = "inserted" /\ r.proposal = p /\ r.work = c /\ r \in Transactions
  <2> DEFINE t == tx[j]
  <2>1. t \in Transactions /\ r = [t EXCEPT !.phase = "inserted", !.work = c] /\ p = t.proposal
    BY <1>3
  <2> HIDE DEF t, r, p
  <2> QED BY <1>7, <2>1 DEF Transactions, Phases
<1>9. c.frozen = 0 /\ (NoBracketRows(tables) => WithinPosition(c))
  BY <1>5, <1>7 DEF SameMoney, SameShares, WithinPosition
<1> HIDE DEF r, b, p
<1>10. JobInv(j, r, tables)
  BY <1>5, <1>6, <1>7, <1>8, <1>9 DEF JobInv
<1>11. ASSUME alone PROVE AloneJob(j, r, tables)
  <2>1. AloneJob(j, tx[j], tables)
    BY <1>11 DEF ExecutorInv, AloneInv
  <2>2. /\ SameMoney(tables, b) /\ LedgerExact(b)
        /\ \A x \in OrderIds \ OrdersOf(j) :
              /\ b.fills[x] = tables.fills[x] /\ b.status[x] = tables.status[x]
              /\ b.intent[x] = tables.intent[x]
    BY <1>2, <2>1 DEF AloneJob, Open, b
  <2>3. SameMoney(tables, c) /\ LedgerExact(c)
    BY <1>7, <2>2 DEF SameMoney
  <2>4. \A x \in OrderIds \ OrdersOf(j) :
              /\ c.fills[x] = tables.fills[x] /\ c.status[x] = tables.status[x]
              /\ c.intent[x] = tables.intent[x]
    BY <1>7, <2>2 DEF RowsKept, OrdersOf
  <2> QED BY <1>8, <2>3, <2>4 DEF AloneJob
<1>12. ASSUME alone, NEW k \in JobIds \ {j}, MainOrder(k) \in tables.fresh
       PROVE  Apart(r.proposal, tx[k].proposal)
  <2>1. AloneJob(j, tx[j], tables) /\ JobInv(k, tx[k], tables)
    BY <1>12 DEF ExecutorInv, AloneInv
  <2>2. MainOrder(k) \in OrderIds /\ MainOrder(k) \notin OrdersOf(j) /\ MainOrder(j) \in OrdersOf(j)
    BY OwnIds, OtherIds DEF OrdersOf
  <2>3. /\ b.status[MainOrder(k)] = tables.status[MainOrder(k)]
        /\ b.intent[MainOrder(k)] = tables.intent[MainOrder(k)]
        /\ MainOrder(k) \in b.fresh
    BY <1>2, <1>12, <2>1, <2>2 DEF AloneJob, Open, b
  <2>4. /\ tables.status[MainOrder(k)] # NoRow
        /\ tables.intent[MainOrder(k)] = MainIntent(k, tx[k].proposal)
    BY <1>12, <2>1 DEF JobInv
  <2>5. \/ b.intent[MainOrder(k)].symbol # MainIntent(j, p).symbol
        \/ b.intent[MainOrder(k)].side # MainIntent(j, p).side
    BY <1>7, <1>12, <2>2, <2>3, <2>4 DEF CooledDown
  <2> QED BY <1>8, <2>3, <2>4, <2>5 DEF Apart, MainIntent
<1>13. Open(tx[j])
  BY <1>2 DEF Open
<1> QED BY <1>1, <1>2, <1>4, <1>5, <1>10, <1>11, <1>12, <1>13, TransactionStep

(* The commit of execution j, from tables b with snapshot a delivered as w. *)
FinishedBy(b, a, w, c, j, p) ==
    /\ b \in Books /\ a \in Books /\ p \in Proposals
    /\ \A o \in OrdersOf(j) : Blank(b, o)
    /\ a.frozen = 0 /\ (NoBracketRows(b) => WithinPosition(a))
    /\ Delivered(a, w, j, p)
    /\ Committed(b, w, c, j, p.symbol)

(* The order of execution j is filled, and the account shows its last cash. *)
LEMMA FinishedMain ==
    ASSUME NEW b, NEW a, NEW w, NEW c, NEW j \in JobIds, NEW p, FinishedBy(b, a, w, c, j, p)
    PROVE  /\ c \in Books /\ c.frozen = 0 /\ c.cash = w.cash /\ p \in Proposals
           /\ FilledRow(c, MainOrder(j)) /\ c.intent[MainOrder(j)] = MainIntent(j, p)
<1>1. MainOrder(j) \in OrdersOf(j)
  BY DEF OrdersOf
<1>2. c \in Books /\ c.frozen = 0 /\ c.cash = w.cash /\ p \in Proposals
  BY DEF FinishedBy, Delivered, Committed, SameMoney
<1>3. FilledRow(c, MainOrder(j)) /\ c.intent[MainOrder(j)] = MainIntent(j, p)
  BY <1>1 DEF FinishedBy, Delivered, Committed, FilledRow
<1> QED BY <1>2, <1>3

(* The rows of other executions stay, and the brackets do not vanish. *)
LEMMA FinishedRows ==
    ASSUME NEW b, NEW a, NEW w, NEW c, NEW j \in JobIds, NEW p, FinishedBy(b, a, w, c, j, p)
    PROVE  /\ \A k \in JobIds \ {j} : \A o \in OrdersOf(k) :
                 /\ c.intent[o] = b.intent[o] /\ c.status[o] = b.status[o]
                 /\ c.audit[o] = b.audit[o] /\ c.fills[o] = b.fills[o]
                 /\ o \in c.fresh => o \in b.fresh
           /\ NoBracketRows(c) =>
                NoBracketRows(b) /\ Blank(w, TakeProfit(j)) /\ Blank(w, StopLoss(j))
<1>1. /\ MainOrder(j) \in OrdersOf(j) /\ TakeProfit(j) \in OrdersOf(j) /\ StopLoss(j) \in OrdersOf(j)
      /\ MainOrder(j) \in OrderIds
  BY OwnIds DEF OrdersOf
<1>2. ASSUME NEW k \in JobIds \ {j}, NEW o \in OrdersOf(k)
      PROVE  /\ c.intent[o] = b.intent[o] /\ c.status[o] = b.status[o]
             /\ c.audit[o] = b.audit[o] /\ c.fills[o] = b.fills[o]
             /\ o \in c.fresh => o \in b.fresh
  <2>1. o \in OrderIds \ OrdersOf(j)
    BY OtherIds, OwnIds DEF OrdersOf
  <2> QED BY <2>1 DEF FinishedBy, Committed
<1>3. ASSUME NoBracketRows(c)
      PROVE  NoBracketRows(b) /\ Blank(w, TakeProfit(j)) /\ Blank(w, StopLoss(j))
  <2>1. ASSUME NEW k \in JobIds
        PROVE  b.status[TakeProfit(k)] = NoRow /\ b.status[StopLoss(k)] = NoRow
    <3>1. CASE k = j
      BY <1>1, <3>1 DEF FinishedBy, Blank
    <3>2. CASE k # j
      <4>1. TakeProfit(k) \in OrdersOf(k) /\ StopLoss(k) \in OrdersOf(k)
        BY DEF OrdersOf
      <4> QED BY <1>2, <1>3, <3>2, <4>1 DEF NoBracketRows
    <3> QED BY <3>1, <3>2
  <2>2. w.status[TakeProfit(j)] = NoRow /\ w.status[StopLoss(j)] = NoRow
    BY <1>1, <1>3 DEF NoBracketRows, FinishedBy, Committed
  <2>3. Blank(w, TakeProfit(j)) /\ Blank(w, StopLoss(j))
    BY <2>2 DEF FinishedBy, Delivered, FilledRow, NoRow
  <2> QED BY <2>1, <2>3 DEF NoBracketRows
<1> QED BY <1>2, <1>3

LEMMA FinishedTables ==
    ASSUME NEW b, NEW a, NEW w, NEW c, NEW j \in JobIds, NEW p, FinishedBy(b, a, w, c, j, p),
           TablesInv(b)
    PROVE  TablesInv(c)
<1>1. c \in Books /\ c.frozen = 0 /\ FilledRow(c, MainOrder(j))
  BY FinishedMain
<1>2. ASSUME NEW o \in OrderIds PROVE Blank(c, o) \/ FilledRow(c, o)
  <2>1. CASE o = MainOrder(j)
    BY <1>1, <2>1
  <2>2. CASE o \in {TakeProfit(j), StopLoss(j)}
    <3>1. Blank(w, o) \/ FilledRow(w, o)
      BY <2>2 DEF FinishedBy, Delivered
    <3>2. o \in OrdersOf(j)
      BY <2>2 DEF OrdersOf
    <3> QED BY <3>1, <3>2 DEF FinishedBy, Committed, Blank, FilledRow
  <2>3. CASE o \notin OrdersOf(j)
    <3>1. Blank(b, o) \/ FilledRow(b, o)
      BY DEF TablesInv
    <3> QED BY <2>3, <3>1 DEF FinishedBy, Committed, Blank, FilledRow
  <2> QED BY <2>1, <2>2, <2>3 DEF OrdersOf
<1>3. ASSUME NoBracketRows(c) PROVE WithinPosition(c)
  <2>1. NoBracketRows(b) /\ Blank(w, TakeProfit(j)) /\ Blank(w, StopLoss(j))
    BY <1>3, FinishedRows
  <2>2. WithinPosition(b) /\ WithinPosition(w)
    BY <2>1 DEF TablesInv, FinishedBy, Delivered
  <2>3. b \in Books /\ c.qty = [b.qty EXCEPT ![p.symbol] = w.qty[p.symbol]]
        /\ c.avail = [b.avail EXCEPT ![p.symbol] = w.avail[p.symbol]]
    BY DEF FinishedBy, Committed
  <2>4. b.qty \in [Symbols -> Nat] /\ b.avail \in [Symbols -> Int]
    BY <2>3 DEF Books
  <2>5. \A s \in Symbols : b.avail[s] \in 0..b.qty[s] /\ w.avail[s] \in 0..w.qty[s]
    BY <2>2 DEF WithinPosition
  <2>6. \A s \in Symbols : c.avail[s] \in 0..c.qty[s]
    BY ONLY <2>3, <2>4, <2>5
  <2> QED BY <2>6 DEF WithinPosition
<1> QED BY <1>1, <1>2, <1>3 DEF TablesInv

LEMMA FinishedJobs ==
    ASSUME NEW b, NEW a, NEW w, NEW c, NEW j \in JobIds, NEW p, FinishedBy(b, a, w, c, j, p),
           NEW k \in JobIds \ {j}, NEW t, JobInv(k, t, b)
    PROVE  JobInv(k, t, c)
<1>1. \A o \in OrdersOf(k) :
         /\ c.intent[o] = b.intent[o] /\ c.status[o] = b.status[o]
         /\ c.audit[o] = b.audit[o] /\ c.fills[o] = b.fills[o]
         /\ o \in c.fresh => o \in b.fresh
  BY FinishedRows
<1>2. MainOrder(k) \in OrdersOf(k)
  BY DEF OrdersOf
<1>3. NoBracketRows(c) => NoBracketRows(b)
  BY FinishedRows
<1>4. ASSUME t.phase \in {"waiting", "reading", "inserted"}
      PROVE  \A o \in OrdersOf(k) : Blank(c, o)
  BY <1>1, <1>4 DEF JobInv, Blank
<1>5. ASSUME MainOrder(k) \in c.fresh
      PROVE  /\ t.phase = "done" /\ c.status[MainOrder(k)] # NoRow
             /\ c.intent[MainOrder(k)] = MainIntent(k, t.proposal)
  BY <1>1, <1>2, <1>5 DEF JobInv
<1> QED BY <1>3, <1>4, <1>5 DEF JobInv

LEMMA FinishedAlone ==
    ASSUME NEW b, NEW a, NEW w, NEW c, NEW j \in JobIds, NEW p, FinishedBy(b, a, w, c, j, p),
           NEW T, NEW U, AloneInv(b, T),
           T[j].phase = "inserted", T[j].work = a, T[j].proposal = p,
           ~Open(U[j]), U[j].proposal = p, \A k \in JobIds \ {j} : U[k] = T[k]
    PROVE  AloneInv(c, U)
<1>1. Open(T[j])
  BY DEF Open
<1>2. \A k \in JobIds : ~Open(U[k])
  BY <1>1 DEF AloneInv
<1>3. /\ SameMoney(b, a) /\ LedgerExact(a) /\ LedgerExact(b)
      /\ \A x \in OrderIds \ OrdersOf(j) : a.fills[x] = b.fills[x]
  BY <1>1 DEF AloneInv, AloneJob
<1>4. LedgerExact(c)
  <2>1. LedgerExact(w) /\ w \in Books /\ c \in Books /\ SameMoney(w, c)
    BY <1>3 DEF FinishedBy, Delivered, Committed
  <2>2. ASSUME NEW x \in OrderIds
        PROVE  /\ c.fills[x] = w.fills[x]
               /\ Len(c.fills[x]) = IF c.status[x] = "FILLED" THEN 1 ELSE 0
    <3>1. CASE x \in OrdersOf(j)
      <4>1. c.fills[x] = w.fills[x] /\ c.status[x] = w.status[x]
        BY <3>1 DEF FinishedBy, Committed
      <4>2. Len(w.fills[x]) = IF w.status[x] = "FILLED" THEN 1 ELSE 0
        BY <2>1 DEF LedgerExact
      <4> QED BY <4>1, <4>2
    <3>2. CASE x \notin OrdersOf(j)
      <4>1. c.fills[x] = b.fills[x] /\ c.status[x] = b.status[x]
        BY <3>2 DEF FinishedBy, Committed
      <4>2. w.fills[x] = a.fills[x] /\ a.fills[x] = b.fills[x]
        BY <1>3, <3>2 DEF FinishedBy, Delivered
      <4>3. Len(b.fills[x]) = IF b.status[x] = "FILLED" THEN 1 ELSE 0
        BY <1>3 DEF LedgerExact
      <4> QED BY <4>1, <4>2, <4>3
    <3> QED BY <3>1, <3>2
  <2>3. c.fills = w.fills
    BY <2>1, <2>2 DEF Books
  <2>4. Booked(c) = Booked(w)
    BY <2>3, SameBooked
  <2> QED BY <2>1, <2>2, <2>4 DEF LedgerExact, SameMoney
<1>5. ASSUME ExecutorFees PROVE c.cash >= 0
  <2>1. a.cash >= 0
    BY <1>3, <1>5 DEF AloneInv, SameMoney
  <2>2. w.cash >= 0 /\ c.cash = w.cash
    <3>1. c.cash = w.cash
      BY FinishedMain
    <3> QED BY <1>5, <2>1, <3>1 DEF FinishedBy, Delivered
  <2> QED BY <2>2
<1>6. ASSUME NEW k \in JobIds \ {j} PROVE MainOrder(k) \in c.fresh => MainOrder(k) \in b.fresh
  <2>1. MainOrder(k) \in OrdersOf(k)
    BY DEF OrdersOf
  <2> QED BY <2>1, FinishedRows
<1>7. ASSUME NEW k \in JobIds, NEW l \in JobIds, k # l,
             MainOrder(k) \in c.fresh \/ U[k].phase = "inserted", MainOrder(l) \in c.fresh
      PROVE  Apart(U[k].proposal, U[l].proposal)
  <2>1. MainOrder(k) \in c.fresh
    BY <1>2, <1>7 DEF Open
  <2>2. CASE k = j
    <3>1. MainOrder(l) \in b.fresh /\ U[l] = T[l]
      BY <1>6, <1>7, <2>2
    <3> QED BY <1>7, <2>2, <3>1 DEF AloneInv
  <2>3. CASE l = j
    <3>1. MainOrder(k) \in b.fresh /\ U[k] = T[k]
      BY <1>6, <1>7, <2>1, <2>3
    <3>2. Apart(T[j].proposal, T[k].proposal)
      BY <1>7, <2>3, <3>1 DEF AloneInv
    <3> QED BY <2>3, <3>1, <3>2 DEF Apart
  <2>4. CASE k # j /\ l # j
    <3>1. /\ MainOrder(k) \in b.fresh /\ MainOrder(l) \in b.fresh
          /\ U[k] = T[k] /\ U[l] = T[l]
      BY <1>6, <1>7, <2>1, <2>4
    <3> QED BY <1>7, <3>1 DEF AloneInv
  <2> QED BY <2>2, <2>3, <2>4
<1> QED BY <1>2, <1>4, <1>5, <1>7 DEF AloneInv, AloneJob

(* The order and its brackets are submitted, and the session commits. *)
LEMMA FinishIsDelivered ==
    ASSUME ExecutorInv, NEW j \in JobIds, Finish(j)
    PROVE  \E w : FinishedBy(tables, tx[j].work, w, tables', j, tx[j].proposal)
<1> DEFINE a == tx[j].work
           p == tx[j].proposal
           q == QuoteAt(p.symbol, p.limit)
           c == tables'
<1>1. JobInv(j, tx[j], tables) /\ TablesInv(tables)
  BY DEF ExecutorInv
<1>2. tx[j].phase = "inserted" /\ Accepts(a, MainOrder(j), q)
  BY DEF Finish, MayFinish, Completes
<1>3. /\ p \in Proposals /\ a \in Books /\ tables \in Books /\ p.limit # 0 /\ Prepared(a, j, p)
      /\ \A o \in OrdersOf(j) : Blank(tables, o)
      /\ a.frozen = 0 /\ (NoBracketRows(tables) => WithinPosition(a))
  BY <1>1, <1>2 DEF JobInv, Open, Transactions, TablesInv
<1>4. PICK sent : \E w \in {SubmitBrackets(sent, j, p)} :
         sent = SubmitOrder(a, MainOrder(j), q) /\ c = Commit(tables, w, j, p.symbol)
  BY DEF Finish
<1>5. PICK w : w = SubmitBrackets(sent, j, p) /\ c = Commit(tables, w, j, p.symbol)
               /\ sent = SubmitOrder(a, MainOrder(j), q)
  BY <1>4
<1>6. q = QuoteAt(p.symbol, p.limit)
  OBVIOUS
<1>7. p.symbol \in Symbols
  BY <1>3, ExecutorAssumption
<1> HIDE DEF a, p, q, c
<1>8. Delivered(a, w, j, p)
  BY <1>2, <1>3, <1>5, <1>6, DeliverAll
<1>9. Committed(tables, w, c, j, p.symbol)
  BY <1>3, <1>5, <1>7, <1>8, CommitType DEF Delivered
<1>10. FinishedBy(tables, a, w, c, j, p)
  BY <1>3, <1>8, <1>9 DEF FinishedBy
<1> QED BY <1>10 DEF a, p, c

LEMMA FinishKeeps ==
    ASSUME ExecutorInv, NEW j \in JobIds, Finish(j)
    PROVE  ExecutorInv'
<1> DEFINE a == tx[j].work
           p == tx[j].proposal
           r == [phase |-> "done", proposal |-> p, work |-> EmptyBook]
           c == tables'
           U == tx'
<1>1. PICK w : FinishedBy(tables, a, w, c, j, p)
  BY FinishIsDelivered
<1>2. /\ tx \in [JobIds -> Transactions] /\ TablesInv(tables) /\ alone \in BOOLEAN
      /\ \A k \in JobIds : JobInv(k, tx[k], tables)
      /\ alone => AloneInv(tables, tx)
  BY DEF ExecutorInv
<1>3. U = [tx EXCEPT ![j] = r] /\ tx[j].phase = "inserted" /\ alone' = alone
  BY <1>2 DEF Finish, MayFinish, Ended
<1>4. TablesInv(c)
  BY <1>1, <1>2, FinishedTables
<1>5. JobInv(j, r, c) /\ ~Open(r)
  <2>1. FilledRow(c, MainOrder(j)) /\ c.intent[MainOrder(j)] = MainIntent(j, p) /\ p \in Proposals
    BY <1>1, FinishedMain
  <2>2. c.status[MainOrder(j)] # NoRow
    BY <2>1 DEF FilledRow, NoRow
  <2>3. r = [phase |-> "done", proposal |-> p, work |-> EmptyBook]
    OBVIOUS
  <2> HIDE DEF r, c
  <2> QED BY <2>1, <2>2, <2>3, IdleJob
<1>6. /\ U \in [JobIds -> Transactions] /\ U[j] = r /\ \A k \in JobIds \ {j} : U[k] = tx[k]
  BY <1>2, <1>3, <1>5 DEF JobInv
<1>7. r.proposal = p
  OBVIOUS
<1> HIDE DEF r, c, U, a
<1>8. \A k \in JobIds : JobInv(k, U[k], c)
  BY <1>1, <1>2, <1>5, <1>6, FinishedJobs
<1>9. ASSUME alone PROVE AloneInv(c, U)
  <2>1. AloneInv(tables, tx) /\ ~Open(U[j]) /\ U[j].proposal = p
    BY <1>2, <1>5, <1>6, <1>7, <1>9
  <2>2. tx[j].work = a /\ tx[j].proposal = p
    BY DEF a
  <2>3. tx[j].phase = "inserted" /\ \A k \in JobIds \ {j} : U[k] = tx[k]
    BY <1>3, <1>6
  <2>4. FinishedBy(tables, a, w, c, j, p) /\ j \in JobIds
    BY <1>1
  <2> HIDE DEF p
  <2> QED BY ONLY <2>1, <2>2, <2>3, <2>4, FinishedAlone
<1> QED BY <1>2, <1>3, <1>4, <1>6, <1>8, <1>9 DEF ExecutorInv, c, U

(* Only the cooldown window shrinks. *)
LEMMA CooldownKeeps ==
    ASSUME ExecutorInv, NEW o \in OrderIds, CooldownEnds(o)
    PROVE  ExecutorInv'
<1> DEFINE b == tables
           c == tables'
           f == OrderIds \ {o}
           U == tx'
           n == alone'
<1>1. TablesInv(b) /\ b \in Books
  BY DEF ExecutorInv, TablesInv
<1>2. U = tx /\ n = alone
  BY DEF CooldownEnds
<1>3. c = [b EXCEPT !.fresh = @ \cap f]
  <2>1. c = [b EXCEPT !.fresh = b.fresh \ {o}]
    BY <1>1 DEF CooldownEnds, Books
  <2>2. b.fresh \ {o} = b.fresh \cap f
    BY <1>1 DEF Books
  <2>3. [b EXCEPT !.fresh = @ \cap f] = [b EXCEPT !.fresh = b.fresh \cap f]
    BY <1>1 DEF Books
  <2> HIDE DEF b, c, f
  <2> QED BY ONLY <2>1, <2>2, <2>3
<1>4. /\ tx \in [JobIds -> Transactions] /\ alone \in BOOLEAN
      /\ \A j \in JobIds : JobInv(j, tx[j], b)
      /\ alone => AloneInv(b, tx)
  BY DEF ExecutorInv
<1> HIDE DEF b, c, f, U, n
<1>5. /\ c \in Books /\ c.fresh = b.fresh \cap f
      /\ c.intent = b.intent /\ c.fills = b.fills /\ SameTrail(b, c)
      /\ SameMoney(b, c) /\ SameShares(b, c)
  BY <1>1, <1>3, AgedType
<1>6. /\ c \in Books /\ c.fresh \subseteq b.fresh /\ c.intent = b.intent /\ c.fills = b.fills
      /\ c.status = b.status /\ c.audit = b.audit
      /\ c.cash = b.cash /\ c.frozen = b.frozen /\ c.qty = b.qty /\ c.avail = b.avail
  BY <1>5 DEF SameTrail, SameMoney, SameShares
<1>7. TablesInv(c)
  BY <1>1, <1>6 DEF TablesInv, Blank, FilledRow, NoBracketRows, WithinPosition
<1>8. ASSUME NEW j \in JobIds PROVE JobInv(j, tx[j], c)
  <2> DEFINE t == tx[j]
  <2>1. JobInv(j, t, b)
    BY <1>4
  <2> HIDE DEF t
  <2>2. /\ \A x : Blank(c, x) <=> Blank(b, x)
        /\ NoBracketRows(c) <=> NoBracketRows(b)
        /\ MainOrder(j) \in c.fresh => MainOrder(j) \in b.fresh
    BY <1>6 DEF Blank, NoBracketRows
  <2>3. JobInv(j, t, c)
    BY <1>6, <2>1, <2>2 DEF JobInv
  <2> QED BY <2>3 DEF t
<1>9. ASSUME alone PROVE AloneInv(c, tx)
  <2>1. AloneInv(b, tx)
    BY <1>4, <1>9
  <2>2. LedgerExact(c)
    <3>1. Booked(c) = Booked(b)
      BY <1>6, SameBooked
    <3>2. LedgerExact(b)
      BY <2>1 DEF AloneInv
    <3> QED BY <1>6, <3>1, <3>2 DEF LedgerExact
  <2>3. ASSUME NEW j \in JobIds PROVE AloneJob(j, tx[j], c)
    <3> DEFINE t == tx[j]
    <3>1. AloneJob(j, t, b)
      BY <2>1 DEF AloneInv
    <3> HIDE DEF t
    <3>2. AloneJob(j, t, c)
      BY <1>6, <3>1 DEF AloneJob, SameMoney
    <3> QED BY <3>2 DEF t
  <2> QED BY <1>6, <2>1, <2>2, <2>3 DEF AloneInv
<1> QED BY <1>2, <1>4, <1>7, <1>8, <1>9 DEF ExecutorInv, c, U, n

(* Every step of the executions preserves the invariant. *)
LEMMA ExecutorNextInv == ExecutorInv /\ [ExecutorNext]_executorVars => ExecutorInv'
<1> SUFFICES ASSUME ExecutorInv, [ExecutorNext]_executorVars PROVE ExecutorInv'
  OBVIOUS
<1>1. ASSUME NEW j \in JobIds, NEW p \in Proposals, Begin(j, p) PROVE ExecutorInv'
  BY <1>1, BeginKeeps
<1>2. ASSUME NEW j \in JobIds, Insert(j) PROVE ExecutorInv'
  BY <1>2, InsertKeeps
<1>3. ASSUME NEW j \in JobIds, Refuse(j) PROVE ExecutorInv'
  BY <1>3, RollbackKeeps DEF Refuse
<1>4. ASSUME NEW j \in JobIds, Finish(j) PROVE ExecutorInv'
  BY <1>4, FinishKeeps
<1>5. ASSUME NEW j \in JobIds, Abort(j) PROVE ExecutorInv'
  BY <1>5, RollbackKeeps DEF Abort
<1>6. ASSUME NEW o \in OrderIds, CooldownEnds(o) PROVE ExecutorInv'
  BY <1>6, CooldownKeeps
<1>7. CASE UNCHANGED executorVars
  <2>1. tables' = tables /\ tx' = tx /\ alone' = alone
    BY <1>7 DEF executorVars
  <2> QED BY <2>1 DEF ExecutorInv
<1> QED BY <1>1, <1>2, <1>3, <1>4, <1>5, <1>6, <1>7 DEF ExecutorNext

LEMMA ExecutorInvHolds == ExecutorSpec => []ExecutorInv
  BY ExecutorInitInv, ExecutorNextInv, PTL DEF ExecutorSpec

(* What the invariant says of the committed tables. *)
LEMMA CommittedRows ==
    ASSUME ExecutorInv
    PROVE  LegalTrails /\ AvailableWithinPosition
<1>1. TablesInv(tables)
  BY DEF ExecutorInv
<1>2. ASSUME NEW o \in OrderIds, NEW n \in DOMAIN tables.audit[o]
      PROVE  OrderLife!LegalEntry(tables.audit[o], n)
  <2>1. tables.audit[o] = FilledTrail
    BY <1>1, <1>2 DEF TablesInv, Blank, FilledRow
  <2>2. n \in 1..5
    BY <1>2, <2>1 DEF FilledTrail
  <2>3. n = 1 \/ <<FilledTrail[n-1], FilledTrail[n]>> \in
            {<<"CREATED", "RISK_APPROVED">>, <<"RISK_APPROVED", "SUBMITTING">>,
             <<"SUBMITTING", "SUBMITTED">>, <<"SUBMITTED", "FILLED">>}
    BY <2>2 DEF FilledTrail
  <2>4. n # 1 => OrderLife!CanTransition(FilledTrail[n-1], FilledTrail[n])
    BY <2>3 DEF OrderLife!CanTransition, OrderLife!AllowedTransitions
  <2>5. FilledTrail[1] = "CREATED"
    BY DEF FilledTrail
  <2> QED BY <2>1, <2>4, <2>5 DEF OrderLife!LegalEntry
<1>3. LegalTrails
  BY <1>2 DEF LegalTrails
<1>4. AvailableWithinPosition
  BY <1>1 DEF AvailableWithinPosition, TablesInv, NoBracketRows, WithinPosition
<1> QED BY <1>3, <1>4

LEMMA UndisturbedBooks ==
    ASSUME ExecutorInv, alone
    PROVE  LedgerAddsUp /\ CooldownRespected /\ (ExecutorFees => NothingOverdrawn)
<1>1. TablesInv(tables) /\ AloneInv(tables, tx)
  BY DEF ExecutorInv
<1>2. LedgerAddsUp
  BY <1>1 DEF AloneInv, LedgerExact, LedgerAddsUp
<1>3. CooldownRespected
  BY <1>1 DEF AloneInv, CooldownRespected, Apart
<1>4. ExecutorFees => NothingOverdrawn
  BY <1>1 DEF AloneInv, TablesInv, NothingOverdrawn
<1> QED BY <1>2, <1>3, <1>4

-----------------------------------------------------------------------------
(* The theorems about the executions. *)

(* trade_executor.py, execute: whatever executions overlap, the rows they   *)
(* commit are legal, and executions that never overlapped leave the books   *)
(* balanced and the cooldown kept, for every account, price and workload    *)
(* whose sales cover their fees.                                            *)
THEOREM ExecutorBooks == ASSUME ExecutorFees PROVE ExecutorSpec => []CommittedBooks
<1>1. ExecutorInv => CommittedBooks
  BY CommittedRows, UndisturbedBooks DEF CommittedBooks
<1> QED BY <1>1, ExecutorInvHolds, PTL

(* Without any condition on the fees, all of it except that the cash stays  *)
(* positive: a sale whose fee exceeds its proceeds is paid all the same.    *)
THEOREM ExecutorRows ==
    ExecutorSpec => [](/\ LegalTrails /\ AvailableWithinPosition
                       /\ alone => LedgerAddsUp /\ CooldownRespected)
<1>1. ExecutorInv => /\ LegalTrails /\ AvailableWithinPosition
                     /\ alone => LedgerAddsUp /\ CooldownRespected
  BY CommittedRows, UndisturbedBooks
<1> QED BY <1>1, ExecutorInvHolds, PTL

(* A commit writes the cash its last ledger row shows, even when another    *)
(* execution committed since the snapshot.                                  *)
THEOREM BalanceIsWritten == ExecutorSpec => BalanceAfterIsCash
<1>1. ExecutorInv /\ [ExecutorNext]_executorVars =>
        [\A j \in JobIds :
           tx[j].phase = "inserted" /\ tx'[j].phase = "done"
           => \E o \in OrdersOf(j) :
                Len(tables'.fills[o]) = 1 /\ tables'.fills[o][1].balance = tables'.cash]_executorVars
  <2> SUFFICES ASSUME ExecutorInv, [ExecutorNext]_executorVars, NEW j \in JobIds,
                      tx[j].phase = "inserted", tx'[j].phase = "done"
               PROVE  \E o \in OrdersOf(j) :
                        Len(tables'.fills[o]) = 1 /\ tables'.fills[o][1].balance = tables'.cash
    OBVIOUS
  <2>1. Finish(j)
    <3>1. tx \in [JobIds -> Transactions]
      BY DEF ExecutorInv
    <3>2. tx' # tx
      OBVIOUS
    <3>3. ASSUME NEW k \in JobIds, NEW r, tx' = [tx EXCEPT ![k] = r], r.phase # "done"
          PROVE  FALSE
      BY <3>1, <3>3
    <3>4. ASSUME NEW k \in JobIds, NEW p \in Proposals, Begin(k, p) PROVE FALSE
      BY <3>3, <3>4 DEF Begin
    <3>5. ASSUME NEW k \in JobIds, Insert(k) PROVE FALSE
      <4>1. tx' = [tx EXCEPT ![k] = [tx[k] EXCEPT !.phase = "inserted", !.work = Checked(k)]]
        BY <3>1, <3>5 DEF Insert
      <4>2. [tx[k] EXCEPT !.phase = "inserted", !.work = Checked(k)].phase = "inserted"
        BY <3>1 DEF Transactions
      <4> QED BY <3>3, <4>1, <4>2
    <3>6. ASSUME NEW k \in JobIds, Ended(k, "failed") PROVE FALSE
      BY <3>1, <3>6 DEF Ended
    <3>7. ASSUME NEW k \in JobIds, Finish(k) PROVE k = j
      BY <3>1, <3>7 DEF Finish, Ended
    <3>8. ASSUME NEW o \in OrderIds, CooldownEnds(o) PROVE FALSE
      BY <3>2, <3>8 DEF CooldownEnds
    <3> QED BY <3>2, <3>4, <3>5, <3>6, <3>7, <3>8 DEF ExecutorNext, Refuse, Abort, executorVars
  <2> DEFINE a == tx[j].work
             p == tx[j].proposal
             c == tables'
  <2>2. PICK w : FinishedBy(tables, a, w, c, j, p)
    BY <2>1, FinishIsDelivered
  <2> HIDE DEF a, p, c
  <2>3. PICK o \in OrdersOf(j) : ShowsBalance(w, o)
    BY <2>2 DEF FinishedBy, Delivered
  <2>4. c.cash = w.cash
    BY <2>2, FinishedMain
  <2>5. c.fills[o] = w.fills[o]
    BY <2>2 DEF FinishedBy, Committed
  <2> QED BY <2>3, <2>4, <2>5 DEF ShowsBalance, c
<1> QED BY <1>1, ExecutorInitInv, ExecutorNextInv, PTL DEF ExecutorSpec, BalanceAfterIsCash
=============================================================================

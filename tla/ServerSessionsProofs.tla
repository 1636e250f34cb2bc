------------------------- MODULE ServerSessionsProofs -------------------------
(***************************************************************************)
(* Proofs about ServerSessions.  A row is written back from a copy that    *)
(* was read some steps before, so what holds of the rows is inductive only *)
(* together with the same fact about every copy: the object of each actor  *)
(* and the refresher's list.                                               *)
(***************************************************************************)
EXTENDS ServerSessions, FiniteSetTheorems, WellFoundedInduction, TLAPS

(***************************************************************************)
(* Sessions that the operations preserve: sound ones, whose price is not   *)
(* negative as long as no contribution has been taken off it, and is the   *)
(* list price where contributions are not configured, and whose credit is  *)
(* what their payments carry.                                              *)
(***************************************************************************)
\* What some transfers carry together, as CreditIsSum has it.
Worth(S) == MapThenSumSet(LAMBDA t : TxAmount[t], S)
Summed(d) == IsFiniteSet(d.payments) /\ d.credit = Worth(d.payments)

ListPriced(d) == ContribPercent = 0 => d.price = DailyPrice[d.gate] * d.days

GoodSession ==
  {d \in Session : /\ Sound(d)
                   /\ d.contributions = <<>> => d.price >= 0
                   /\ ListPriced(d)
                   /\ Summed(d)}

GoodHeld == [sid : Sids, data : GoodSession]

GoodRows == db \in [Sids -> GoodSession \cup {None}]

GoodObjects ==
  /\ obj \in [Actors -> GoodHeld \cup {None}]
  /\ prog \in [Actors -> Seq(Ops)]
  /\ \A a \in Actors : prog[a] # <<>> => obj[a] \in GoodHeld

Good == GoodRows /\ GoodObjects /\ batch \subseteq GoodHeld

\* The types of the other variables.
Rest ==
  /\ deleted \subseteq Sids /\ issued \subseteq Sids
  /\ peers \in [WgGates -> SUBSET Keys]
  /\ clock \in 1..MaxClock
  /\ mined \in [Txs -> 0..MaxTip] /\ tip \in 0..MaxTip
  /\ inbox \subseteq Txs /\ skew \in {FirstSkew, LaterSkew}
  /\ stage \in {"cleanup", "find", "report"}
  /\ requests \in 0..MaxRequests /\ crashes \in 0..MaxCrashes

SessionInv == Good /\ Rest

-------------------------------------------------------------------------------
(***************************************************************************)
(* What some transfers carry together.  The fold of CreditIsSum takes them *)
(* in an order it chooses; that the order does not matter is an induction  *)
(* over finite sets, carried out by a smallest counterexample.             *)
(***************************************************************************)
Any(s) == CHOOSE x \in s : TRUE
IsFold(g, D) ==
  g = [s \in D |-> IF s = {} THEN 0 ELSE TxAmount[Any(s)] + g[s \ {Any(s)}]]

\* The sum is the fold that chooses the transfers one after the other.
LEMMA WorthIsFold ==
  ASSUME NEW S
  PROVE  Worth(S) = (CHOOSE g : IsFold(g, SUBSET S))[S]
BY DEF Worth, MapThenSumSet, MapThenFoldSet, IsFold, Any

\* What is chosen from a set is in it.
LEMMA AnyIn == ASSUME NEW s, s # {} PROVE Any(s) \in s
BY DEF Any

\* Of some subsets of a finite set, one has none of the others in it: what stands for an
\* induction over finite sets here.
LEMMA SmallestSet ==
  ASSUME NEW S, IsFiniteSet(S), NEW B \in SUBSET SUBSET S, B # {}
  PROVE  \E T \in B : \A U \in B : U \subseteq T => U = T
<1>1. IsWellFoundedOn(StrictSubsetOrdering(S), SUBSET S)
  BY FS_StrictSubsetOrderingWellFounded, FS_FiniteSubsetsOfFinite
<1>2. PICK T \in B : \A U \in B : <<U, T>> \notin StrictSubsetOrdering(S)
  BY <1>1, WFMin
<1>3. \A U \in B : U \subseteq T => U = T
  BY <1>2 DEF StrictSubsetOrdering
<1>4. QED
  BY <1>3

\* And the same of natural numbers.
LEMMA LeastNumber ==
  ASSUME NEW B \in SUBSET Nat, B # {}
  PROVE  \E n \in B : \A m \in B : n <= m
<1>1. PICK n \in B : \A m \in B : <<m, n>> \notin OpToRel(<, Nat)
  BY NatLessThanWellFounded, WFMin
<1>2. \A m \in B : <<m, n>> \in Nat \X Nat /\ (m < n => <<m, n>> \in OpToRel(<, Nat))
  BY DEF OpToRel
<1>3. \A m \in B : n \in Nat /\ m \in Nat /\ ~ (m < n)
  BY <1>1, <1>2
<1>4. \A m \in B : n <= m
  BY <1>3
<1>5. QED
  BY <1>4

Small(S, n) == {s \in SUBSET S : Cardinality(s) <= n}

\* What is left of a set is smaller by one.
LEMMA Remainder ==
  ASSUME NEW S, IsFiniteSet(S), NEW s \in SUBSET S, s # {}
  PROVE  /\ Any(s) \in s /\ s \ {Any(s)} \in SUBSET S
         /\ IsFiniteSet(s) /\ Cardinality(s) \in Nat
         /\ Cardinality(s \ {Any(s)}) = Cardinality(s) - 1
<1>1. IsFiniteSet(s)
  BY FS_Subset
<1>2. Any(s) \in s
  BY AnyIn
<1>3. QED
  BY <1>1, <1>2, FS_RemoveElement, FS_CardinalityType

\* The equation of the fold has a solution, for sets of up to n elements first.
LEMMA FoldExistsSmall ==
  ASSUME NEW S, IsFiniteSet(S)
  PROVE  \A n \in Nat : \E g : IsFold(g, Small(S, n))
<1> DEFINE B == {n \in Nat : ~ \E g : IsFold(g, Small(S, n))}
<1>1. SUFFICES ASSUME B # {} PROVE FALSE
  OBVIOUS
<1>2. PICK n \in B : \A m \in B : n <= m
  BY <1>1, LeastNumber
<1>3. CASE n = 0
  <2> DEFINE g == [s \in Small(S, 0) |-> 0]
  <2>1. \A s \in Small(S, 0) : s = {}
    <3>1. TAKE s \in Small(S, 0)
    <3>2. IsFiniteSet(s) /\ Cardinality(s) \in Nat
      BY FS_Subset, FS_CardinalityType DEF Small
    <3>3. Cardinality(s) = 0
      BY <3>2 DEF Small
    <3>4. QED
      BY <3>2, <3>3, FS_EmptySet
  <2>2. IsFold(g, Small(S, 0))
    BY <2>1 DEF IsFold
  <2>3. QED
    BY <2>2, <1>3
<1>4. CASE n # 0
  <2>1. n - 1 \in Nat /\ n \in Nat /\ n - 1 \notin B
    BY <1>2, <1>4
  <2>2. PICK h : IsFold(h, Small(S, n - 1))
    BY <2>1
  <2> DEFINE g == [s \in Small(S, n) |->
                     IF s = {} THEN 0 ELSE TxAmount[Any(s)] + h[s \ {Any(s)}]]
  <2>3. \A s \in Small(S, n) : s # {} => s \ {Any(s)} \in Small(S, n - 1)
    <3>1. TAKE s \in Small(S, n)
    <3>2. HAVE s # {}
    <3>3. s \in SUBSET S /\ Cardinality(s) <= n
      BY DEF Small
    <3>4. QED
      BY <3>2, <3>3, <2>1, Remainder DEF Small
  <2>4. \A s \in Small(S, n - 1) : s \in Small(S, n)
    <3>1. TAKE s \in Small(S, n - 1)
    <3>2. IsFiniteSet(s) /\ Cardinality(s) \in Nat
      BY FS_Subset, FS_CardinalityType DEF Small
    <3>3. QED
      BY <3>2, <2>1 DEF Small
  <2>5. \A s \in Small(S, n - 1) : g[s] = h[s]
    BY <2>2, <2>4 DEF IsFold
  <2>6. IsFold(g, Small(S, n))
    BY <2>3, <2>5 DEF IsFold
  <2>7. QED
    BY <2>6
<1>5. QED
  BY <1>3, <1>4

\* And for all subsets of a finite set.
LEMMA FoldExists ==
  ASSUME NEW S, IsFiniteSet(S)
  PROVE  \E g : IsFold(g, SUBSET S)
<1>1. Cardinality(S) \in Nat
  BY FS_CardinalityType
<1>2. Small(S, Cardinality(S)) = SUBSET S
  BY FS_Subset DEF Small
<1>3. \E g : IsFold(g, Small(S, Cardinality(S)))
  BY <1>1, FoldExistsSmall
<1>4. QED
  BY <1>2, <1>3

\* The sum is what the fold's first choice carries and the sum of the rest: the solutions
\* for a set and for its rest agree on the rest.
LEMMA WorthStep ==
  ASSUME NEW S, IsFiniteSet(S)
  PROVE  Worth(S) = IF S = {} THEN 0 ELSE TxAmount[Any(S)] + Worth(S \ {Any(S)})
<1> DEFINE R == S \ {Any(S)}
<1>1. R \in SUBSET S /\ IsFiniteSet(R)
  BY FS_Subset
<1> HIDE DEF R
<1>2. PICK f : f = (CHOOSE g : IsFold(g, SUBSET S))
  OBVIOUS
<1>3. PICK h : h = (CHOOSE g : IsFold(g, SUBSET R))
  OBVIOUS
<1>4. IsFold(f, SUBSET S)
  BY <1>2, FoldExists
<1>5. IsFold(h, SUBSET R)
  BY <1>1, <1>3, FoldExists
<1>6. \A T \in SUBSET R : f[T] = h[T]
  <2> DEFINE B == {T \in SUBSET R : f[T] # h[T]}
  <2>1. SUFFICES ASSUME B # {} PROVE FALSE
    OBVIOUS
  <2>2. B \in SUBSET SUBSET R
    OBVIOUS
  <2> HIDE DEF B
  <2>3. PICK T \in B : \A V \in B : V \subseteq T => V = T
    BY <1>1, <2>1, <2>2, SmallestSet
  <2> USE DEF B
  <2>4. T \in SUBSET S /\ T \in SUBSET R /\ f[T] # h[T]
    BY <1>1
  <2>5. CASE T = {}
    BY <2>4, <2>5, <1>4, <1>5 DEF IsFold
  <2>6. CASE T # {}
    <3> DEFINE Q == T \ {Any(T)}
    <3>1. Q \in SUBSET R /\ Q \subseteq T /\ Q # T
      BY <2>4, <2>6, AnyIn
    <3>2. f[Q] = h[Q]
      BY <3>1, <2>3
    <3>3. f[T] = TxAmount[Any(T)] + f[Q] /\ h[T] = TxAmount[Any(T)] + h[Q]
      BY <2>4, <2>6, <1>4, <1>5 DEF IsFold
    <3>4. QED
      BY <3>2, <3>3, <2>4
  <2>7. QED
    BY <2>5, <2>6
<1>7. Worth(S) = f[S] /\ Worth(R) = h[R]
  BY <1>2, <1>3, WorthIsFold
<1>8. f[S] = IF S = {} THEN 0 ELSE TxAmount[Any(S)] + f[R]
  BY <1>4 DEF IsFold, R
<1>9. Worth(S) = IF S = {} THEN 0 ELSE TxAmount[Any(S)] + Worth(R)
  BY <1>6, <1>7, <1>8
<1>10. QED
  BY <1>9 DEF R

\* Nothing carries nothing.
LEMMA NoWorth == Worth({}) = 0 /\ IsFiniteSet({})
BY WorthStep, FS_EmptySet

\* Sums are natural numbers.
LEMMA WorthType ==
  ASSUME NEW S \in SUBSET Txs, IsFiniteSet(S)
  PROVE  Worth(S) \in Nat
<1> DEFINE B == {T \in SUBSET S : Worth(T) \notin Nat}
<1> HIDE DEF Worth
<1>1. SUFFICES ASSUME B # {} PROVE FALSE
  OBVIOUS
<1>2. B \in SUBSET SUBSET S
  OBVIOUS
<1> HIDE DEF B
<1>3. PICK T \in B : \A V \in B : V \subseteq T => V = T
  BY <1>1, <1>2, SmallestSet
<1> USE DEF B
<1>4. Worth(T) = IF T = {} THEN 0 ELSE TxAmount[Any(T)] + Worth(T \ {Any(T)})
  BY WorthStep, FS_Subset
<1>5. T # {} => Any(T) \in T /\ TxAmount[Any(T)] \in Nat
  BY AnyIn, TxAssumption
<1>6. T # {} => Worth(T \ {Any(T)}) \in Nat
  BY <1>3, <1>5
<1>7. QED
  BY <1>4, <1>5, <1>6

\* A transfer more adds what it carries, whatever the fold chooses first.
LEMMA WorthAdd ==
  ASSUME NEW S \in SUBSET Txs, IsFiniteSet(S), NEW t \in Txs \ S
  PROVE  Worth(S \cup {t}) = Worth(S) + TxAmount[t]
<1> DEFINE Adds(T) == \A u \in Txs \ T : Worth(T \cup {u}) = Worth(T) + TxAmount[u]
           B == {T \in SUBSET S : ~ Adds(T)}
<1> HIDE DEF Worth
<1>1. SUFFICES ASSUME B # {} PROVE FALSE
  OBVIOUS
<1>2. B \in SUBSET SUBSET S
  OBVIOUS
<1> HIDE DEF B
<1>3. PICK T \in B : \A V \in B : V \subseteq T => V = T
  BY <1>1, <1>2, SmallestSet
<1> USE DEF B
<1>4. T \in SUBSET S /\ ~ Adds(T) /\ IsFiniteSet(T)
  BY FS_Subset
<1>5. PICK u \in Txs \ T : Worth(T \cup {u}) # Worth(T) + TxAmount[u]
  BY <1>4
<1> DEFINE V == T \cup {u}
           x == Any(V)
<1>6. IsFiniteSet(V) /\ V # {}
  BY <1>4, FS_AddElement
<1>7. x \in V
  BY <1>6, AnyIn
<1>8. Worth(V) = TxAmount[x] + Worth(V \ {x})
  BY <1>6, WorthStep
<1> HIDE DEF x
<1>9. Worth(T) \in Nat /\ TxAmount[u] \in Nat /\ TxAmount[x] \in Nat
  BY <1>4, <1>7, WorthType, TxAssumption
<1>10. CASE x = u
  <2>1. V \ {x} = T
    BY <1>10
  <2>2. Worth(V) = TxAmount[u] + Worth(T)
    BY <2>1, <1>8, <1>10
  <2>3. QED
    BY <2>2, <1>5, <1>9
<1>11. CASE x # u
  <2> DEFINE W == T \ {x}
  <2>1. x \in T /\ W \in SUBSET S /\ W \subseteq T /\ W # T /\ V \ {x} = W \cup {u}
    BY <1>4, <1>7, <1>11
  <2>2. Adds(W)
    BY <2>1, <1>3
  <2>3. Worth(W \cup {u}) = Worth(W) + TxAmount[u]
    BY <2>1, <2>2
  <2>4. Worth(W \cup {x}) = Worth(W) + TxAmount[x] /\ W \cup {x} = T
    BY <2>1, <2>2
  <2>5. Worth(W) \in Nat
    BY <2>1, FS_Subset, WorthType
  <2>6. Worth(V) = TxAmount[x] + (Worth(W) + TxAmount[u])
    BY <2>1, <2>3, <1>8
  <2>7. Worth(T) = Worth(W) + TxAmount[x]
    BY <2>4
  <2>8. Worth(V) = Worth(T) + TxAmount[u]
    BY <2>5, <2>6, <2>7, <1>9
  <2>9. QED
    BY <2>8, <1>5
<1>12. QED
  BY <1>10, <1>11

-------------------------------------------------------------------------------
(***************************************************************************)
(* Lemmas about the operations on a session.                               *)
(***************************************************************************)

\* What contributions take off a price that is not negative is a natural number.
LEMMA ShareType == ASSUME NEW p \in Nat PROVE Share(p) \in Nat
<1>1. p * ContribPercent \in Nat
  BY ContribAssumption
<1>2. QED
  BY <1>1 DEF Share

\* Taking something off the price of a session, and nothing else, keeps it good.
LEMMA DiscountGood ==
  ASSUME ContribPercent # 0,
         NEW d \in GoodSession, NEW q \in Seq(Nat), q # <<>>, NEW x \in Int, x <= d.price
  PROVE  [d EXCEPT !.contributions = q, !.price = x] \in GoodSession
<1> DEFINE e == [d EXCEPT !.contributions = q, !.price = x]
<1>1. d \in Session /\ d.price \in Int /\ d.credit \in Nat
  BY DEF GoodSession, Session
<1>2. e \in Session
  BY <1>1 DEF Session
<1>3. /\ e.credit = d.credit /\ e.price = x /\ e.contributions = q
      /\ e.days = d.days /\ e.activated = d.activated /\ e.expires = d.expires
      /\ e.gate = d.gate /\ e.payments = d.payments
  BY <1>1 DEF Session
<1> HIDE DEF e
<1>4. e \in GoodSession
  BY <1>1, <1>2, <1>3 DEF GoodSession, Sound, IsActive, ListPriced, Summed
<1> QED
  BY <1>4 DEF e

\* Every load may discount the price; the first one finds it not negative.
LEMMA AddContributionsGood ==
  ASSUME NEW d \in GoodSession PROVE AddContributions(d) \in GoodSession
<1> DEFINE entry == IF d.contributions = <<>> THEN <<Share(d.price)>> ELSE d.contributions
<1>1. d \in Session /\ d.price \in Int /\ d.contributions \in Seq(Nat)
  BY DEF GoodSession, Session
<1>2. d.contributions = <<>> => Share(d.price) \in Nat
  BY <1>1, ShareType DEF GoodSession
<1>3. entry \in Seq(Nat) /\ entry # <<>> /\ entry[1] \in Nat
  BY <1>1, <1>2
<1> HIDE DEF entry
<1>4. d.price - entry[1] \in Int /\ d.price - entry[1] <= d.price
  BY <1>1, <1>3
<1>5. ContribPercent # 0 =>
        [d EXCEPT !.contributions = entry, !.price = d.price - entry[1]] \in GoodSession
  BY <1>3, <1>4, DiscountGood
<1> QED
  BY <1>5 DEF AddContributions, entry

\* Reading a row gives a good object.
LEMMA LoadedGood == ASSUME NEW d \in GoodSession PROVE Loaded(d) \in GoodSession
  BY AddContributionsGood DEF Loaded

\* A new session is good: it is unpaid, and its price is the list price.
LEMMA GenerateGood ==
  ASSUME NEW g \in Gates, NEW d \in Nat, d = 0 => IsFree(g), NEW now \in Nat
  PROVE  Generate(g, d, now) \in GoodSession
<1> DEFINE fresh == [gate |-> g, days |-> IF d = 0 THEN FreeDays ELSE d,
                     expires |-> now + UnpaidExpiry, paid |-> FALSE,
                     payments |-> {}, credit |-> 0, activated |-> 0,
                     price |-> DailyPrice[g] * d, contributions |-> <<>>, wg |-> NoKey]
<1>1. DailyPrice[g] * d \in Nat
  BY GateAssumption
<1>2. fresh \in Session
  BY <1>1, TimeAssumption DEF Session
<1>3. DailyPrice[g] * d = DailyPrice[g] * fresh.days
  <2>1. CASE d = 0
    BY <2>1, TimeAssumption DEF IsFree
  <2>2. CASE d # 0
    BY <2>2
  <2> QED
    BY <2>1, <2>2
<1>4. fresh \in GoodSession
  <2>1. Summed(fresh)
    BY NoWorth DEF Summed
  <2>2. QED
    BY <1>1, <1>2, <1>3, <2>1 DEF GoodSession, Sound, IsActive, ListPriced
<1> QED
  BY <1>4, AddContributionsGood DEF Generate

\* Activation establishes soundness from the test it is guarded by.
LEMMA ActivatedGood ==
  ASSUME NEW d \in GoodSession, CanActivate(d), NEW now \in Nat
  PROVE  Activated(d, now) \in GoodSession
<1>1. d \in Session /\ d.days \in Nat /\ now + d.days * DayTicks \in Nat
  BY TimeAssumption DEF GoodSession, Session
<1>2. Activated(d, now) \in Session
  BY <1>1 DEF Activated, Session
<1>3. /\ Activated(d, now).credit = d.credit
      /\ Activated(d, now).price = d.price
      /\ Activated(d, now).days = d.days
      /\ Activated(d, now).gate = d.gate
      /\ Activated(d, now).contributions = d.contributions
      /\ Activated(d, now).activated = now
      /\ Activated(d, now).expires = now + d.days * DayTicks
      /\ Activated(d, now).payments = d.payments
  BY <1>1 DEF Activated, Session
<1> QED
  BY <1>2, <1>3 DEF GoodSession, Sound, CanActivate, ListPriced, Summed

\* A payment adds to the credit, so an active session stays covered.
LEMMA CreditedGood ==
  ASSUME NEW d \in GoodSession, NEW t \in Txs \ d.payments
  PROVE  Credited(d, t) \in GoodSession
<1> DEFINE e == Credited(d, t)
<1>1. d \in Session /\ d.credit \in Nat /\ d.price \in Int /\ TxAmount[t] \in Nat
  BY TxAssumption DEF GoodSession, Session
<1>2. d.credit + TxAmount[t] \in Nat /\ (d.credit + TxAmount[t] >= d.price) \in BOOLEAN
  BY <1>1
<1>3. e \in Session
  BY <1>1, <1>2 DEF Credited, Session
<1>4. /\ e.credit = d.credit + TxAmount[t]
      /\ e.price = d.price /\ e.contributions = d.contributions /\ e.gate = d.gate
      /\ e.days = d.days /\ e.activated = d.activated /\ e.expires = d.expires
      /\ e.payments = d.payments \cup {t}
  BY <1>1 DEF Credited, Session
<1>5. Summed(e)
  <2>1. d.payments \in SUBSET Txs /\ IsFiniteSet(d.payments) /\ d.credit = Worth(d.payments)
    BY DEF GoodSession, Session, Summed
  <2>2. Worth(d.payments \cup {t}) = Worth(d.payments) + TxAmount[t]
    BY <2>1, WorthAdd
  <2>3. IsFiniteSet(d.payments \cup {t})
    BY <2>1, FS_AddElement
  <2>4. QED
    BY <1>4, <2>1, <2>2, <2>3 DEF Summed
<1> QED
  BY <1>1, <1>3, <1>4, <1>5 DEF GoodSession, Sound, IsActive, ListPriced

\* A new key changes neither price nor payments.
LEMMA PreparedGood ==
  ASSUME NEW d \in GoodSession, NEW k \in Keys
  PROVE  Prepared(d, k) \in GoodSession
BY DEF Prepared, GoodSession, Session, Sound, IsActive, ListPriced, Summed

-------------------------------------------------------------------------------
(***************************************************************************)
(* Lemmas about an actor's object and its remaining operations.            *)
(***************************************************************************)

\* The lists of operations the handlers put together.
LEMMA OpsType ==
  /\ <<>> \in Seq(Ops)
  /\ <<Activate>> \in Seq(Ops) /\ <<Save>> \in Seq(Ops) /\ <<Limit>> \in Seq(Ops)
  /\ <<Activate, Save>> \in Seq(Ops)
  /\ \A t \in Txs : <<Credit(t)>> \in Seq(Ops)
  /\ \A k \in Keys : <<Prepare(k)>> \in Seq(Ops) /\ <<Prepare(k), Save>> \in Seq(Ops)
<1>1. Activate \in Ops /\ Save \in Ops /\ Limit \in Ops
  BY DEF Ops
<1>2. \A t \in Txs : Credit(t) \in Ops
  BY DEF Ops
<1>3. \A k \in Keys : Prepare(k) \in Ops
  BY DEF Ops
<1> QED
  BY <1>1, <1>2, <1>3

\* Continue with a good object leaves all objects good.
LEMMA ContinueGood ==
  ASSUME GoodObjects, NEW a \in Actors, NEW o \in GoodHeld, NEW p \in Seq(Ops),
         Continue(a, o, p)
  PROVE  GoodObjects'
BY DEF GoodObjects, Continue

\* So does reading a row.
LEMMA ReadGood ==
  ASSUME Good, NEW a \in Actors, NEW s \in Sids, db[s] # None, NEW p \in Seq(Ops),
         Read(a, s, p)
  PROVE  GoodObjects'
<1>1. db[s] \in GoodSession
  BY DEF Good, GoodRows
<1>2. [sid |-> s, data |-> Loaded(db[s])] \in GoodHeld
  BY <1>1, LoadedGood DEF GoodHeld
<1>3. OnLoad(db[s]) \in Seq(Ops)
  BY OpsType DEF OnLoad
<1>4. OnLoad(db[s]) \o p \in Seq(Ops)
  BY <1>3
<1> QED
  BY <1>2, <1>4, ContinueGood DEF Read, Good

\* An actor that is doing something holds a good object, and knows what comes next.
LEMMA DoingGood ==
  ASSUME Good, NEW a \in Actors, NEW what, Doing(a, what)
  PROVE  /\ obj[a] \in GoodHeld
         /\ Head(prog[a]) \in Ops /\ Tail(prog[a]) \in Seq(Ops)
         /\ Head(prog[a]).do = what
<1>1. prog[a] \in Seq(Ops) /\ prog[a] # <<>> /\ obj[a] \in GoodHeld
  BY DEF Good, GoodObjects, Doing, Idle
<1> QED
  BY <1>1 DEF Doing

-------------------------------------------------------------------------------
(***************************************************************************)
(* The steps of an actor on its object.                                    *)
(***************************************************************************)

\* activate() either makes the object a sound active one or leaves it.
LEMMA ActivateGood ==
  ASSUME SessionInv, NEW a \in Actors, DoActivate(a) PROVE SessionInv'
<1> DEFINE s == obj[a].data
<1>1. obj[a] \in GoodHeld /\ s \in GoodSession /\ Tail(prog[a]) \in Seq(Ops)
  BY DoingGood DEF DoActivate, SessionInv, GoodHeld
<1>2. CASE CanActivate(s)
  <2>1. Activated(s, clock) \in GoodSession
    BY <1>1, <1>2, ActivatedGood DEF SessionInv, Rest
  <2>2. [obj[a] EXCEPT !.data = Activated(s, clock)] \in GoodHeld
    BY <1>1, <2>1 DEF GoodHeld
  <2>3. <<Save>> \o Tail(prog[a]) \in Seq(Ops)
    BY <1>1, OpsType
  <2>4. GoodObjects'
    BY <1>2, <2>2, <2>3, ContinueGood DEF DoActivate, SessionInv, Good
  <2>5. s.gate \in WgGates => s.wg \in Keys
    BY <1>1, <1>2 DEF CanActivate, GoodSession, Session
  <2>6. peers' \in [WgGates -> SUBSET Keys]
    BY <1>2, <2>5 DEF DoActivate, SessionInv, Rest
  <2> QED
    BY <2>4, <2>6 DEF DoActivate, SessionInv, Good, GoodRows, Rest, store, chain, wallet,
                      refresh, budget
<1>3. CASE ~CanActivate(s)
  <2>1. GoodObjects'
    BY <1>1, <1>3, ContinueGood DEF DoActivate, SessionInv, Good
  <2> QED
    BY <1>3, <2>1 DEF DoActivate, SessionInv, Good, GoodRows, Rest, store, chain, wallet,
                      refresh, budget
<1> QED
  BY <1>2, <1>3

\* save() writes a good object over the row.
LEMMA SaveGood ==
  ASSUME SessionInv, NEW a \in Actors, DoSave(a) PROVE SessionInv'
<1>1. obj[a] \in GoodHeld /\ Tail(prog[a]) \in Seq(Ops)
  BY DoingGood DEF DoSave, SessionInv
<1>2. GoodObjects'
  BY <1>1, ContinueGood DEF DoSave, SessionInv, Good
<1>3. GoodRows' /\ deleted' \subseteq Sids
  BY <1>1 DEF DoSave, SessionInv, Good, GoodRows, GoodHeld, Rest
<1> QED
  BY <1>2, <1>3 DEF DoSave, SessionInv, Good, Rest, chain, wallet, refresh, budget

\* add_payment() credits a good object.
LEMMA CreditGood ==
  ASSUME SessionInv, NEW a \in Actors, DoCredit(a) PROVE SessionInv'
<1> DEFINE s == obj[a].data
           t == Head(prog[a]).tx
<1>1. obj[a] \in GoodHeld /\ s \in GoodSession /\ Tail(prog[a]) \in Seq(Ops)
  BY DoingGood DEF DoCredit, SessionInv, GoodHeld
<1>2. t \in Txs
  <2>1. Head(prog[a]) \in Ops /\ Head(prog[a]).do = "credit"
    BY DoingGood DEF DoCredit, SessionInv
  <2> QED
    BY <2>1 DEF Ops, Activate, Save, Limit, Credit, Prepare
<1>3. GoodObjects'
  <2>1. CASE t \in s.payments
    BY <1>1, <2>1, ContinueGood DEF DoCredit, SessionInv, Good
  <2>2. CASE t \notin s.payments
    <3>1. [obj[a] EXCEPT !.data = Credited(s, t)] \in GoodHeld
      BY <1>1, <1>2, <2>2, CreditedGood DEF GoodHeld
    <3>2. /\ <<Activate, Save>> \o Tail(prog[a]) \in Seq(Ops)
          /\ <<Save>> \o Tail(prog[a]) \in Seq(Ops)
      BY <1>1, OpsType
    <3> QED
      BY <2>2, <3>1, <3>2, ContinueGood DEF DoCredit, SessionInv, Good
  <2> QED
    BY <2>1, <2>2
<1> QED
  BY <1>3 DEF DoCredit, SessionInv, Good, GoodRows, Rest, store, chain, wallet, refresh, budget

\* prepare_server_session() keeps the object good.
LEMMA PrepareGood ==
  ASSUME SessionInv, NEW a \in Actors, DoPrepare(a) PROVE SessionInv'
<1> DEFINE k == Head(prog[a]).key
<1>1. obj[a] \in GoodHeld /\ obj[a].data \in GoodSession /\ Tail(prog[a]) \in Seq(Ops)
  BY DoingGood DEF DoPrepare, SessionInv, GoodHeld
<1>2. k \in Keys
  <2>1. Head(prog[a]) \in Ops /\ Head(prog[a]).do = "prepare"
    BY DoingGood DEF DoPrepare, SessionInv
  <2> QED
    BY <2>1 DEF Ops, Activate, Save, Limit, Credit, Prepare
<1>3. [obj[a] EXCEPT !.data = Prepared(@, k)] \in GoodHeld
  BY <1>1, <1>2, PreparedGood DEF GoodHeld
<1>4. GoodObjects'
  BY <1>1, <1>3, ContinueGood DEF DoPrepare, SessionInv, Good
<1> QED
  BY <1>4 DEF DoPrepare, SessionInv, Good, GoodRows, Rest, store, chain, wallet, refresh, budget

\* The test of the free days changes no session.
LEMMA LimitGood ==
  ASSUME SessionInv, NEW a \in Actors, DoLimit(a) PROVE SessionInv'
<1>1. obj[a] \in GoodHeld /\ Tail(prog[a]) \in Seq(Ops)
  BY DoingGood DEF DoLimit, SessionInv
<1>2. GoodObjects'
  BY <1>1, ContinueGood, OpsType DEF DoLimit, SessionInv, Good
<1> QED
  BY <1>2 DEF DoLimit, SessionInv, Good, GoodRows, Rest, store, chain, wallet, refresh, budget

-------------------------------------------------------------------------------
(***************************************************************************)
(* The steps of the processes.                                             *)
(***************************************************************************)

\* The wallet only reads rows.
LEMMA WalletGood == ASSUME SessionInv, WalletStep PROVE SessionInv'
<1>1. CASE Scan
  BY <1>1 DEF Scan, SessionInv, Good, GoodRows, GoodObjects, Rest, store, chain, objects,
              refresh, budget
<1>2. CASE ScanFailed
  BY <1>2 DEF ScanFailed, SessionInv, Good, GoodRows, GoodObjects, Rest, store, chain, objects,
              refresh, budget
<1>3. ASSUME NEW t \in Txs, ProcessPayment(t) PROVE SessionInv'
  <2>1. GoodObjects'
    <3>1. CASE Visible(TxSession[t])
      <4>1. TxSession[t] \in Sids /\ db[TxSession[t]] # None /\ Wallet \in Actors
        BY <3>1, SidAssumption DEF Visible, Actors
      <4>2. Read(Wallet, TxSession[t], <<Credit(t)>>)
        BY <1>3, <3>1 DEF ProcessPayment
      <4> QED
        BY <4>1, <4>2, ReadGood, OpsType DEF SessionInv
    <3>2. CASE ~Visible(TxSession[t])
      BY <1>3, <3>2 DEF ProcessPayment, SessionInv, Good, GoodObjects, objects
    <3> QED
      BY <3>1, <3>2
  <2> QED
    BY <1>3, <2>1 DEF ProcessPayment, SessionInv, Good, GoodRows, Rest, store, chain, refresh,
                      budget
<1> QED
  BY <1>1, <1>2, <1>3 DEF WalletStep

\* The clean-up removes rows, the finds read them into the list.
LEMMA RefreshGood == ASSUME SessionInv, RefreshStep PROVE SessionInv'
<1>1. CASE Cleanup
  <2>1. GoodRows' /\ deleted' \subseteq Sids
    BY <1>1 DEF Cleanup, SessionInv, Good, GoodRows, Rest
  <2> QED
    BY <1>1, <2>1 DEF Cleanup, SessionInv, Good, GoodObjects, Rest, chain, objects, wallet,
                      budget
<1>2. CASE FindInactive
  <2>1. \A s \in Sids : Visible(s) => [sid |-> s, data |-> Loaded(db[s])] \in GoodHeld
    BY LoadedGood DEF SessionInv, Good, GoodRows, GoodHeld, Visible
  <2>2. batch' \subseteq GoodHeld
    BY <1>2, <2>1 DEF FindInactive
  <2> QED
    BY <1>2, <2>2 DEF FindInactive, SessionInv, Good, GoodRows, GoodObjects, Rest, store, chain,
                      objects, wallet, budget
<1>3. CASE Report
  <2>1. \A s \in Sids : Visible(s) => [sid |-> s, data |-> db[s]] \in GoodHeld
    BY DEF SessionInv, Good, GoodRows, GoodHeld, Visible
  <2>2. batch' \subseteq GoodHeld
    BY <1>3, <2>1 DEF Report
  <2> QED
    BY <1>3, <2>2 DEF Report, SessionInv, Good, GoodRows, GoodObjects, Rest, store, chain,
                      objects, wallet, budget
<1>4. CASE TakeNext
  <2>1. PICK o \in batch : batch' = batch \ {o} /\ Continue(Refresher, o, <<Activate>>)
    BY <1>4 DEF TakeNext
  <2>2. o \in GoodHeld /\ Refresher \in Actors
    BY DEF SessionInv, Good, Actors
  <2>3. GoodObjects'
    BY <2>1, <2>2, ContinueGood, OpsType DEF SessionInv, Good
  <2> QED
    BY <1>4, <2>1, <2>3 DEF TakeNext, SessionInv, Good, GoodRows, Rest, store, chain, wallet,
                      budget
<1> QED
  BY <1>1, <1>2, <1>3, <1>4 DEF RefreshStep

\* Requests make new sessions or read rows.
LEMMA ServeGood == ASSUME SessionInv, NEW w \in Workers, Serve(w) PROVE SessionInv'
<1> USE DEF SessionInv, Request
<1>0. w \in Actors /\ requests \in Nat /\ MaxRequests \in Nat
  BY BoundAssumption DEF Actors, Rest
<1>1. ASSUME NEW s \in Sids, NEW g \in Gates, NEW d \in Days, NEW k \in Keys \cup {NoKey},
             PostSession(w, s, g, d, k)
      PROVE  SessionInv'
  <2>1. Generate(g, d, clock) \in GoodSession
    BY <1>1, GenerateGood, DaysAssumption DEF PostSession, Rest
  <2>2. [sid |-> s, data |-> Generate(g, d, clock)] \in GoodHeld
    BY <2>1 DEF GoodHeld
  <2> DEFINE p1 == IF IsFree(g) /\ g \notin WgGates THEN <<Activate>> ELSE <<>>
             p2 == IF IsFree(g) THEN <<Limit>> ELSE <<>>
             p3 == IF g \in WgGates /\ k # NoKey THEN <<Prepare(k)>> ELSE <<>>
  <2>3. p1 \in Seq(Ops) /\ p2 \in Seq(Ops) /\ p3 \in Seq(Ops) /\ <<Save>> \in Seq(Ops)
    BY OpsType
  <2>4. Continue(w, [sid |-> s, data |-> Generate(g, d, clock)], p1 \o p2 \o p3 \o <<Save>>)
    BY <1>1 DEF PostSession
  <2> HIDE DEF p1, p2, p3
  <2>5. p1 \o p2 \o p3 \o <<Save>> \in Seq(Ops)
    BY <2>3
  <2>6. GoodObjects'
    BY <1>0, <2>2, <2>4, <2>5, ContinueGood DEF Good
  <2> QED
    BY <1>0, <1>1, <2>6 DEF PostSession, Good, GoodRows, Rest, chain, wallet, refresh
<1>2. ASSUME NEW s \in Sids, GetSession(w, s) PROVE SessionInv'
  <2>1. GoodObjects'
    BY <1>0, <1>2, ReadGood, OpsType DEF GetSession, Visible
  <2> QED
    BY <1>0, <1>2, <2>1 DEF GetSession, Good, GoodRows, Rest, store, chain, wallet, refresh
<1>3. ASSUME NEW s \in Sids, NEW k \in Keys, RekeySession(w, s, k) PROVE SessionInv'
  <2>1. GoodObjects'
    BY <1>0, <1>3, ReadGood, OpsType DEF RekeySession, Visible
  <2> QED
    BY <1>0, <1>3, <2>1 DEF RekeySession, Good, GoodRows, Rest, store, chain, wallet, refresh
<1> QED
  BY <1>1, <1>2, <1>3 DEF Serve

\* Time, blocks and a restart leave rows alone, and a restart drops the copies.
LEMMA WorldGood ==
  ASSUME SessionInv, Tick \/ (\E ts \in SUBSET Payable : Block(ts)) \/ Crash
  PROVE  SessionInv'
<1> USE BoundAssumption DEF SessionInv, Good, GoodRows, GoodObjects, Rest, store, objects, chain,
                            wallet, refresh, budget
<1>1. CASE Tick
  BY <1>1 DEF Tick
<1>2. CASE \E ts \in SUBSET Payable : Block(ts)
  BY <1>2 DEF Block
<1>3. CASE Crash
  BY <1>3, OpsType DEF Crash
<1> QED
  BY <1>1, <1>2, <1>3

\* Nothing happens.
LEMMA StutterGood == ASSUME SessionInv, UNCHANGED vars PROVE SessionInv'
BY DEF SessionInv, Good, GoodRows, GoodObjects, Rest, vars, store, objects, chain, wallet, refresh,
       budget

-------------------------------------------------------------------------------
(***************************************************************************)
(* Theorems.                                                               *)
(***************************************************************************)

\* At first there are no rows and no copies.
LEMMA InitGood == ASSUME Init PROVE SessionInv
<1>1. clock \in 1..MaxClock /\ tip \in 0..MaxTip /\ requests \in 0..MaxRequests
      /\ crashes \in 0..MaxCrashes
  BY BoundAssumption DEF Init
<1>2. mined \in [Txs -> 0..MaxTip] /\ prog \in [Actors -> Seq(Ops)]
  BY BoundAssumption, OpsType DEF Init
<1> QED
  BY <1>1, <1>2 DEF Init, SessionInv, Good, GoodRows, GoodObjects, Rest

\* Every step of the server keeps the rows and their copies good.
LEMMA SessionStep == ASSUME SessionInv, [Next]_vars PROVE SessionInv'
<1>1. ASSUME NEW a \in Actors, Operate(a) PROVE SessionInv'
  BY <1>1, ActivateGood, SaveGood, CreditGood, PrepareGood, LimitGood DEF Operate
<1>2. ASSUME NEW w \in Workers, Serve(w) PROVE SessionInv'
  BY <1>2, ServeGood
<1> QED
  BY <1>1, <1>2, WalletGood, RefreshGood, WorldGood, StutterGood DEF Next, Step

(***************************************************************************)
(* The rows, and every copy an actor may still write back, are good, in    *)
(* every state of the server's processes.                                  *)
(***************************************************************************)
THEOREM Invariance == Spec => []SessionInv
<1>1. Init => SessionInv
  BY InitGood
<1>2. SessionInv /\ [Next]_vars => SessionInv'
  BY SessionStep
<1> QED
  BY <1>1, <1>2, PTL DEF Spec

(***************************************************************************)
(* Every variable keeps its type.                                          *)
(***************************************************************************)
THEOREM TypeCorrect == Spec => []TypeOK
<1>1. GoodSession \subseteq Session /\ GoodHeld \subseteq Held
  BY DEF GoodSession, GoodHeld, Held
<1>2. SessionInv => TypeOK
  BY <1>1 DEF SessionInv, Good, GoodRows, GoodObjects, Rest, TypeOK
<1> QED
  BY <1>2, Invariance, PTL

(***************************************************************************)
(* An active row has been paid, and its term runs from its activation: for *)
(* any number of sessions, requests, transfers, restarts and gates, with   *)
(* or without contributions.                                               *)
(***************************************************************************)
THEOREM PaidFor == Spec => []ActiveIsPaidFor
<1>1. SessionInv => ActiveIsPaidFor
  BY DEF SessionInv, Good, GoodRows, GoodSession, ActiveIsPaidFor
<1> QED
  BY <1>1, Invariance, PTL

(***************************************************************************)
(* A row's credit is what the transfers of its list carry: none of them is *)
(* counted twice, whichever copy is written back over the row.             *)
(***************************************************************************)
THEOREM CreditsAddUp == Spec => []CreditIsSum
<1>1. SessionInv => CreditIsSum
  BY DEF SessionInv, Good, GoodRows, GoodSession, Summed, Worth, CreditIsSum
<1> QED
  BY <1>1, Invariance, PTL

(***************************************************************************)
(* Where no contributions are configured, an active row has been paid its  *)
(* list price.                                                             *)
(***************************************************************************)
THEOREM ListPriceCovered == Spec => []ActiveCoversListPrice
<1>1. SessionInv => ActiveCoversListPrice
  BY DEF SessionInv, Good, GoodRows, GoodSession, Sound, ListPriced, ActiveCoversListPrice
<1> QED
  BY <1>1, Invariance, PTL

-------------------------------------------------------------------------------
(***************************************************************************)
(* Buried sessions.                                                        *)
(***************************************************************************)

\* No actor holds session s.
NotHeld(s) == \A a \in Actors : ~Idle(a) => obj[a].sid # s

\* An actor that goes on with another session leaves s unheld.
LEMMA ContinueNotHeld ==
  ASSUME SessionInv, NEW s, NotHeld(s), NEW a \in Actors, NEW o, o.sid # s, NEW p,
         Continue(a, o, p)
  PROVE  NotHeld(s)'
<1>1. obj \in [Actors -> GoodHeld \cup {None}] /\ prog \in [Actors -> Seq(Ops)]
  BY DEF SessionInv, Good, GoodObjects
<1> QED
  BY <1>1 DEF Continue, NotHeld, Idle

\* Only an actor that holds s, reads it or creates it can bring it back.
LEMMA BuriedStep ==
  ASSUME SessionInv, [Next]_vars, NEW s \in Sids, Buried(s) PROVE Buried(s)'
<1> DEFINE Gone == s \in issued /\ ~Visible(s) /\ \A o \in batch : o.sid # s
<1>0. NotHeld(s) /\ Gone
  BY DEF Buried, NotHeld
<1> SUFFICES NotHeld(s)' /\ Gone'
  BY DEF Buried, NotHeld
<1>1. ASSUME NEW a \in Actors, Operate(a) PROVE NotHeld(s)' /\ Gone'
  <2>1. ~Idle(a) /\ obj[a] \in GoodHeld
    BY <1>1, DoingGood DEF Operate, DoActivate, DoSave, DoCredit, DoPrepare, DoLimit, Doing,
                           SessionInv
  <2>2. obj[a].sid # s
    BY <1>0, <2>1 DEF NotHeld
  <2>3. \A d : [obj[a] EXCEPT !.data = d].sid # s
    BY <2>1, <2>2 DEF GoodHeld
  <2>4. CASE DoActivate(a)
    BY <1>0, <2>2, <2>3, <2>4, ContinueNotHeld DEF DoActivate, Visible, store, refresh
  <2>5. CASE DoSave(a)
    <3>1. NotHeld(s)'
      BY <1>0, <2>2, <2>5, ContinueNotHeld DEF DoSave
    <3> QED
      BY <1>0, <2>2, <2>5, <3>1 DEF DoSave, Visible, refresh, SessionInv, Good, GoodRows
  <2>6. CASE DoCredit(a)
    BY <1>0, <2>2, <2>3, <2>6, ContinueNotHeld DEF DoCredit, Visible, store, refresh
  <2>7. CASE DoPrepare(a)
    BY <1>0, <2>3, <2>7, ContinueNotHeld DEF DoPrepare, Visible, store, refresh
  <2>8. CASE DoLimit(a)
    BY <1>0, <2>2, <2>8, ContinueNotHeld DEF DoLimit, Visible, store, refresh
  <2> QED
    BY <1>1, <2>4, <2>5, <2>6, <2>7, <2>8 DEF Operate
<1>2. CASE WalletStep
  <2>1. CASE Scan \/ ScanFailed
    BY <1>0, <2>1 DEF Scan, ScanFailed, NotHeld, Idle, Visible, store, objects, refresh
  <2>2. ASSUME NEW t \in Txs, ProcessPayment(t) PROVE NotHeld(s)' /\ Gone'
    <3>1. Gone'
      BY <1>0, <2>2 DEF ProcessPayment, Visible, store, refresh
    <3>2. CASE Visible(TxSession[t])
      BY <1>0, <2>2, <3>1, <3>2, ContinueNotHeld DEF ProcessPayment, Read, Actors
    <3>3. CASE ~Visible(TxSession[t])
      BY <1>0, <2>2, <3>1, <3>3 DEF ProcessPayment, NotHeld, Idle, objects
    <3> QED
      BY <3>2, <3>3
  <2> QED
    BY <1>2, <2>1, <2>2 DEF WalletStep
<1>3. CASE RefreshStep
  <2>1. CASE Cleanup
    BY <1>0, <2>1 DEF Cleanup, NotHeld, Idle, Visible, objects
  <2>2. CASE FindInactive \/ Report
    BY <1>0, <2>2 DEF FindInactive, Report, NotHeld, Idle, Visible, store, objects
  <2>3. CASE TakeNext
    BY <1>0, <2>3, ContinueNotHeld DEF TakeNext, Visible, store, Actors
  <2> QED
    BY <1>3, <2>1, <2>2, <2>3 DEF RefreshStep
<1>4. ASSUME NEW w \in Workers, Serve(w) PROVE NotHeld(s)' /\ Gone'
  <2>0. w \in Actors
    BY DEF Actors
  <2>1. ASSUME NEW r \in Sids, NEW g \in Gates, NEW d \in Days, NEW k \in Keys \cup {NoKey},
               PostSession(w, r, g, d, k)
        PROVE  NotHeld(s)' /\ Gone'
    BY <1>0, <2>0, <2>1, ContinueNotHeld DEF PostSession, Visible, refresh
  <2>2. ASSUME NEW r \in Sids, GetSession(w, r) \/ \E k \in Keys : RekeySession(w, r, k)
        PROVE  NotHeld(s)' /\ Gone'
    BY <1>0, <2>0, <2>2, ContinueNotHeld DEF GetSession, RekeySession, Read, Visible, store, refresh
  <2> QED
    BY <1>4, <2>1, <2>2 DEF Serve
<1>5. CASE Tick \/ \E ts \in SUBSET Payable : Block(ts)
  BY <1>0, <1>5 DEF Tick, Block, NotHeld, Idle, Visible, store, objects, refresh
<1>6. CASE Crash
  BY <1>0, <1>6 DEF Crash, NotHeld, Idle, Visible, store
<1>7. CASE UNCHANGED vars
  BY <1>0, <1>7 DEF vars, NotHeld, Idle, Visible, store, objects, refresh
<1> QED
  BY <1>1, <1>2, <1>3, <1>4, <1>5, <1>6, <1>7 DEF Next, Step

(***************************************************************************)
(* What is gone from the table and from every process stays gone, whatever *)
(* payments, requests and restarts follow.                                 *)
(***************************************************************************)
THEOREM NoResurrection == Spec => BuriedStaysBuried
<1>1. SessionInv /\ [Next]_vars => [\A s \in Sids : Buried(s) => Buried(s)']_vars
  BY BuriedStep
<1> QED
  BY <1>1, Invariance, PTL DEF Spec, BuriedStaysBuried

-------------------------------------------------------------------------------
(***************************************************************************)
(* Credited transfers.  A transfer goes from the chain to the wallet's     *)
(* inbox, from there into an operation on the object of its session, then  *)
(* into the object and the row, and with a copy of the row anywhere.       *)
(***************************************************************************)
OpsFor(s) ==
  {Activate, Save, Limit} \cup {Credit(t) : t \in MinedFor(s)} \cup {Prepare(k) : k \in Keys}

Backed(o) == o.data.payments \subseteq MinedFor(o.sid)

BackedObjects == \A a \in Actors : ~Idle(a) => Backed(obj[a]) /\ prog[a] \in Seq(OpsFor(obj[a].sid))

MinedInv ==
  /\ SessionInv
  /\ CreditedAreMined
  /\ BackedObjects
  /\ \A o \in batch : Backed(o)
  /\ inbox \subseteq {t \in Txs : mined[t] > 0}

\* No operation on an object takes a payment out of it or puts one in, but a credit.
LEMMA SamePayments ==
  ASSUME NEW d \in Session
  PROVE  /\ Loaded(d).payments = d.payments
         /\ \A now : Activated(d, now).payments = d.payments
         /\ \A k : Prepared(d, k).payments = d.payments
         /\ \A t : Credited(d, t).payments = d.payments \cup {t}
BY DEF Loaded, AddContributions, Activated, Prepared, Credited, Session

\* The lists of operations for session s.
LEMMA OpsForType ==
  ASSUME NEW s
  PROVE  /\ <<>> \in Seq(OpsFor(s))
         /\ <<Activate>> \in Seq(OpsFor(s)) /\ <<Save>> \in Seq(OpsFor(s))
         /\ <<Limit>> \in Seq(OpsFor(s))
         /\ \A t \in MinedFor(s) : <<Credit(t)>> \in Seq(OpsFor(s))
         /\ \A k \in Keys : <<Prepare(k)>> \in Seq(OpsFor(s))
<1>1. Activate \in OpsFor(s) /\ Save \in OpsFor(s) /\ Limit \in OpsFor(s)
  BY DEF OpsFor
<1>2. \A t \in MinedFor(s) : Credit(t) \in OpsFor(s)
  BY DEF OpsFor
<1>3. \A k \in Keys : Prepare(k) \in OpsFor(s)
  BY DEF OpsFor
<1> QED
  BY <1>1, <1>2, <1>3

\* An actor that goes on with a backed object and operations for its session.
LEMMA ContinueBacked ==
  ASSUME MinedInv, NEW a \in Actors, NEW o, Backed(o), NEW p \in Seq(OpsFor(o.sid)),
         Continue(a, o, p), UNCHANGED mined
  PROVE  BackedObjects'
<1>1. obj \in [Actors -> GoodHeld \cup {None}] /\ prog \in [Actors -> Seq(Ops)]
  BY DEF MinedInv, SessionInv, Good, GoodObjects
<1>2. \A s : MinedFor(s)' = MinedFor(s) /\ OpsFor(s)' = OpsFor(s)
  BY DEF MinedFor, OpsFor
<1>3. \A b \in Actors : b # a => prog'[b] = prog[b] /\ obj'[b] = obj[b]
  BY <1>1 DEF Continue
<1>4. prog'[a] = p /\ (p # <<>> => obj'[a] = o)
  BY <1>1 DEF Continue
<1>5. ASSUME NEW b \in Actors, ~Idle(b)'
      PROVE  Backed(obj[b])' /\ (prog[b] \in Seq(OpsFor(obj[b].sid)))'
  <2>1. CASE b = a
    BY <1>2, <1>4, <1>5, <2>1 DEF Backed, Idle
  <2>2. CASE b # a
    BY <1>2, <1>3, <1>5, <2>2 DEF Backed, Idle, MinedInv, BackedObjects
  <2> QED
    BY <2>1, <2>2
<1> QED
  BY <1>5 DEF BackedObjects

\* What a list that is not empty consists of.
LEMMA HeadTail ==
  ASSUME NEW S, NEW p \in Seq(S), p # <<>> PROVE Head(p) \in S /\ Tail(p) \in Seq(S)
OBVIOUS

\* The same for the steps of an actor: only a credit adds a payment, and it is backed.
LEMMA OperateBacked ==
  ASSUME MinedInv, NEW a \in Actors, Operate(a)
  PROVE  BackedObjects' /\ CreditedAreMined' /\ UNCHANGED <<mined, batch, inbox>>
<1> DEFINE o == obj[a]
           rest == Tail(prog[a])
<1>0. UNCHANGED <<mined, batch, inbox>>
  BY DEF Operate, DoActivate, DoSave, DoCredit, DoPrepare, DoLimit, chain, refresh, wallet
<1>1. o \in GoodHeld /\ ~Idle(a) /\ prog[a] # <<>>
  BY DoingGood DEF Operate, DoActivate, DoSave, DoCredit, DoPrepare, DoLimit, Doing, Idle,
                   MinedInv, SessionInv
<1>2. Backed(o) /\ prog[a] \in Seq(OpsFor(o.sid))
  BY <1>1 DEF MinedInv, BackedObjects
<1>3. Head(prog[a]) \in OpsFor(o.sid) /\ rest \in Seq(OpsFor(o.sid))
  BY <1>1, <1>2, HeadTail
<1>4. o.data \in Session
  BY <1>1 DEF GoodHeld, GoodSession
<1>5. \A d : /\ [o EXCEPT !.data = d].sid = o.sid
             /\ [o EXCEPT !.data = d].data = d
  BY <1>1 DEF GoodHeld
<1>6. \A p \in Seq(OpsFor(o.sid)) :
        p \o rest \in Seq(OpsFor(o.sid))
  BY <1>3
<1>7. \A r : MinedFor(r)' = MinedFor(r)
  BY <1>0 DEF MinedFor
<1>8. ASSUME NEW d, d.payments \subseteq MinedFor(o.sid), NEW p \in Seq(OpsFor(o.sid)),
             Continue(a, [o EXCEPT !.data = d], p)
      PROVE  BackedObjects'
  <2>1. Backed([o EXCEPT !.data = d]) /\ p \in Seq(OpsFor([o EXCEPT !.data = d].sid))
    BY <1>5, <1>8 DEF Backed
  <2> QED
    BY <1>0, <1>8, <2>1, ContinueBacked
<1>9. CASE DoActivate(a)
  <2>1. \A now : Activated(o.data, now).payments \subseteq MinedFor(o.sid)
    BY <1>2, <1>4, SamePayments DEF Backed
  <2>2. <<Save>> \o rest \in Seq(OpsFor(o.sid))
    BY <1>6, OpsForType
  <2>3. CASE CanActivate(o.data)
    <3>1. Continue(a, [o EXCEPT !.data = Activated(o.data, clock)], <<Save>> \o rest)
      BY <1>9, <2>3 DEF DoActivate
    <3> HIDE DEF o, rest
    <3>2. BackedObjects'
      BY <1>8, <2>1, <2>2, <3>1
    <3> QED
      BY <1>0, <1>7, <1>9, <3>2 DEF DoActivate, store, MinedInv, CreditedAreMined
  <2>4. CASE ~CanActivate(o.data)
    <3>1. BackedObjects'
      BY <1>0, <1>2, <1>3, <1>9, <2>4, ContinueBacked DEF DoActivate
    <3> QED
      BY <1>0, <1>7, <1>9, <3>1 DEF DoActivate, store, MinedInv, CreditedAreMined
  <2> QED
    BY <2>3, <2>4
<1>10. CASE DoSave(a)
  <2>1. BackedObjects'
    BY <1>0, <1>2, <1>3, <1>10, ContinueBacked DEF DoSave
  <2>2. db \in [Sids -> GoodSession \cup {None}]
    BY DEF MinedInv, SessionInv, Good, GoodRows
  <2> QED
    BY <1>0, <1>2, <1>7, <1>10, <2>1, <2>2 DEF DoSave, Backed, MinedInv, CreditedAreMined
<1>11. CASE DoCredit(a)
  <2> DEFINE t == Head(prog[a]).tx
  <2>1. t \in MinedFor(o.sid)
    BY <1>3, <1>11 DEF DoCredit, Doing, OpsFor, Activate, Save, Limit, Credit, Prepare
  <2>2. Credited(o.data, t).payments \subseteq MinedFor(o.sid)
    BY <1>2, <1>4, <2>1, SamePayments DEF Backed
  <2>3. <<Save>> \o rest \in Seq(OpsFor(o.sid)) /\ <<Activate, Save>> \o rest \in Seq(OpsFor(o.sid))
    <3>1. Activate \in OpsFor(o.sid) /\ Save \in OpsFor(o.sid)
      BY DEF OpsFor
    <3> HIDE DEF rest
    <3> QED
      BY <1>3, <3>1
  <2>4. CASE t \in o.data.payments
    BY <1>0, <1>2, <1>3, <1>7, <1>11, <2>4, ContinueBacked
       DEF DoCredit, store, MinedInv, CreditedAreMined
  <2>5. CASE t \notin o.data.payments
    <3>1. \E p \in Seq(OpsFor(o.sid)) : Continue(a, [o EXCEPT !.data = Credited(o.data, t)], p)
      BY <1>11, <2>3, <2>5 DEF DoCredit
    <3>2. BackedObjects'
      BY <1>8, <2>2, <3>1
    <3> QED
      BY <1>0, <1>7, <1>11, <3>2 DEF DoCredit, store, MinedInv, CreditedAreMined
  <2> QED
    BY <2>4, <2>5
<1>12. CASE DoPrepare(a)
  <2>1. \A k : Prepared(o.data, k).payments \subseteq MinedFor(o.sid)
    BY <1>2, <1>4, SamePayments DEF Backed
  <2>2. \E k : Continue(a, [o EXCEPT !.data = Prepared(o.data, k)], rest)
    BY <1>12 DEF DoPrepare
  <2>3. BackedObjects'
    BY <1>3, <1>8, <2>1, <2>2
  <2> QED
    BY <1>0, <1>7, <1>12, <2>3 DEF DoPrepare, store, MinedInv, CreditedAreMined
<1>13. CASE DoLimit(a)
  <2>1. BackedObjects'
    BY <1>0, <1>2, <1>3, <1>13, ContinueBacked, OpsForType DEF DoLimit
  <2> QED
    BY <1>0, <1>7, <1>13, <2>1 DEF DoLimit, store, MinedInv, CreditedAreMined
<1> QED
  BY <1>0, <1>9, <1>10, <1>11, <1>12, <1>13 DEF Operate

\* A step that leaves the objects alone leaves them backed while transfers stay mined.
LEMMA MinedStays ==
  ASSUME MinedInv, \A s : MinedFor(s) \subseteq MinedFor(s)', UNCHANGED objects
  PROVE  BackedObjects'
<1>1. \A s : OpsFor(s) \subseteq OpsFor(s)'
  BY DEF OpsFor
<1>2. \A s : Seq(OpsFor(s)) \subseteq Seq(OpsFor(s)')
  BY <1>1
<1>3. ASSUME NEW a \in Actors, ~Idle(a)'
      PROVE  Backed(obj[a])' /\ (prog[a] \in Seq(OpsFor(obj[a].sid)))'
  <2>1. ~Idle(a) /\ obj' = obj /\ prog' = prog
    BY <1>3 DEF Idle, objects
  <2>2. Backed(obj[a]) /\ prog[a] \in Seq(OpsFor(obj[a].sid))
    BY <2>1 DEF MinedInv, BackedObjects
  <2> QED
    BY <1>2, <2>1, <2>2 DEF Backed
<1> QED
  BY <1>3 DEF BackedObjects

\* Reading a row gives a backed object.
LEMMA ReadBacked ==
  ASSUME MinedInv, NEW a \in Actors, NEW s \in Sids, db[s] # None, NEW p \in Seq(OpsFor(s)),
         Read(a, s, p), UNCHANGED mined
  PROVE  BackedObjects'
<1> DEFINE o == [sid |-> s, data |-> Loaded(db[s])]
<1>1. db[s] \in Session
  BY DEF MinedInv, SessionInv, Good, GoodRows, GoodSession
<1>2. Backed(o)
  BY <1>1, SamePayments DEF MinedInv, CreditedAreMined, Backed
<1>3. OnLoad(db[s]) \in Seq(OpsFor(s))
  BY OpsForType DEF OnLoad
<1>4. OnLoad(db[s]) \o p \in Seq(OpsFor(s)) /\ o.sid = s
  BY <1>3
<1>5. Continue(a, o, OnLoad(db[s]) \o p)
  BY DEF Read
<1> QED
  BY <1>2, <1>4, <1>5, ContinueBacked

\* Every step of the server keeps credited transfers backed.
LEMMA MinedStep == ASSUME MinedInv, [Next]_vars PROVE MinedInv'
<1> DEFINE Batch == \A o \in batch : Backed(o)
           Inbox == inbox \subseteq {t \in Txs : mined[t] > 0}
<1>0. CreditedAreMined /\ BackedObjects /\ Batch /\ Inbox
      /\ db \in [Sids -> GoodSession \cup {None}]
  BY DEF MinedInv, SessionInv, Good, GoodRows
<1>1. SessionInv'
  BY SessionStep DEF MinedInv
<1>2. UNCHANGED mined => /\ \A s : MinedFor(s)' = MinedFor(s)
                         /\ \A o : Backed(o) => Backed(o)'
  BY DEF MinedFor, Backed
<1> SUFFICES CreditedAreMined' /\ BackedObjects' /\ Batch' /\ Inbox'
  BY <1>1 DEF MinedInv
<1>3. UNCHANGED <<mined, objects>> => BackedObjects'
  BY <1>2, MinedStays
<1>4. UNCHANGED <<mined, db>> => CreditedAreMined'
  BY <1>0, <1>2 DEF CreditedAreMined
<1>5. UNCHANGED <<mined, batch>> => Batch'
  BY <1>0 DEF Backed, MinedFor
<1>6. UNCHANGED <<mined, inbox>> => Inbox'
  BY <1>0
<1>7. ASSUME NEW a \in Actors, Operate(a)
      PROVE  CreditedAreMined' /\ BackedObjects' /\ Batch' /\ Inbox'
  BY <1>5, <1>6, <1>7, OperateBacked
<1>8. CASE WalletStep
  <2>1. CASE Scan \/ ScanFailed
    BY <1>3, <1>4, <1>5, <1>6, <2>1 DEF Scan, ScanFailed, store, chain, objects, refresh
  <2>2. ASSUME NEW t \in Txs, ProcessPayment(t)
        PROVE  CreditedAreMined' /\ BackedObjects' /\ Batch' /\ Inbox'
    <3>1. UNCHANGED <<mined, db, batch>> /\ inbox' \subseteq inbox /\ t \in MinedFor(TxSession[t])
      BY <1>0, <2>2 DEF ProcessPayment, store, chain, refresh, MinedFor
    <3>2. CASE Visible(TxSession[t])
      <4>1. Wallet \in Actors /\ TxSession[t] \in Sids /\ db[TxSession[t]] # None
        BY <3>2, SidAssumption DEF Actors, Visible
      <4>2. Read(Wallet, TxSession[t], <<Credit(t)>>)
        BY <2>2, <3>2 DEF ProcessPayment
      <4>3. BackedObjects'
        BY <3>1, <4>1, <4>2, ReadBacked, OpsForType
      <4> QED
        BY <1>0, <1>4, <1>5, <3>1, <4>3
    <3>3. CASE ~Visible(TxSession[t])
      BY <1>0, <1>3, <1>4, <1>5, <2>2, <3>1, <3>3 DEF ProcessPayment
    <3> QED
      BY <3>2, <3>3
  <2> QED
    BY <1>8, <2>1, <2>2 DEF WalletStep
<1>9. CASE RefreshStep
  <2>1. CASE Cleanup
    <3>1. \A s \in Sids : db'[s] # None => db'[s] = db[s]
      BY <2>1 DEF Cleanup
    <3>2. UNCHANGED <<mined, objects, batch, inbox>>
      BY <2>1 DEF Cleanup, chain, wallet
    <3>3. CreditedAreMined'
      BY <1>0, <1>2, <3>1, <3>2 DEF CreditedAreMined
    <3> QED
      BY <1>3, <1>5, <1>6, <3>2, <3>3
  <2>2. CASE FindInactive \/ Report
    <3>1. \A s \in Sids : Visible(s) => /\ Backed([sid |-> s, data |-> Loaded(db[s])])
                                       /\ Backed([sid |-> s, data |-> db[s]])
      BY <1>0, SamePayments DEF CreditedAreMined, Visible, Backed, GoodSession
    <3>2. UNCHANGED <<mined, db, objects, inbox>>
      BY <2>2 DEF FindInactive, Report, store, chain, wallet
    <3>3. Batch'
      BY <1>2, <2>2, <3>1, <3>2 DEF FindInactive, Report
    <3> QED
      BY <1>3, <1>4, <1>6, <3>2, <3>3
  <2>3. CASE TakeNext
    <3>1. PICK o \in batch : batch' = batch \ {o} /\ Continue(Refresher, o, <<Activate>>)
      BY <2>3 DEF TakeNext
    <3>2. UNCHANGED <<mined, db, inbox>> /\ Refresher \in Actors
      BY <2>3 DEF TakeNext, store, chain, wallet, Actors
    <3>3. BackedObjects'
      BY <1>0, <3>1, <3>2, ContinueBacked, OpsForType
    <3>4. Batch'
      BY <1>0, <1>2, <3>1, <3>2
    <3> QED
      BY <1>4, <1>6, <3>2, <3>3, <3>4
  <2> QED
    BY <1>9, <2>1, <2>2, <2>3 DEF RefreshStep
<1>10. ASSUME NEW w \in Workers, Serve(w)
       PROVE  CreditedAreMined' /\ BackedObjects' /\ Batch' /\ Inbox'
  <2>0. w \in Actors
    BY DEF Actors
  <2>1. UNCHANGED <<mined, db, batch, inbox>>
    BY <1>10 DEF Serve, PostSession, GetSession, RekeySession, store, chain, wallet, refresh
  <2>2. ASSUME NEW s \in Sids, NEW g \in Gates, NEW d \in Days, NEW k \in Keys \cup {NoKey},
               PostSession(w, s, g, d, k)
        PROVE  BackedObjects'
    <3> DEFINE o == [sid |-> s, data |-> Generate(g, d, clock)]
               p1 == IF IsFree(g) /\ g \notin WgGates THEN <<Activate>> ELSE <<>>
               p2 == IF IsFree(g) THEN <<Limit>> ELSE <<>>
               p3 == IF g \in WgGates /\ k # NoKey THEN <<Prepare(k)>> ELSE <<>>
    <3>1. Generate(g, d, clock).payments = {}
      BY DEF Generate, AddContributions
    <3>2. Backed(o) /\ o.sid = s
      BY <3>1 DEF Backed
    <3>3. p1 \in Seq(OpsFor(s)) /\ p2 \in Seq(OpsFor(s)) /\ p3 \in Seq(OpsFor(s))
          /\ <<Save>> \in Seq(OpsFor(s))
      BY OpsForType
    <3>4. Continue(w, o, p1 \o p2 \o p3 \o <<Save>>)
      BY <2>2 DEF PostSession
    <3> HIDE DEF o, p1, p2, p3
    <3>5. p1 \o p2 \o p3 \o <<Save>> \in Seq(OpsFor(s))
      BY <3>3
    <3> QED
      BY <2>0, <2>1, <3>2, <3>4, <3>5, ContinueBacked
  <2>3. ASSUME NEW s \in Sids, GetSession(w, s) PROVE BackedObjects'
    BY <2>0, <2>1, <2>3, ReadBacked, OpsForType DEF GetSession, Visible
  <2>4. ASSUME NEW s \in Sids, NEW k \in Keys, RekeySession(w, s, k) PROVE BackedObjects'
    <3>1. <<Prepare(k), Save>> \in Seq(OpsFor(s))
      BY DEF OpsFor
    <3> QED
      BY <2>0, <2>1, <2>4, <3>1, ReadBacked DEF RekeySession, Visible
  <2>5. BackedObjects'
    BY <1>10, <2>2, <2>3, <2>4 DEF Serve
  <2> QED
    BY <1>4, <1>5, <1>6, <2>1, <2>5
<1>11. CASE Tick
  BY <1>3, <1>4, <1>5, <1>6, <1>11 DEF Tick, store, chain, objects, wallet, refresh
<1>12. ASSUME NEW ts \in SUBSET Payable, Block(ts)
       PROVE  CreditedAreMined' /\ BackedObjects' /\ Batch' /\ Inbox'
  <2>1. \A t \in Txs : mined[t] > 0 => mined'[t] > 0
    BY <1>12 DEF Block, MinedInv, SessionInv, Rest
  <2>2. \A s : MinedFor(s) \subseteq MinedFor(s)'
    BY <2>1 DEF MinedFor
  <2>3. UNCHANGED <<db, objects, batch, inbox>>
    BY <1>12 DEF Block, store, wallet, refresh
  <2>4. BackedObjects'
    BY <2>2, <2>3, MinedStays
  <2>5. CreditedAreMined' /\ Batch'
    BY <1>0, <2>2, <2>3 DEF CreditedAreMined, Backed
  <2>6. Inbox'
    BY <1>0, <2>1, <2>3
  <2> QED
    BY <2>4, <2>5, <2>6
<1>13. CASE Crash
  <2>1. BackedObjects'
    BY <1>13 DEF Crash, BackedObjects, Idle
  <2> QED
    BY <1>4, <1>13, <2>1 DEF Crash, store, chain
<1>14. CASE UNCHANGED vars
  BY <1>3, <1>4, <1>5, <1>6, <1>14 DEF vars, store, chain, objects, wallet, refresh
<1> QED
  BY <1>7, <1>8, <1>9, <1>10, <1>11, <1>12, <1>13, <1>14 DEF Next, Step

(***************************************************************************)
(* Whatever copies of a row the processes write over one another, a row is *)
(* credited with transfers to its own payment id that are on the chain.    *)
(***************************************************************************)
THEOREM PaymentsMined == Spec => []CreditedAreMined
<1>1. Init => MinedInv
  <2> SUFFICES ASSUME Init PROVE MinedInv
    OBVIOUS
  <2>1. SessionInv
    BY InitGood
  <2> QED
    BY <2>1 DEF Init, MinedInv, CreditedAreMined, BackedObjects, Idle
<1>2. MinedInv /\ [Next]_vars => MinedInv'
  BY MinedStep
<1>3. MinedInv => CreditedAreMined
  BY DEF MinedInv
<1> QED
  BY <1>1, <1>2, <1>3, PTL DEF Spec
==============================================================================

---------------------------- MODULE PaymentProofs -----------------------------
(***************************************************************************)
(* Theorems about what is paid: the transfers the wallet finds, the        *)
(* payments it makes for the daemon, the links for card payments, and the  *)
(* messages about payments that the server's main loop passes on.          *)
(***************************************************************************)
EXTENDS ChainScan, Payout, PaymentLinks, ServerMain, FiniteSetTheorems, SequenceTheorems, TLAPS

-------------------------------------------------------------------------------
(***************************************************************************)
(* Proofs about ChainScan: how often a transfer can be credited, whatever  *)
(* the chain does and however often the wallet process looks.              *)
(*                                                                         *)
(* What has been listed with another height than the one a transfer has    *)
(* now was listed before a reorganisation moved it, so that there are at   *)
(* most as many of those pairs as there were moves; one pair more can      *)
(* have the height of now.                                                 *)
(***************************************************************************)

\* Pairs of t that were listed, and have another height than t has now.
Elsewhere(t) == {p \in payments \cup batch : p[1] = t /\ p[2] # at[t]}

MovesCounted == \A t \in Txs : moves[t] <= reorgs

ElsewhereBounded == \A t \in Txs : Cardinality(Elsewhere(t)) <= moves[t]

PaidOfPayments == paid => Cardinality(payments) >= Price

ScanInv == TypeOK /\ MovesCounted /\ ElsewhereBounded /\ PaidOfPayments

USE ChainScanAssumption DEF chain, row, vars

-------------------------------------------------------------------------------
\* The pairs of a transaction and a height are finite in number, and so are all sets of them.
LEMMA TransfersFinite ==
  ASSUME NEW S \in SUBSET Transfer
  PROVE  IsFiniteSet(S) /\ Cardinality(S) \in Nat
<1>1. IsFiniteSet(1..MaxHeight)
  BY FS_Interval
<1>2. IsFiniteSet(Transfer)
  BY <1>1, FS_Product DEF Transfer
<1> QED BY <1>2, FS_Subset, FS_CardinalityType

\* A set of pairs has at most as many elements as one it is part of.
LEMMA SubsetCount ==
  ASSUME NEW S \in SUBSET Transfer, NEW T \in SUBSET S
  PROVE  Cardinality(T) <= Cardinality(S) /\ Cardinality(T) \in Nat /\ Cardinality(S) \in Nat
BY TransfersFinite, FS_Subset

\* One element more or less changes the number by one at most.
LEMMA OneElement ==
  ASSUME NEW S \in SUBSET Transfer, NEW x
  PROVE  /\ Cardinality(S \cup {x}) <= Cardinality(S) + 1
         /\ Cardinality(S) <= Cardinality(S \ {x}) + 1
<1>1. IsFiniteSet(S) /\ Cardinality(S) \in Nat
  BY TransfersFinite
<1>2. Cardinality(S \cup {x}) \in {Cardinality(S), Cardinality(S) + 1}
  BY <1>1, FS_AddElement
<1>3. Cardinality(S \ {x}) \in {Cardinality(S), Cardinality(S) - 1}
  BY <1>1, FS_RemoveElement
<1> QED BY <1>1, <1>2, <1>3

\* A step that does not move transactions and lists nothing new keeps the bound.
LEMMA NothingListed ==
  ASSUME ScanInv, UNCHANGED <<at, moves>>, payments' \cup batch' \subseteq payments \cup batch
  PROVE  ElsewhereBounded'
<1> SUFFICES ASSUME NEW t \in Txs PROVE Cardinality(Elsewhere(t)') <= moves'[t]
  BY DEF ElsewhereBounded
<1>1. Elsewhere(t)' \subseteq Elsewhere(t) /\ Elsewhere(t) \subseteq Transfer
  BY DEF Elsewhere, ScanInv, TypeOK
<1>2. Cardinality(Elsewhere(t)) <= moves[t] /\ moves[t] \in Nat
  BY DEF ScanInv, ElsewhereBounded, TypeOK
<1> QED BY <1>1, <1>2, SubsetCount

-------------------------------------------------------------------------------
\* Nothing has been listed yet.
LEMMA InitScan == Init => ScanInv
<1> SUFFICES ASSUME Init PROVE ScanInv
  OBVIOUS
<1>1. TypeOK
  <2>1. paid \in BOOLEAN
    BY DEF Init
  <2> QED BY <2>1 DEF Init, TypeOK
<1>2. MovesCounted /\ PaidOfPayments
  BY DEF Init, MovesCounted, PaidOfPayments
<1>3. \A t \in Txs : Elsewhere(t) = {}
  BY DEF Init, Elsewhere
<1> QED BY <1>1, <1>2, <1>3, FS_EmptySet DEF ScanInv, ElsewhereBounded, Init

\* A transaction that is not in a block goes to the list.
LEMMA SendScan ==
  ASSUME ScanInv, NEW t \in Txs, Send(t)
  PROVE  ScanInv'
<1>1. TypeOK' /\ MovesCounted' /\ PaidOfPayments'
  BY DEF ScanInv, Send, TypeOK, MovesCounted, PaidOfPayments
<1>2. ElsewhereBounded'
  BY NothingListed DEF Send
<1> QED BY <1>1, <1>2 DEF ScanInv

\* A block takes transactions of the pool, of which there were only pairs from elsewhere.
LEMMA MineScan ==
  ASSUME ScanInv, NEW ts \in SUBSET Pool, Mine(ts)
  PROVE  ScanInv'
<1>1. TypeOK' /\ MovesCounted' /\ PaidOfPayments'
  BY DEF ScanInv, Mine, Pool, TypeOK, MovesCounted, PaidOfPayments
<1>2. ASSUME NEW t \in Txs PROVE Cardinality(Elsewhere(t)') <= moves'[t]
  <2>1. Elsewhere(t)' \subseteq Elsewhere(t) /\ Elsewhere(t) \subseteq Transfer
    BY DEF Elsewhere, Mine, Pool, ScanInv, TypeOK, Transfer
  <2>2. Cardinality(Elsewhere(t)) <= moves[t] /\ moves'[t] = moves[t] /\ moves[t] \in Nat
    BY DEF ScanInv, ElsewhereBounded, Mine, TypeOK
  <2> QED BY <2>1, <2>2, SubsetCount
<1> QED BY <1>1, <1>2 DEF ScanInv, ElsewhereBounded

\* The pair with the height that a transaction had is one more from elsewhere, and one move.
LEMMA ReorganiseScan ==
  ASSUME ScanInv, NEW n \in 1..Depth, Reorganise(n)
  PROVE  ScanInv'
<1>1. PICK new \in [{t \in sent : at[t] = 0 \/ at[t] > tip - n} -> {0} \cup (tip - n + 1)..tip'] :
        /\ at' = [t \in Txs |-> IF t \in DOMAIN new THEN new[t] ELSE at[t]]
        /\ moves' = [t \in Txs |-> IF at[t] # 0 /\ at'[t] # at[t] THEN moves[t] + 1 ELSE moves[t]]
  BY DEF Reorganise
<1>2. /\ tip' = tip + 1 /\ tip < MaxHeight /\ n <= tip /\ reorgs < MaxReorgs /\ reorgs' = reorgs + 1
      /\ UNCHANGED <<sent, skew, batch, row, restarts>>
  BY DEF Reorganise
<1>3. at' \in [Txs -> 0..MaxHeight]
  BY <1>1, <1>2 DEF ScanInv, TypeOK
<1>4. TypeOK' /\ MovesCounted' /\ PaidOfPayments'
  BY <1>1, <1>2, <1>3 DEF ScanInv, TypeOK, MovesCounted, PaidOfPayments
<1>5. ASSUME NEW t \in Txs PROVE Cardinality(Elsewhere(t)') <= moves'[t]
  <2>1. Elsewhere(t) \subseteq Transfer /\ Cardinality(Elsewhere(t)) <= moves[t] /\ moves[t] \in Nat
    BY DEF Elsewhere, ScanInv, ElsewhereBounded, TypeOK
  <2>2. CASE at'[t] = at[t]
    <3>1. Elsewhere(t)' = Elsewhere(t) /\ moves'[t] = moves[t]
      BY <2>2, <1>1, <1>2 DEF Elsewhere
    <3> QED BY <2>1, <3>1
  <2>3. CASE at[t] = 0
    <3>1. Elsewhere(t)' \subseteq Elsewhere(t) /\ moves'[t] = moves[t]
      BY <2>3, <1>1, <1>2 DEF Elsewhere, ScanInv, TypeOK, Transfer
    <3> QED BY <2>1, <3>1, SubsetCount
  <2>4. CASE at[t] # 0 /\ at'[t] # at[t]
    <3>1. moves'[t] = moves[t] + 1
      BY <2>4, <1>1
    <3>2. Elsewhere(t)' \subseteq Elsewhere(t) \cup {<<t, at[t]>>}
      BY <1>2 DEF Elsewhere, ScanInv, TypeOK, Transfer
    <3>3. <<t, at[t]>> \in Transfer
      BY <2>4 DEF ScanInv, TypeOK, Transfer
    <3>4. Cardinality(Elsewhere(t) \cup {<<t, at[t]>>}) <= Cardinality(Elsewhere(t)) + 1
      BY <2>1, OneElement
    <3> QED BY <2>1, <3>1, <3>2, <3>3, <3>4, SubsetCount
  <2> QED BY <2>2, <2>3, <2>4
<1> QED BY <1>4, <1>5 DEF ScanInv, ElsewhereBounded

\* What is listed has the height of now.
LEMMA ListScan ==
  ASSUME ScanInv, Scan
  PROVE  ScanInv'
<1>1. TypeOK' /\ MovesCounted' /\ PaidOfPayments'
  BY DEF ScanInv, Scan, List, TypeOK, Transfer, MovesCounted, PaidOfPayments
<1>2. ASSUME NEW t \in Txs PROVE Cardinality(Elsewhere(t)') <= moves'[t]
  <2>1. Elsewhere(t)' \subseteq Elsewhere(t) /\ Elsewhere(t) \subseteq Transfer
    BY DEF Elsewhere, Scan, List, ScanInv, TypeOK
  <2>2. Cardinality(Elsewhere(t)) <= moves[t] /\ moves'[t] = moves[t] /\ moves[t] \in Nat
    BY DEF ScanInv, ElsewhereBounded, Scan, TypeOK
  <2> QED BY <2>1, <2>2, SubsetCount
<1> QED BY <1>1, <1>2 DEF ScanInv, ElsewhereBounded

\* A pair goes from the round to the session, or is dropped.
LEMMA CreditScan ==
  ASSUME ScanInv, NEW p \in Transfer, Credit(p)
  PROVE  ScanInv'
<1>1. TypeOK' /\ MovesCounted'
  <2>1. payments' \subseteq Transfer /\ batch' \subseteq Transfer /\ UNCHANGED <<chain, skew, restarts>>
    BY DEF ScanInv, Credit, TypeOK
  <2>2. paid' \in BOOLEAN
    <3>1. CASE Seen(p)
      BY <3>1 DEF ScanInv, Credit, TypeOK
    <3>2. CASE ~Seen(p)
      <4>1. paid' = (Cardinality(payments') >= Price)
        BY <3>2 DEF Credit
      <4>2. CASE Cardinality(payments') >= Price
        BY <4>1, <4>2
      <4>3. CASE ~(Cardinality(payments') >= Price)
        BY <4>1, <4>3
      <4> QED BY <4>2, <4>3
    <3> QED BY <3>1, <3>2
  <2> QED BY <2>1, <2>2 DEF ScanInv, TypeOK, MovesCounted
<1>2. PaidOfPayments'
  BY DEF ScanInv, Credit, PaidOfPayments
<1>3. ElsewhereBounded'
  <2>1. UNCHANGED <<at, moves>> /\ payments' \cup batch' \subseteq payments \cup batch
    BY DEF Credit
  <2> QED BY <2>1, NothingListed
<1> QED BY <1>1, <1>2, <1>3 DEF ScanInv

\* A round that fails lists nothing, and a restart forgets what was listed.
LEMMA OtherScan ==
  ASSUME ScanInv, ScanFails \/ Restart \/ UNCHANGED vars
  PROVE  ScanInv'
<1>1. TypeOK' /\ MovesCounted' /\ PaidOfPayments'
  BY DEF ScanInv, ScanFails, Restart, TypeOK, MovesCounted, PaidOfPayments
<1>2. ElsewhereBounded'
  BY NothingListed DEF ScanFails, Restart
<1> QED BY <1>1, <1>2 DEF ScanInv

\* Every step of the chain and of the wallet process keeps ScanInv.
LEMMA NextScan == ScanInv /\ [Next]_vars => ScanInv'
BY SendScan, MineScan, ReorganiseScan, ListScan, CreditScan, OtherScan DEF Next

(***************************************************************************)
(* Pairs from elsewhere are at most as many as the moves of a transaction. *)
(***************************************************************************)
THEOREM ScanInvariant == Spec => []ScanInv
BY InitScan, NextScan, PTL DEF Spec

(***************************************************************************)
(* Session.add_payment() credits a transfer once, and once more at most    *)
(* for each time that a reorganisation has moved it, for every number of   *)
(* transfers and every length and depth of the chain's changes.            *)
(***************************************************************************)
THEOREM CreditsAreBounded == Spec => []CreditsBounded
<1>1. ScanInv => CreditsBounded
  <2> SUFFICES ASSUME ScanInv, NEW t \in Txs PROVE Cardinality(Credits(t)) <= moves[t] + 1
    BY DEF CreditsBounded
  <2>1. /\ Elsewhere(t) \subseteq Transfer /\ Credits(t) \subseteq Transfer
        /\ Cardinality(Elsewhere(t)) <= moves[t] /\ moves[t] \in Nat
    BY DEF Elsewhere, Credits, ScanInv, ElsewhereBounded, TypeOK
  <2>2. Credits(t) \ {<<t, at[t]>>} \subseteq Elsewhere(t)
    BY DEF Elsewhere, Credits, ScanInv, TypeOK, Transfer
  <2>3. Cardinality(Credits(t)) <= Cardinality(Credits(t) \ {<<t, at[t]>>}) + 1
    BY <2>1, OneElement
  <2> QED BY <2>1, <2>2, <2>3, SubsetCount, TransfersFinite
<1> QED BY <1>1, ScanInvariant, PTL

(***************************************************************************)
(* A session is paid with different transfers that make up its price, or a *)
(* reorganisation has moved one of them and it was credited again.         *)
(***************************************************************************)
THEOREM PaidIsAlwaysCovered == Spec => []PaidIsCovered
<1>1. ScanInv => PaidIsCovered
  <2> SUFFICES ASSUME ScanInv, paid, \A t \in Txs : ~(moves[t] > 0)
                PROVE  Cardinality({t \in Txs : Credits(t) # {}}) >= Price
    BY DEF PaidIsCovered
  <2> DEFINE payers == {t \in Txs : Credits(t) # {}}
  <2>1. payments \subseteq Transfer /\ Cardinality(payments) >= Price
    BY DEF ScanInv, TypeOK, PaidOfPayments
  <2>2. \A p \in payments : p = <<p[1], at[p[1]]>>
    <3>1. \A t \in Txs : Elsewhere(t) = {}
      <4>1. \A t \in Txs : Elsewhere(t) \subseteq Transfer /\ Cardinality(Elsewhere(t)) = 0
        <5> SUFFICES ASSUME NEW t \in Txs
                      PROVE  Elsewhere(t) \subseteq Transfer /\ Cardinality(Elsewhere(t)) = 0
          OBVIOUS
        <5>1. Elsewhere(t) \subseteq Transfer /\ Cardinality(Elsewhere(t)) <= moves[t] /\ moves[t] = 0
          BY DEF Elsewhere, ScanInv, ElsewhereBounded, TypeOK
        <5> QED BY <5>1, TransfersFinite
      <4> QED BY <4>1, TransfersFinite, FS_EmptySet
    <3> QED BY <2>1, <3>1 DEF Elsewhere, Transfer
  <2>3. IsFiniteSet(payers)
    BY FS_Subset
  <2>4. [p \in payments |-> p[1]] \in Injection(payments, payers)
    <3>1. \A p \in payments : p[1] \in payers
      BY <2>1 DEF Credits, Transfer
    <3>2. \A p, q \in payments : p[1] = q[1] => p = q
      BY <2>2
    <3> QED BY <3>1, <3>2 DEF Injection, IsInjective
  <2>5. Cardinality(payments) <= Cardinality(payers)
    BY <2>3, <2>4, FS_Injection
  <2> QED BY <2>1, <2>3, <2>5, TransfersFinite, FS_CardinalityType
<1> QED BY <1>1, ScanInvariant, PTL

-------------------------------------------------------------------------------
(***************************************************************************)
(* Proofs about Payout.  Neither the intent nor a number goes with a       *)
(* message; what keeps the books of the server and of the wallet together  *)
(* is that for a key at most one question or answer PAID is on its way,    *)
(* and only while an intent waits for it that is paid and unmarked.        *)
(***************************************************************************)

\* Is m among the messages s, and is it so only once?
In(s, m)   == \E i \in 1..Len(s) : s[i] = m
Once(s, m) == \A i, j \in 1..Len(s) : s[i] = m /\ s[j] = m => i = j

\* The wallet is still to pay for k, or has reported it as paid to a manager yet to read it.
Asking(k)   == In(queue, Pay(k)) \/ In(wallet_queue, Pay(k)) \/ paying = k
Reported(k) == In(queue, Paid(k)) \/ In(stripe_queue, Paid(k))

PayTypes ==
  /\ marked \subseteq succeeded /\ succeeded \subseteq Intents
  /\ IsFiniteSet(marked) /\ IsFiniteSet(succeeded)
  /\ waiting \in [Keys -> Intents \cup {None}] /\ paying \in Keys \cup {None}
  /\ queue \in Seq(Message) /\ wallet_queue \in Seq(Message) /\ stripe_queue \in Seq(Message)
  /\ made \in [Keys -> Nat] /\ timedOut \in [Keys -> Nat] /\ unmarked \in [Keys -> Nat]
  /\ crashes \in Nat

\* What is still to be checked is paid; nothing is marked in the meantime.
ToCheck ==
  todo \subseteq succeeded \ marked /\ (mode # "check" => todo = {})

OneMessage(k) ==
  /\ Once(queue, Pay(k)) /\ Once(wallet_queue, Pay(k))
  /\ Once(queue, Paid(k)) /\ Once(stripe_queue, Paid(k))
  /\ In(wallet_queue, Pay(k)) => ~In(queue, Pay(k))
  /\ paying = k => ~In(queue, Pay(k)) /\ ~In(wallet_queue, Pay(k))
  /\ In(stripe_queue, Paid(k)) => ~In(queue, Paid(k))
  /\ Asking(k) => ~Reported(k)

Waits(k) ==
  /\ Asking(k) \/ Reported(k) => waiting[k] # None
  /\ waiting[k] # None => waiting[k] \in succeeded \ marked /\ KeyOf[waiting[k]] = k

One(b) == IF b THEN 1 ELSE 0

Books(k) ==
  /\ Count(marked, k) + One(Reported(k)) <= made[k] + timedOut[k]
  /\ made[k] <= Count(marked, k) + unmarked[k] + crashes + One(waiting[k] # None /\ ~Asking(k))

PayInv == PayTypes /\ ToCheck /\ \A k \in Keys : OneMessage(k) /\ Waits(k) /\ Books(k)

PayAssumptions == KeyAssumption /\ PayNoneAssumption

-------------------------------------------------------------------------------
\* The messages about different keys, and different messages about a key, are not the same.
LEMMA Messages ==
  /\ \A k, l : (Pay(k) = Pay(l) <=> k = l) /\ (Paid(k) = Paid(l) <=> k = l)
  /\ \A k, l : Pay(k) # Paid(l) /\ Pay(k) # UnPaid(l) /\ Paid(k) # UnPaid(l)
  /\ \A k \in Keys : Pay(k) \in Message /\ Paid(k) \in Message /\ UnPaid(k) \in Message
  /\ \A m \in Message : m.key \in Keys /\ (m = Pay(m.key) \/ m = Paid(m.key) \/ m = UnPaid(m.key))
BY DEF Pay, Paid, UnPaid, Message

\* A message put at the end of a queue.
LEMMA Appended ==
  ASSUME NEW s \in Seq(Message), NEW n \in Message, NEW m
  PROVE  /\ Append(s, n) \in Seq(Message)
         /\ In(Append(s, n), m) <=> In(s, m) \/ m = n
         /\ Once(s, m) /\ (m = n => ~In(s, m)) => Once(Append(s, n), m)
<1>1. /\ Append(s, n) \in Seq(Message) /\ Len(Append(s, n)) = Len(s) + 1 /\ Len(s) \in Nat
      /\ \A i \in 1..Len(s) + 1 : Append(s, n)[i] = IF i <= Len(s) THEN s[i] ELSE n
  OBVIOUS
<1>2. In(Append(s, n), m) <=> In(s, m) \/ m = n
  BY <1>1 DEF In
<1>3. Once(s, m) /\ (m = n => ~In(s, m)) => Once(Append(s, n), m)
  BY <1>1 DEF In, Once
<1> QED BY <1>1, <1>2, <1>3

\* The oldest message is taken from a queue.
LEMMA Popped ==
  ASSUME NEW s \in Seq(Message), s # <<>>, NEW m
  PROVE  /\ Tail(s) \in Seq(Message) /\ Head(s) \in Message
         /\ In(s, m) <=> In(Tail(s), m) \/ m = Head(s)
         /\ Once(s, m) => Once(Tail(s), m) /\ (m = Head(s) => ~In(Tail(s), m))
<1>1. /\ Tail(s) \in Seq(Message) /\ Head(s) \in Message /\ Head(s) = s[1]
      /\ Len(s) \in Nat /\ Len(s) > 0 /\ Len(Tail(s)) = Len(s) - 1
      /\ \A i \in 1..Len(s) - 1 : Tail(s)[i] = s[i + 1]
  OBVIOUS
<1>2. /\ \A i \in 1..Len(s) : i = 1 \/ (i - 1 \in 1..Len(s) - 1 /\ Tail(s)[i - 1] = s[i])
      /\ \A i \in 1..Len(s) - 1 : i + 1 \in 1..Len(s)
      /\ 1 \in 1..Len(s)
  BY <1>1
<1>3. In(s, m) <=> In(Tail(s), m) \/ m = Head(s)
  <2>1. ASSUME NEW i \in 1..Len(s), s[i] = m PROVE In(Tail(s), m) \/ m = Head(s)
    BY <1>1, <1>2, <2>1 DEF In
  <2>2. ASSUME NEW i \in 1..Len(Tail(s)), Tail(s)[i] = m PROVE In(s, m)
    BY <1>1, <1>2, <2>2 DEF In
  <2>3. m = Head(s) => In(s, m)
    BY <1>1, <1>2 DEF In
  <2> QED BY <2>1, <2>2, <2>3 DEF In
<1>4. Once(s, m) => Once(Tail(s), m) /\ (m = Head(s) => ~In(Tail(s), m))
  <2>1. \A i \in 1..Len(s) - 1 : i + 1 \in 1..Len(s) /\ 1 \in 1..Len(s) /\ i + 1 # 1
    BY <1>1
  <2> QED BY <1>1, <2>1 DEF In, Once
<1> QED BY <1>1, <1>3, <1>4

\* No message is in an empty queue.
LEMMA NoMessage == \A m : ~In(<<>>, m) /\ Once(<<>>, m) /\ <<>> \in Seq(Message)
BY DEF In, Once

\* How many intents of a set have the message k.
LEMMA Counting ==
  ASSUME NEW S, IsFiniteSet(S), NEW k
  PROVE  /\ Count(S, k) \in Nat
         /\ \A p : p \notin S => Count(S \cup {p}, k) = Count(S, k) + One(KeyOf[p] = k)
         /\ \A T \in SUBSET S : Count(T, k) <= Count(S, k)
<1>1. IsFiniteSet({p \in S : KeyOf[p] = k})
  BY FS_Subset
<1>2. Count(S, k) \in Nat
  BY <1>1, FS_CardinalityType DEF Count
<1>3. ASSUME NEW p, p \notin S PROVE Count(S \cup {p}, k) = Count(S, k) + One(KeyOf[p] = k)
  <2>1. CASE KeyOf[p] = k
    <3>1. {q \in S \cup {p} : KeyOf[q] = k} = {q \in S : KeyOf[q] = k} \cup {p}
      BY <2>1
    <3>2. p \notin {q \in S : KeyOf[q] = k}
      BY <1>3
    <3> QED BY <1>1, <2>1, <3>1, <3>2, FS_AddElement DEF Count, One
  <2>2. CASE KeyOf[p] # k
    <3>1. {q \in S \cup {p} : KeyOf[q] = k} = {q \in S : KeyOf[q] = k}
      BY <2>2
    <3> QED BY <1>2, <2>2, <3>1 DEF Count, One
  <2> QED BY <2>1, <2>2
<1>4. ASSUME NEW T \in SUBSET S PROVE Count(T, k) <= Count(S, k)
  <2>1. {p \in T : KeyOf[p] = k} \in SUBSET {p \in S : KeyOf[p] = k}
    OBVIOUS
  <2> QED BY <1>1, <2>1, FS_Subset DEF Count
<1> QED BY <1>2, <1>3, <1>4

-------------------------------------------------------------------------------
\* Nothing is on its way in the beginning.
LEMMA InitPay == PayAssumptions /\ PayInit => PayInv
<1>1. \A k : Count({}, k) = 0
  <2>1. \A k : {p \in {} : KeyOf[p] = k} = {}
    OBVIOUS
  <2> QED BY <2>1, FS_EmptySet DEF Count
<1>2. PayAssumptions /\ PayInit => PayTypes /\ ToCheck
  BY FS_EmptySet, NoMessage DEF PayInit, PayTypes, ToCheck
<1>3. PayAssumptions /\ PayInit => \A k \in Keys : ~Asking(k) /\ ~Reported(k) /\ waiting[k] = None
  BY NoMessage DEF PayInit, Asking, Reported, PayAssumptions, PayNoneAssumption
<1>4. PayAssumptions /\ PayInit => \A k \in Keys : OneMessage(k) /\ Waits(k)
  BY <1>3, NoMessage DEF PayInit, OneMessage, Waits, PayAssumptions, PayNoneAssumption
<1>5. PayAssumptions /\ PayInit => \A k \in Keys : Books(k)
  BY <1>1, <1>3 DEF PayInit, Books, One
<1> QED BY <1>2, <1>4, <1>5 DEF PayInv

\* What the steps that touch neither the messages nor the books leave alone.
kept == <<marked, waiting, queues, paying, made, timedOut, unmarked, crashes>>

\* Customers and scans: more intents are paid, and the list to check is of paid ones.
LEMMA KeptPay ==
  ASSUME PayInv, UNCHANGED kept, PayTypes', ToCheck', succeeded \subseteq succeeded'
  PROVE  PayInv'
<1> SUFFICES ASSUME NEW k \in Keys PROVE (OneMessage(k) /\ Waits(k) /\ Books(k))'
  BY DEF PayInv
<1>1. OneMessage(k) /\ Waits(k) /\ Books(k)
  BY DEF PayInv
<1>2. (Asking(k)' <=> Asking(k)) /\ (Reported(k)' <=> Reported(k))
  BY DEF kept, queues, Asking, Reported
<1>3. OneMessage(k)' /\ Waits(k)'
  BY <1>1, <1>2 DEF OneMessage, Waits, kept, queues
<1>4. Books(k)'
  <2>1. Count(marked, k)' = Count(marked, k)
    BY DEF kept, Count
  <2> QED BY <1>1, <1>2, <2>1 DEF Books, kept, One
<1> QED BY <1>3, <1>4

\* The steps of which KeptPay speaks.
LEMMA CalmPay ==
  ASSUME PayAssumptions, PayInv,
         \/ \E p \in Intents : Create(p) \/ Succeed(p)
         \/ ListIntents \/ EndScan \/ EndAnswers \/ Unlock \/ TopUp \/ UNCHANGED pay_vars
  PROVE  PayInv'
<1> USE DEF PayInv, PayTypes, ToCheck, kept
<1>1. ASSUME NEW p \in Intents, Create(p) PROVE PayInv'
  BY <1>1, KeptPay DEF Create, manager, queues, coins, pay_past, pay_bounds
<1>2. ASSUME NEW p \in Intents, Succeed(p) PROVE PayInv'
  BY <1>2, KeptPay, FS_AddElement DEF Succeed, manager, queues, coins, pay_past, pay_bounds
<1>3. CASE ListIntents
  BY <1>3, KeptPay DEF ListIntents, card, queues, coins, pay_bounds
<1>4. CASE EndScan \/ EndAnswers
  BY <1>4, KeptPay DEF EndScan, EndAnswers, card, queues, coins, pay_past, pay_bounds
<1>5. CASE Unlock \/ TopUp
  BY <1>5, KeptPay DEF Unlock, TopUp, card, manager, queues, coins, pay_past, pay_bounds
<1>6. CASE UNCHANGED pay_vars
  BY <1>6, KeptPay DEF pay_vars, card, manager, queues, coins, pay_past, pay_bounds
<1> QED BY <1>1, <1>2, <1>3, <1>4, <1>5, <1>6

\* A message is sent when none is on its way for its key.
LEMMA CheckPay ==
  ASSUME PayAssumptions, PayInv, NEW p \in Intents, Check(p)
  PROVE  PayInv'
<1> DEFINE l == KeyOf[p]
<1>1. l \in Keys /\ p # None /\ None \notin Keys /\ p \in succeeded \ marked
  BY DEF PayAssumptions, KeyAssumption, PayNoneAssumption, Check, PayInv, ToCheck
<1>2. CASE waiting[l] # None
  BY <1>2, KeptPay DEF Check, kept, card, coins, pay_past, pay_bounds, queues, PayInv, PayTypes, ToCheck
<1>3. CASE waiting[l] = None
  <2>1. /\ waiting' = [waiting EXCEPT ![l] = p] /\ queue' = Append(queue, Pay(l))
        /\ todo' = todo \ {p}
        /\ UNCHANGED <<marked, succeeded, mode, wallet_queue, stripe_queue, paying, made,
                       timedOut, unmarked, crashes>>
    BY <1>3 DEF Check, card, coins, pay_past, pay_bounds
  <2>2. PayTypes' /\ ToCheck'
    BY <1>1, <2>1, Messages, Appended DEF PayInv, PayTypes, ToCheck
  <2> SUFFICES ASSUME NEW k \in Keys PROVE (OneMessage(k) /\ Waits(k) /\ Books(k))'
    BY <2>2 DEF PayInv
  <2>3. OneMessage(k) /\ Waits(k) /\ Books(k) /\ queue \in Seq(Message) /\ Pay(l) \in Message
    BY <1>1, Messages DEF PayInv, PayTypes
  <2>4. /\ In(queue', Pay(k)) <=> In(queue, Pay(k)) \/ k = l
        /\ In(queue', Paid(k)) <=> In(queue, Paid(k))
    <3>1. (Pay(k) = Pay(l) <=> k = l) /\ Paid(k) # Pay(l)
      BY Messages
    <3>2. \A m : In(queue', m) <=> In(queue, m) \/ m = Pay(l)
      BY <2>1, <2>3, Appended
    <3> QED
      BY <3>1, <3>2
  <2>5. /\ Once(queue, Pay(k)) /\ (k = l => ~In(queue, Pay(k))) => Once(queue', Pay(k))
        /\ Once(queue, Paid(k)) => Once(queue', Paid(k))
    <3>1. (Pay(k) = Pay(l) => k = l) /\ Paid(k) # Pay(l)
      BY Messages
    <3> QED
      BY <2>1, <2>3, <3>1, Appended
  <2>6. /\ Asking(k)' <=> Asking(k) \/ k = l
        /\ Reported(k)' <=> Reported(k)
    BY <2>1, <2>4 DEF Asking, Reported
  <2>7. k = l => ~Asking(k) /\ ~Reported(k)
    BY <1>3, <2>3 DEF Waits
  <2>8. OneMessage(k)'
    BY <2>1, <2>3, <2>4, <2>5, <2>6, <2>7 DEF OneMessage, Asking, Reported
  <2>9. waiting'[k] = (IF k = l THEN p ELSE waiting[k])
    BY <2>1 DEF PayInv, PayTypes
  <2>10. Waits(k)'
    BY <1>1, <2>1, <2>3, <2>6, <2>9 DEF Waits
  <2>11. Count(marked, k)' = Count(marked, k)
    BY <2>1 DEF Count
  <2>12. Books(k)'
    BY <1>1, <1>3, <2>1, <2>3, <2>6, <2>9, <2>11 DEF Books, One
  <2> QED BY <2>8, <2>10, <2>12
<1> QED BY <1>2, <1>3

\* An answer PAID ends the waiting, marked or not.
LEMMA ReadPay ==
  ASSUME PayAssumptions, PayInv, ReadAnswer
  PROVE  PayInv'
<1> DEFINE h == Head(stripe_queue)
            l == h.key
<1>1. /\ stripe_queue # <<>> /\ stripe_queue' = Tail(stripe_queue) /\ mode = "answers"
      /\ UNCHANGED <<succeeded, mode, todo, queue, wallet_queue, paying, made, timedOut, crashes>>
  BY DEF ReadAnswer, coins, pay_bounds
<1>2. stripe_queue \in Seq(Message) /\ h \in Message /\ Tail(stripe_queue) \in Seq(Message)
  BY <1>1, Popped DEF PayInv, PayTypes
<1>3. l \in Keys /\ (h.type = "Paid" => h = Paid(l)) /\ (h.type = "UnPaid" => h = UnPaid(l))
  BY <1>2 DEF Message, Paid, UnPaid
<1>4. ASSUME NEW k \in Keys
      PROVE  /\ OneMessage(k) /\ Waits(k) /\ Books(k)
             /\ Reported(k) <=> Reported(k)' \/ Paid(k) = h
             /\ Asking(k)' <=> Asking(k)
             /\ OneMessage(k)' /\ (Paid(k) = h => ~Reported(k)')
  <2>1. OneMessage(k) /\ Waits(k) /\ Books(k)
    BY DEF PayInv
  <2>2. In(stripe_queue, Paid(k)) <=> In(stripe_queue', Paid(k)) \/ Paid(k) = h
    BY <1>1, <1>2, Popped
  <2>3. Once(stripe_queue, Paid(k)) =>
          Once(stripe_queue', Paid(k)) /\ (Paid(k) = h => ~In(stripe_queue', Paid(k)))
    BY <1>1, <1>2, Popped
  <2>4. (Reported(k) <=> Reported(k)' \/ Paid(k) = h) /\ (Asking(k)' <=> Asking(k))
    BY <1>1, <2>2 DEF Asking, Reported
  <2>5. OneMessage(k)' /\ (Paid(k) = h => ~Reported(k)')
    BY <1>1, <2>1, <2>2, <2>3, <2>4 DEF OneMessage, Reported
  <2> QED BY <2>1, <2>4, <2>5
<1>5. CASE h.type = "Paid" /\ waiting[l] # None
  <2>1. /\ waiting' = [waiting EXCEPT ![l] = None] /\ h = Paid(l)
        /\ \/ marked' = marked \cup {waiting[l]} /\ UNCHANGED unmarked
           \/ unmarked' = [unmarked EXCEPT ![l] = @ + 1] /\ UNCHANGED marked
    BY <1>3, <1>5 DEF ReadAnswer
  <2>2. waiting[l] \in Intents /\ waiting[l] \in succeeded \ marked /\ KeyOf[waiting[l]] = l
    BY <1>3, <1>4, <1>5 DEF Waits, PayInv, PayTypes
  <2>3. /\ \A k \in Keys : waiting'[k] = IF k = l THEN None ELSE waiting[k]
        /\ \A k \in Keys : k # l => unmarked'[k] = unmarked[k]
        /\ unmarked[l] \in Nat
        /\ \/ marked' = marked \cup {waiting[l]} /\ unmarked'[l] = unmarked[l]
           \/ marked' = marked /\ unmarked'[l] = unmarked[l] + 1
    BY <1>3, <2>1 DEF PayInv, PayTypes
  <2>4. /\ marked \subseteq succeeded /\ IsFiniteSet(marked)
        /\ marked' \subseteq succeeded /\ IsFiniteSet(marked')
    <3>1. marked \subseteq succeeded /\ IsFiniteSet(marked) /\ IsFiniteSet(marked \cup {waiting[l]})
      BY FS_AddElement DEF PayInv, PayTypes
    <3> QED BY <2>2, <2>3, <3>1
  <2>5. /\ waiting' \in [Keys -> Intents \cup {None}] /\ unmarked' \in [Keys -> Nat]
    <3>1. unmarked[l] + 1 \in Nat
      BY <2>3
    <3>2. unmarked' = [unmarked EXCEPT ![l] = unmarked[l] + 1] \/ unmarked' = unmarked
      BY <2>1
    <3>3. unmarked \in [Keys -> Nat] /\ waiting \in [Keys -> Intents \cup {None}]
      BY DEF PayInv, PayTypes
    <3>4. unmarked' \in [Keys -> Nat]
      BY <3>1, <3>2, <3>3
    <3> QED BY <2>1, <3>3, <3>4
  <2>6. PayTypes' /\ ToCheck'
    <3>1. PayTypes'
      BY <1>1, <1>2, <2>4, <2>5 DEF PayInv, PayTypes
    <3>2. todo = {}
      BY <1>1 DEF PayInv, ToCheck
    <3> QED BY <1>1, <3>1, <3>2 DEF ToCheck
  <2> SUFFICES ASSUME NEW k \in Keys PROVE (Waits(k) /\ Books(k))'
    BY <1>4, <2>6 DEF PayInv
  <2>7. Paid(k) = h <=> k = l
    BY <2>1, Messages
  <2>8. Waits(k)'
    <3>1. CASE k = l
      BY <1>4, <2>3, <2>7, <3>1 DEF Waits, OneMessage
    <3>2. CASE k # l
      <4>1. waiting[k] # None => waiting[k] # waiting[l]
        BY <1>4, <2>2, <3>2 DEF Waits
      <4> QED BY <1>1, <1>4, <2>3, <2>7, <3>2, <4>1 DEF Waits
    <3> QED BY <3>1, <3>2
  <2>9. /\ Count(marked, k) \in Nat
        /\ Count(marked, k)' = IF marked' = marked THEN Count(marked, k)
                               ELSE Count(marked, k) + One(k = l)
    <3>1. Count(marked, k) \in Nat /\ Count(marked \cup {waiting[l]}, k) = Count(marked, k) + One(l = k)
      BY <2>2, <2>4, Counting
    <3>2. Count(marked, k)' = Count(marked', k)
      BY DEF Count
    <3> QED BY <2>3, <3>1, <3>2 DEF One
  <2>10. made[k] \in Nat /\ timedOut[k] \in Nat /\ unmarked[k] \in Nat /\ crashes \in Nat
    BY DEF PayInv, PayTypes
  <2>11. Books(k)'
    <3>1. marked' # marked => marked' = marked \cup {waiting[l]} /\ unmarked'[l] = unmarked[l]
      BY <2>3
    <3>2. marked' = marked => unmarked'[l] = unmarked[l] + 1
      BY <2>2, <2>3
    <3>3. k = l => Reported(k) /\ ~Asking(k) /\ ~Reported(k)'
      BY <1>4, <2>7 DEF OneMessage
    <3>4. (k # l => (Reported(k)' <=> Reported(k))) /\ (Asking(k)' <=> Asking(k)) /\ Books(k)
      BY <1>4, <2>7
    <3>5. CASE k = l
      <4>1. /\ Count(marked, k) + 1 <= made[k] + timedOut[k]
            /\ made[k] <= Count(marked, k) + unmarked[k] + crashes + 1
        BY <1>5, <3>3, <3>4, <3>5 DEF Books, One
      <4>2. Count(marked, k)' <= Count(marked, k) + 1 /\ Count(marked, k)' \in Nat
        BY <2>9, <3>5 DEF One
      <4>3. Count(marked, k) + unmarked[k] + 1 = Count(marked, k)' + unmarked'[k]
        BY <2>3, <2>9, <2>10, <3>1, <3>2, <3>5 DEF One
      <4>4. Count(marked, k)' + 0 <= made[k] + timedOut[k]
        BY <2>10, <2>9, <4>1, <4>2
      <4>5. made[k] <= Count(marked, k)' + unmarked'[k] + crashes
        BY <2>3, <2>10, <2>9, <3>5, <4>1, <4>2, <4>3
      <4>6. waiting'[k] = None
        BY <2>3, <3>5
      <4>7. One(Reported(k))' = 0 /\ One(waiting[k] # None /\ ~Asking(k))' = 0
        BY <3>3, <3>5, <4>6 DEF One
      <4>8. unmarked'[k] \in Nat
        BY <2>5
      <4> QED BY <1>1, <2>10, <4>2, <4>4, <4>5, <4>7, <4>8 DEF Books
    <3>6. CASE k # l
      <4>1. Count(marked, k)' = Count(marked, k)
        BY <2>9, <3>6 DEF One
      <4>2. waiting'[k] = waiting[k] /\ unmarked'[k] = unmarked[k]
        BY <2>3, <3>6
      <4>3. One(Reported(k))' = One(Reported(k))
        BY <3>4, <3>6 DEF One
      <4>4. One(waiting[k] # None /\ ~Asking(k))' = One(waiting[k] # None /\ ~Asking(k))
        BY <3>4, <4>2 DEF One
      <4>5. UNCHANGED <<made, timedOut, crashes>>
        BY <1>1
      <4>6. Books(k)
        BY <3>4
      <4> QED BY <4>1, <4>2, <4>3, <4>4, <4>5, <4>6 DEF Books
    <3> QED BY <3>5, <3>6
  <2> QED BY <2>8, <2>11
<1>6. CASE ~(h.type = "Paid" /\ waiting[l] # None)
  <2>1. UNCHANGED <<marked, unmarked, waiting>>
    BY <1>6 DEF ReadAnswer
  <2>2. \A k \in Keys : Paid(k) # h
    <3>1. ASSUME NEW k \in Keys, Paid(k) = h PROVE FALSE
      <4>1. h.type = "Paid" /\ k = l
        BY <3>1 DEF Paid
      <4> QED BY <1>4, <1>6, <3>1, <4>1 DEF Waits
    <3> QED BY <3>1
  <2>3. PayTypes' /\ ToCheck'
    BY <1>1, <1>2, <2>1 DEF PayInv, PayTypes, ToCheck
  <2>4. ASSUME NEW k \in Keys PROVE (Waits(k) /\ Books(k))'
    <3>1. Count(marked, k)' = Count(marked, k)
      BY <2>1 DEF Count
    <3>2. (Reported(k)' <=> Reported(k)) /\ (Asking(k)' <=> Asking(k))
      BY <1>4, <2>2
    <3>3. Waits(k)'
      BY <1>1, <1>4, <2>1, <3>2 DEF Waits
    <3> QED BY <1>1, <1>4, <2>1, <3>1, <3>2, <3>3 DEF Books, One
  <2> QED BY <1>4, <2>3, <2>4 DEF PayInv
<1> QED BY <1>5, <1>6

\* Steps that keep the books and move messages, so that what is on its way remains the same.
LEMMA MovedPay ==
  ASSUME PayInv, PayTypes',
         UNCHANGED <<succeeded, marked, waiting, mode, todo, made, timedOut, unmarked, crashes>>,
         \A k \in Keys : /\ OneMessage(k)'
                         /\ (Asking(k)' <=> Asking(k)) /\ (Reported(k)' <=> Reported(k))
  PROVE  PayInv'
<1>1. ToCheck'
  BY DEF PayInv, ToCheck
<1>2. ASSUME NEW k \in Keys PROVE (Waits(k) /\ Books(k))'
  <2>1. Waits(k) /\ Books(k) /\ (Asking(k)' <=> Asking(k)) /\ (Reported(k)' <=> Reported(k))
    BY DEF PayInv
  <2>2. Count(marked, k)' = Count(marked, k)
    BY DEF Count
  <2>3. Waits(k)'
    BY <2>1 DEF Waits
  <2> QED BY <2>1, <2>2, <2>3 DEF Books, One
<1> QED BY <1>1, <1>2 DEF PayInv

\* Main hands the messages on in their order.
LEMMA RoutePay ==
  ASSUME PayAssumptions, PayInv, Route
  PROVE  PayInv'
<1> DEFINE h == Head(queue)
<1>1. /\ queue # <<>> /\ queue' = Tail(queue) /\ wallet_queue' = Append(wallet_queue, h)
      /\ stripe_queue' = IF h.type = "Pay" THEN stripe_queue ELSE Append(stripe_queue, h)
      /\ UNCHANGED <<succeeded, marked, waiting, mode, todo, paying, made, timedOut, unmarked,
                     crashes>>
  BY DEF Route, card, manager, coins, pay_past, pay_bounds
<1>2. /\ queue \in Seq(Message) /\ wallet_queue \in Seq(Message) /\ stripe_queue \in Seq(Message)
      /\ h \in Message /\ Tail(queue) \in Seq(Message)
  BY <1>1, Popped DEF PayInv, PayTypes
<1>3. PayTypes'
  BY <1>1, <1>2, Appended DEF PayInv, PayTypes
<1>4. ASSUME NEW k \in Keys
      PROVE  /\ OneMessage(k)'
             /\ (Asking(k)' <=> Asking(k)) /\ (Reported(k)' <=> Reported(k))
  <2>1. OneMessage(k)
    BY DEF PayInv
  <2>2. \A m \in {Pay(k), Paid(k)} :
          /\ In(queue, m) <=> In(queue', m) \/ m = h
          /\ Once(queue, m) => Once(queue', m) /\ (m = h => ~In(queue', m))
    BY <1>1, <1>2, Popped
  <2>3. \A m \in {Pay(k), Paid(k)} :
          /\ In(wallet_queue', m) <=> In(wallet_queue, m) \/ m = h
          /\ Once(wallet_queue, m) /\ (m = h => ~In(wallet_queue, m)) => Once(wallet_queue', m)
    BY <1>1, <1>2, Appended
  <2>4. Paid(k) = h => h.type # "Pay"
    BY DEF Paid
  <2>5. /\ In(stripe_queue', Paid(k)) <=> In(stripe_queue, Paid(k)) \/ Paid(k) = h
        /\ Once(stripe_queue, Paid(k)) /\ (Paid(k) = h => ~In(stripe_queue, Paid(k)))
             => Once(stripe_queue', Paid(k))
    BY <1>1, <1>2, <2>4, Appended
  <2>6. (Asking(k)' <=> Asking(k)) /\ (Reported(k)' <=> Reported(k))
    BY <1>1, <2>2, <2>3, <2>5 DEF Asking, Reported
  <2>7. OneMessage(k)'
    BY <1>1, <2>1, <2>2, <2>3, <2>5, <2>6 DEF OneMessage, Asking
  <2> QED BY <2>6, <2>7
<1> QED BY <1>1, <1>3, <1>4, MovedPay

\* The wallet takes the message it is to work on, and drops the others.
LEMMA TakePay ==
  ASSUME PayAssumptions, PayInv, TakeMessage
  PROVE  PayInv'
<1> DEFINE h == Head(wallet_queue)
<1>1. /\ paying = None /\ wallet_queue # <<>> /\ wallet_queue' = Tail(wallet_queue)
      /\ paying' = IF h.type = "Pay" THEN h.key ELSE None
      /\ UNCHANGED <<succeeded, marked, waiting, mode, todo, queue, stripe_queue, made, timedOut,
                     unmarked, crashes>>
  BY DEF TakeMessage, card, manager, coins, pay_past, pay_bounds
<1>2. wallet_queue \in Seq(Message) /\ h \in Message /\ Tail(wallet_queue) \in Seq(Message)
  BY <1>1, Popped DEF PayInv, PayTypes
<1>3. h.key \in Keys /\ None \notin Keys /\ (h.type = "Pay" => h = Pay(h.key))
  BY <1>2 DEF Message, Pay, PayAssumptions, PayNoneAssumption
<1>4. PayTypes'
  BY <1>1, <1>2, <1>3 DEF PayInv, PayTypes
<1>5. ASSUME NEW k \in Keys
      PROVE  /\ OneMessage(k)'
             /\ (Asking(k)' <=> Asking(k)) /\ (Reported(k)' <=> Reported(k))
  <2>1. OneMessage(k)
    BY DEF PayInv
  <2>2. /\ In(wallet_queue, Pay(k)) <=> In(wallet_queue', Pay(k)) \/ Pay(k) = h
        /\ Once(wallet_queue, Pay(k)) =>
             Once(wallet_queue', Pay(k)) /\ (Pay(k) = h => ~In(wallet_queue', Pay(k)))
    BY <1>1, <1>2, Popped
  <2>3. paying' = k <=> Pay(k) = h
    <3>1. Pay(k) = h => h.type = "Pay" /\ h.key = k
      BY DEF Pay
    <3> QED BY <1>1, <1>3, <3>1
  <2>4. paying # k
    BY <1>1, <1>3
  <2>5. (Asking(k)' <=> Asking(k)) /\ (Reported(k)' <=> Reported(k))
    BY <1>1, <2>2, <2>3, <2>4 DEF Asking, Reported
  <2>6. OneMessage(k)'
    BY <1>1, <2>1, <2>2, <2>3, <2>5 DEF OneMessage, Asking
  <2> QED BY <2>5, <2>6
<1> QED BY <1>1, <1>4, <1>5, MovedPay

\* A payment ends with its answer: PAID only with a transfer or a call that timed out.
LEMMA AnswerPay ==
  ASSUME PayAssumptions, PayInv, NEW ok \in BOOLEAN, paying # None, Answer(paying, ok),
         UNCHANGED <<succeeded, marked, waiting, mode, todo, wallet_queue, stripe_queue, unmarked,
                     crashes>>,
         made' \in [Keys -> Nat], timedOut' \in [Keys -> Nat],
         \A k \in Keys : /\ made[k] <= made'[k]
                         /\ made'[k] <= made[k] + One(k = paying)
                         /\ made[k] + timedOut[k] + One(k = paying /\ ok) <= made'[k] + timedOut'[k]
  PROVE  PayInv'
<1> DEFINE l == paying
            n == IF ok THEN Paid(l) ELSE UnPaid(l)
<1>1. /\ l \in Keys /\ None \notin Keys /\ queue \in Seq(Message)
      /\ queue' = Append(queue, n) /\ paying' = None
  BY DEF Answer, PayInv, PayTypes, PayAssumptions, PayNoneAssumption
<1>2. n \in Message
  BY <1>1, Messages
<1>3. PayTypes' /\ ToCheck'
  BY <1>1, <1>2, Appended DEF PayInv, PayTypes, ToCheck
<1> SUFFICES ASSUME NEW k \in Keys PROVE (OneMessage(k) /\ Waits(k) /\ Books(k))'
  BY <1>3 DEF PayInv
<1>4. OneMessage(k) /\ Waits(k) /\ Books(k)
  BY DEF PayInv
<1>5. (Paid(k) = n <=> k = l /\ ok) /\ Pay(k) # n
  <2>1. CASE ok
    <3>1. n = Paid(l)
      BY <2>1
    <3> HIDE DEF n
    <3>2. (Paid(k) = Paid(l) <=> k = l) /\ Pay(k) # Paid(l)
      BY <1>1, Messages
    <3> QED
      BY <2>1, <3>1, <3>2
  <2>2. CASE ~ok
    <3>1. n = UnPaid(l)
      BY <2>2
    <3> HIDE DEF n
    <3> QED
      BY <2>2, <3>1, Messages
  <2> QED BY <2>1, <2>2
<1>6. /\ In(queue', Pay(k)) <=> In(queue, Pay(k))
      /\ In(queue', Paid(k)) <=> In(queue, Paid(k)) \/ (k = l /\ ok)
      /\ Once(queue, Pay(k)) => Once(queue', Pay(k))
      /\ Once(queue, Paid(k)) /\ (k = l /\ ok => ~In(queue, Paid(k))) => Once(queue', Paid(k))
  BY <1>1, <1>2, <1>5, Appended
<1>7. k = l => Asking(k) /\ ~Reported(k) /\ ~In(queue, Pay(k)) /\ ~In(wallet_queue, Pay(k))
  BY <1>4 DEF Asking, OneMessage
<1>8. /\ Asking(k)' <=> Asking(k) /\ k # l
      /\ Reported(k)' <=> Reported(k) \/ (k = l /\ ok)
  BY <1>1, <1>6, <1>7 DEF Asking, Reported
<1>9. OneMessage(k)'
  BY <1>1, <1>4, <1>6, <1>7, <1>8 DEF OneMessage, Reported
<1>10. Waits(k)'
  BY <1>4, <1>7, <1>8 DEF Waits
<1>11. Books(k)'
  <2>1. Count(marked, k)' = Count(marked, k) /\ Count(marked, k) \in Nat
    <3>1. Count(marked, k)' = Count(marked, k)
      BY DEF Count
    <3> QED BY <3>1, Counting DEF PayInv, PayTypes
  <2>2. /\ made[k] \in Nat /\ timedOut[k] \in Nat /\ unmarked[k] \in Nat /\ crashes \in Nat
        /\ made'[k] \in Nat /\ timedOut'[k] \in Nat
    BY DEF PayInv, PayTypes
  <2>3. k = l => waiting[k] # None
    BY <1>4, <1>7 DEF Waits
  <2>4. k = l => made'[k] <= made[k] + 1 /\ made[k] + timedOut[k] + One(ok) <= made'[k] + timedOut'[k]
    BY DEF One
  <2>5. k # l => made'[k] = made[k] /\ made[k] + timedOut[k] <= made'[k] + timedOut'[k]
    BY <2>2 DEF One
  <2>6. CASE k = l
    <3>1. /\ Count(marked, k) <= made[k] + timedOut[k]
          /\ made[k] <= Count(marked, k) + unmarked[k] + crashes
      BY <1>4, <1>7, <2>1, <2>2, <2>6 DEF Books, One
    <3>2. One(Reported(k))' = One(ok) /\ One(waiting[k] # None /\ ~Asking(k))' = 1
      BY <1>7, <1>8, <2>3, <2>6 DEF One
    <3>3. One(ok) \in Nat
      BY DEF One
    <3> QED BY <2>1, <2>2, <2>4, <2>6, <3>1, <3>2, <3>3 DEF Books
  <2>7. CASE k # l
    <3>1. /\ One(Reported(k))' = One(Reported(k)) /\ One(Reported(k)) \in Nat
          /\ One(waiting[k] # None /\ ~Asking(k))' = One(waiting[k] # None /\ ~Asking(k))
      BY <1>8, <2>7 DEF One
    <3> QED BY <1>4, <2>1, <2>2, <2>5, <2>7, <3>1 DEF Books
  <2> QED BY <2>6, <2>7
<1> QED BY <1>9, <1>10, <1>11

\* The ways a payment may end.
LEMMA WalletPay ==
  ASSUME PayAssumptions, PayInv, CannotPay \/ SendCoins \/ TransferFails \/ TransferTimesOut
  PROVE  PayInv'
<1>1. paying # None => paying \in Keys
  BY DEF PayInv, PayTypes
<1>2. made \in [Keys -> Nat] /\ timedOut \in [Keys -> Nat]
  BY DEF PayInv, PayTypes
<1>3. CASE CannotPay \/ TransferFails
  <2>1. /\ paying # None /\ Answer(paying, FALSE) /\ UNCHANGED <<made, timedOut>>
        /\ UNCHANGED <<succeeded, marked, waiting, mode, todo, wallet_queue, stripe_queue, unmarked,
                       crashes>>
    BY <1>3 DEF CannotPay, TransferFails, card, manager, coins, pay_bounds
  <2>2. \A k \in Keys : /\ made[k] <= made'[k]
                        /\ made'[k] <= made[k] + One(k = paying)
                        /\ made[k] + timedOut[k] + One(k = paying /\ FALSE) <= made'[k] + timedOut'[k]
    BY <1>2, <2>1 DEF One
  <2>3. made' \in [Keys -> Nat] /\ timedOut' \in [Keys -> Nat]
    BY <1>2, <2>1
  <2> QED BY <2>1, <2>2, <2>3, AnswerPay
<1>4. CASE TransferTimesOut
  <2>1. /\ paying # None /\ Answer(paying, TRUE) /\ UNCHANGED made
        /\ timedOut' = [timedOut EXCEPT ![paying] = @ + 1]
        /\ UNCHANGED <<succeeded, marked, waiting, mode, todo, wallet_queue, stripe_queue, unmarked,
                       crashes>>
    BY <1>4 DEF TransferTimesOut, card, manager, coins, pay_bounds
  <2>2. made' \in [Keys -> Nat] /\ timedOut' \in [Keys -> Nat]
    BY <1>1, <1>2, <2>1
  <2>3. \A k \in Keys : /\ made[k] <= made'[k]
                        /\ made'[k] <= made[k] + One(k = paying)
                        /\ made[k] + timedOut[k] + One(k = paying /\ TRUE) <= made'[k] + timedOut'[k]
    BY <1>2, <2>1 DEF One
  <2> QED BY <2>1, <2>2, <2>3, AnswerPay
<1>5. CASE SendCoins
  <2>1. PICK ok \in BOOLEAN : Answer(paying, ok)
    BY <1>5 DEF SendCoins
  <2>2. /\ paying # None /\ UNCHANGED timedOut
        /\ made' = [made EXCEPT ![paying] = @ + 1]
        /\ UNCHANGED <<succeeded, marked, waiting, mode, todo, wallet_queue, stripe_queue, unmarked,
                       crashes>>
    BY <1>5 DEF SendCoins, card, manager, pay_bounds
  <2>3. made' \in [Keys -> Nat] /\ timedOut' \in [Keys -> Nat]
    BY <1>1, <1>2, <2>2
  <2>4. \A k \in Keys : /\ made[k] <= made'[k]
                        /\ made'[k] <= made[k] + One(k = paying)
                        /\ made[k] + timedOut[k] + One(k = paying /\ ok) <= made'[k] + timedOut'[k]
    BY <1>2, <2>2 DEF One
  <2> QED BY <2>1, <2>2, <2>3, <2>4, AnswerPay
<1> QED BY <1>3, <1>4, <1>5

\* A restart forgets the messages and who waits for them.
LEMMA CrashPay ==
  ASSUME PayAssumptions, PayInv, Crash
  PROVE  PayInv'
<1>1. /\ crashes' = crashes + 1 /\ waiting' = [k \in Keys |-> None] /\ mode' = "list" /\ todo' = {}
      /\ queue' = <<>> /\ wallet_queue' = <<>> /\ stripe_queue' = <<>> /\ paying' = None
      /\ UNCHANGED <<succeeded, marked, made, timedOut, unmarked>>
  BY DEF Crash, card, coins
<1>2. PayTypes' /\ ToCheck'
  BY <1>1, NoMessage DEF PayInv, PayTypes, ToCheck
<1> SUFFICES ASSUME NEW k \in Keys PROVE (OneMessage(k) /\ Waits(k) /\ Books(k))'
  BY <1>2 DEF PayInv
<1>3. Asking(k)' = FALSE /\ Reported(k)' = FALSE /\ waiting'[k] = None
  BY <1>1, NoMessage DEF Asking, Reported, PayAssumptions, PayNoneAssumption
<1>4. OneMessage(k)' /\ Waits(k)'
  BY <1>1, <1>3, NoMessage DEF OneMessage, Waits, PayAssumptions, PayNoneAssumption
<1>5. Books(k)'
  <2>1. Count(marked, k)' = Count(marked, k) /\ Count(marked, k) \in Nat
    <3>1. Count(marked, k)' = Count(marked, k)
      BY <1>1 DEF Count
    <3> QED BY <3>1, Counting DEF PayInv, PayTypes
  <2>2. made[k] \in Nat /\ timedOut[k] \in Nat /\ unmarked[k] \in Nat /\ crashes \in Nat
    BY DEF PayInv, PayTypes
  <2>3. One(Reported(k))' = 0 /\ One(waiting[k] # None /\ ~Asking(k))' = 0
    BY <1>3 DEF One
  <2>4. Books(k)
    BY DEF PayInv
  <2>5. made[k] <= Count(marked, k) + unmarked[k] + (crashes + 1)
    BY <2>1, <2>2, <2>4 DEF Books, One
  <2>6. Count(marked, k) + 0 <= made[k] + timedOut[k]
    BY <2>1, <2>2, <2>4 DEF Books, One
  <2>7. UNCHANGED <<made, timedOut, unmarked>> /\ crashes' = crashes + 1
    BY <1>1
  <2> QED BY <2>1, <2>2, <2>3, <2>5, <2>6, <2>7 DEF Books
<1> QED BY <1>4, <1>5

-------------------------------------------------------------------------------
(***************************************************************************)
(* The inductive invariant of the way of a payment: what is on its way for *)
(* a key, who waits for it, and how marks and transfers then add up.       *)
(***************************************************************************)
THEOREM PayInvariant == ASSUME PayAssumptions PROVE PaySpec => []PayInv
<1>1. PayInit => PayInv
  BY InitPay
<1>2. PayInv /\ [PayNext]_pay_vars => PayInv'
  BY CalmPay, CheckPay, ReadPay, RoutePay, TakePay, WalletPay, CrashPay
     DEF PayNext, ManagerStep, WalletStep
<1> QED BY <1>1, <1>2, PTL DEF PaySpec

(***************************************************************************)
(* StripeManager marks no payment for which the wallet has not sent coins, *)
(* but for calls that timed out: for any number of customers, of equal     *)
(* messages and of restarts.                                               *)
(***************************************************************************)
THEOREM MarkedArePaid == ASSUME PayAssumptions PROVE PaySpec => []MarkedWerePaid
<1>1. PayInv => MarkedWerePaid
  <2> SUFFICES ASSUME PayInv, NEW k \in Keys PROVE Count(marked, k) <= made[k] + timedOut[k]
    BY DEF MarkedWerePaid
  <2>1. Count(marked, k) \in Nat /\ made[k] \in Nat /\ timedOut[k] \in Nat
    BY Counting DEF PayInv, PayTypes
  <2> QED BY <2>1 DEF PayInv, Books, One
<1> QED BY <1>1, PayInvariant, PTL

(***************************************************************************)
(* The wallet sends the coins of a payment by card once, and once more at  *)
(* most for each mark that failed and for each restart of the server.      *)
(***************************************************************************)
THEOREM OverpaymentIsBounded == ASSUME PayAssumptions PROVE PaySpec => []OverpaymentBounded
<1>1. PayInv => OverpaymentBounded
  <2> SUFFICES ASSUME PayInv, NEW k \in Keys
                PROVE  made[k] <= Count(succeeded, k) + unmarked[k] + crashes
    BY DEF OverpaymentBounded
  <2>1. /\ Count(marked, k) \in Nat /\ Count(succeeded, k) \in Nat
        /\ made[k] \in Nat /\ unmarked[k] \in Nat /\ crashes \in Nat
    BY Counting DEF PayInv, PayTypes
  <2>2. made[k] <= Count(marked, k) + unmarked[k] + crashes + One(waiting[k] # None /\ ~Asking(k))
    BY DEF PayInv, Books
  <2>3. CASE waiting[k] = None
    <3>1. Count(marked, k) <= Count(succeeded, k)
      BY Counting DEF PayInv, PayTypes
    <3> QED BY <2>1, <2>2, <2>3, <3>1 DEF One
  <2>4. CASE waiting[k] # None
    <3> DEFINE p == waiting[k]
    <3>1. p \in succeeded \ marked /\ KeyOf[p] = k
      BY <2>4 DEF PayInv, Waits
    <3>2. Count(marked \cup {p}, k) = Count(marked, k) + 1
      BY <3>1, Counting DEF PayInv, PayTypes, One
    <3>3. Count(marked \cup {p}, k) <= Count(succeeded, k)
      BY <3>1, Counting DEF PayInv, PayTypes
    <3> QED BY <2>1, <2>2, <3>2, <3>3 DEF One
  <2> QED BY <2>3, <2>4
<1> QED BY <1>1, PayInvariant, PTL

\* What PayInv leaves out of the types.
PayRest ==
  /\ created \in Seq(Intents) /\ found \subseteq Intents /\ overlooked \subseteq Intents
  /\ refused \subseteq Keys
  /\ seen \in Nat /\ first \in BOOLEAN /\ mode \in {"list", "check", "answers"}
  /\ turns \in 0..AnswersPerScan /\ unlocked \in Nat /\ locked \in Nat
  /\ topups \in 0..MaxTopUps /\ crashes \in 0..MaxCrashes

\* The wallet never spends more than it has unlocked.
LEMMA PayRestTyped ==
  ASSUME PayAssumptions, PayoutBounds, PayInv, PayRest, [PayNext]_pay_vars
  PROVE  PayRest'
<1> USE DEF PayRest, scans
<1>1. CASE UNCHANGED pay_vars
  BY <1>1 DEF pay_vars, card, manager, coins, pay_past, pay_bounds
<1>2. ASSUME NEW p \in Intents, Create(p) \/ Succeed(p) \/ Check(p)
      PROVE  PayRest'
  <2>1. created' \in Seq(Intents)
    BY <1>2 DEF Create, Succeed, Check, card
  <2> QED BY <1>2, <2>1 DEF Create, Succeed, Check, card, manager, coins, pay_past, pay_bounds
<1>3. CASE ListIntents
  <2>1. found' \subseteq Intents /\ overlooked' \subseteq Intents /\ seen' \in Nat
    BY <1>3 DEF ListIntents, PayInv, PayTypes
  <2> QED BY <1>3, <2>1 DEF ListIntents, card, coins, pay_bounds
<1>4. CASE EndScan \/ ReadAnswer \/ EndAnswers
  <2>1. turns' \in 0..AnswersPerScan
    BY <1>4 DEF EndScan, ReadAnswer, EndAnswers, PayoutBounds
  <2> QED BY <1>4, <2>1 DEF EndScan, ReadAnswer, EndAnswers, card, coins, pay_past, pay_bounds
<1>5. CASE Route \/ TakeMessage
  BY <1>5 DEF Route, TakeMessage, card, manager, coins, pay_past, pay_bounds
<1>6. CASE CannotPay \/ TransferFails \/ TransferTimesOut
  BY <1>6 DEF CannotPay, TransferFails, TransferTimesOut, Answer, card, manager, coins, pay_bounds,
              PayInv, PayTypes
<1>7. CASE SendCoins
  <2>1. paying \in Keys /\ refused' \subseteq Keys
    BY <1>7 DEF SendCoins, Answer, PayInv, PayTypes
  <2>2. Amount[paying] \in Nat /\ unlocked >= Amount[paying]
    BY <1>7, <2>1 DEF SendCoins, PayAssumptions, KeyAssumption
  <2>3. unlocked' \in Nat /\ locked' \in Nat
    BY <1>7, <2>2 DEF SendCoins
  <2> QED BY <1>7, <2>1, <2>3 DEF SendCoins, card, manager, pay_bounds
<1>8. CASE Unlock \/ TopUp
  BY <1>8 DEF Unlock, TopUp, card, manager, pay_past, pay_bounds, PayoutBounds
<1>9. CASE Crash
  BY <1>9 DEF Crash, card, coins, PayoutBounds
<1> QED BY <1>1, <1>2, <1>3, <1>4, <1>5, <1>6, <1>7, <1>8, <1>9
        DEF PayNext, ManagerStep, WalletStep

(***************************************************************************)
(* Every variable of the model of the payments by card keeps its type: the *)
(* wallet never has less than nothing, and the queues hold only messages.  *)
(***************************************************************************)
THEOREM PayTypeCorrect == ASSUME PayAssumptions, PayoutBounds PROVE PaySpec => []PayTypeOK
<1>1. PayInit => PayRest
  BY DEF PayInit, PayRest, PayoutBounds
<1>2. PayInv /\ PayRest /\ [PayNext]_pay_vars => PayRest'
  BY PayRestTyped
<1>3. PayInv /\ PayRest => PayTypeOK
  BY DEF PayInv, PayTypes, ToCheck, PayRest, PayTypeOK
<1> QED BY <1>1, <1>2, <1>3, PayInvariant, PTL DEF PaySpec

-------------------------------------------------------------------------------
(***************************************************************************)
(* Payment links.                                                          *)
(***************************************************************************)

(***************************************************************************)
(* The inductive invariant of the payment links: who takes a link has seen *)
(* it without a customer or disabled, who disables it has seen it expired, *)
(* and a link that is disabled while it is still lent was raced for.       *)
(***************************************************************************)
LinkInv ==
  /\ LinkTypeOK
  /\ \A u \in Users : doing[u] # "retrieve" => user_at[u] # 0 /\ link_copy[u] \in Link
  /\ \A u \in Users : doing[u] = "take" => link_copy[u].updated = 0 \/ ~link_copy[u].active
  /\ \A u \in Users : doing[u] = "disable" => link_copy[u].updated + Term < link_clock
  /\ \A l \in KnownLinks : Lent(l) /\ ~link[l].active => l \in raced

\* The loops over the links stay within them.
LEMMA CurrentKnown ==
  ASSUME LinkAssumption, LinkTypeOK, NEW u \in Users, user_at[u] # 0
  PROVE  Current(u) \in KnownLinks
<1>1. Len(Links) \in Nat /\ DOMAIN Links = 1..Len(Links)
  BY DEF LinkAssumption
<1>2. user_at[u] \in 1..Len(Links)
  BY <1>1 DEF LinkTypeOK
<1> QED
  BY <1>1, <1>2 DEF Current, KnownLinks, ToSet

\* To leave a link, for the next one or for none, keeps the invariant of the users.
LEMMA LeaveKeeps ==
  ASSUME LinkAssumption, LinkInv, NEW u \in Users, NEW place \in 0..Len(Links), Leave(u, place)
  PROVE  /\ user_at' \in [Users -> 0..Len(Links)]
         /\ doing' \in [Users -> {"retrieve", "disable", "take"}]
         /\ link_copy' \in [Users -> Link \cup {None}]
         /\ \A v \in Users : doing'[v] # "retrieve" =>
              v # u /\ user_at'[v] = user_at[v] /\ doing'[v] = doing[v] /\ link_copy'[v] = link_copy[v]
BY DEF Leave, LinkInv, LinkTypeOK

\* The link at a place of the list is one of them.
LEMMA PlaceInLinks ==
  ASSUME LinkAssumption, LinkTypeOK, NEW u \in Users
  PROVE  (user_at[u] + 1) % (Len(Links) + 1) \in 0..Len(Links) /\ 0 \in 0..Len(Links)
<1>1. Len(Links) \in Nat
  BY DEF LinkAssumption
<1>2. user_at[u] \in Nat
  BY <1>1 DEF LinkTypeOK
<1> QED
  BY <1>1, <1>2

\* The invariant holds at first.
LEMMA LinkInitial == ASSUME LinkAssumption PROVE LinkInit => LinkInv
<1>1. Len(Links) \in Nat
  BY DEF LinkAssumption
<1> QED
  BY <1>1 DEF LinkAssumption, LinkInit, LinkInv, LinkTypeOK, Link, Lent

\* When a user only leaves its link, the links stay as they are.
LEMMA OnlyLeaves ==
  ASSUME LinkAssumption, LinkInv, NEW u \in Users, NEW place \in 0..Len(Links), Leave(u, place),
         UNCHANGED <<link, link_clock, requests, raced>>
  PROVE  LinkInv'
BY LeaveKeeps DEF LinkInv, LinkTypeOK, Lent, Expired

\* A user goes on with a call that the link it has just seen allows.
LEMMA GoesOn ==
  ASSUME LinkAssumption, LinkInv, NEW u \in Users, NEW call \in {"take", "disable"}, user_at[u] # 0,
         GoOn(u, call), UNCHANGED <<link, link_clock, requests, raced>>,
         call = "take" => link[Current(u)].updated = 0 \/ ~link[Current(u)].active,
         call = "disable" => Expired(Current(u))
  PROVE  LinkInv'
<1>1. link[Current(u)] \in Link
  BY CurrentKnown DEF LinkInv, LinkTypeOK
<1> QED
  BY <1>1 DEF GoOn, LinkInv, LinkTypeOK, Lent, Expired

\* A change of a link, of one that was seen as it is or else counted as a race.
LEMMA Modified ==
  ASSUME LinkAssumption, LinkInv, NEW u \in Users, NEW new \in Link, user_at[u] # 0,
         doing[u] # "retrieve", NEW place \in 0..Len(Links), Leave(u, place), Modify(u, new),
         UNCHANGED <<link_clock, requests>>,
         new.active \/ (doing[u] = "disable" /\ new.updated = link[Current(u)].updated)
  PROVE  LinkInv'
<1> DEFINE l == Current(u)
<1>1. l \in KnownLinks
  BY CurrentKnown DEF LinkInv
<1>2. link' = [link EXCEPT ![l] = new] /\ raced' \subseteq KnownLinks
  BY <1>1 DEF Modify, LinkInv, LinkTypeOK
<1>3. LinkTypeOK'
  BY <1>1, <1>2, LeaveKeeps DEF LinkInv, LinkTypeOK
<1>4. \A v \in Users : doing'[v] # "retrieve" =>
        user_at'[v] = user_at[v] /\ doing'[v] = doing[v] /\ link_copy'[v] = link_copy[v]
  BY LeaveKeeps
<1>5. ASSUME NEW m \in KnownLinks, Lent(m)', ~link'[m].active
      PROVE  m \in raced'
  <2>1. CASE m # l
    <3>1. link'[m] = link[m] /\ (m \in raced <=> m \in raced')
      BY <2>1, <1>2, <1>1 DEF Modify, LinkInv, LinkTypeOK
    <3>2. Lent(m) /\ ~link[m].active
      BY <1>5, <3>1 DEF Lent, Expired
    <3> QED
      BY <3>1, <3>2 DEF LinkInv
  <2>2. CASE m = l
    <3>1. link'[l] = new
      BY <1>1, <1>2 DEF LinkInv, LinkTypeOK
    <3>2. doing[u] = "disable" /\ new.updated = link[l].updated
      BY <3>1, <2>2, <1>5
    <3>3. CASE link_copy[u] = link[l]
      <4>1. new.updated + Term < link_clock
        BY <3>2, <3>3 DEF LinkInv
      <4> QED
        BY <4>1, <3>1, <2>2, <1>5 DEF Lent, Expired
    <3>4. CASE link_copy[u] # link[l]
      BY <3>4, <2>2 DEF Modify
    <3> QED
      BY <3>3, <3>4
  <2> QED
    BY <2>1, <2>2
<1> QED
  BY <1>3, <1>4, <1>5 DEF LinkInv

\* Every step keeps the invariant.
LEMMA LinkStep == ASSUME LinkAssumption PROVE LinkInv /\ [LinkNext]_link_vars => LinkInv'
<1> SUFFICES ASSUME LinkInv, [LinkNext]_link_vars
              PROVE  LinkInv'
  OBVIOUS
<1>0. LinkTypeOK /\ Sweeper \in Users /\ Customers \subseteq Users /\ Len(Links) \in Nat \ {0}
  BY DEF LinkInv, Users, LinkAssumption
<1>1. CASE UNCHANGED link_vars
  BY <1>1 DEF link_vars, LinkInv, LinkTypeOK, Lent, Expired
<1>2. CASE LinkTick
  <2>1. \A l \in KnownLinks : Lent(l)' => Lent(l)
    BY <1>2 DEF LinkTick, Lent, Expired, LinkInv, LinkTypeOK, Link, LinkAssumption
  <2>2. \A u \in Users : doing[u] = "disable" => link_copy[u].updated + Term < link_clock'
    BY <1>2 DEF LinkTick, LinkInv, LinkTypeOK, Link, LinkAssumption
  <2>3. link_clock' \in 1..MaxLinkClock
    BY <1>2 DEF LinkTick, LinkInv, LinkTypeOK, LinkAssumption
  <2> QED
    BY <1>2, <2>1, <2>2, <2>3 DEF LinkTick, LinkInv, LinkTypeOK
<1>3. ASSUME NEW u \in Users, Disable(u)
      PROVE  LinkInv'
  <2>1. Current(u) \in KnownLinks
    BY <1>0, <1>3, CurrentKnown DEF Disable
  <2> DEFINE new == [link[Current(u)] EXCEPT !.active = FALSE]
  <2>2. new \in Link /\ new.updated = link[Current(u)].updated
    BY <2>1, <1>0 DEF LinkTypeOK, Link
  <2> HIDE DEF new
  <2>3. Modify(u, new) /\ doing[u] = "disable" /\ user_at[u] # 0
    BY <1>3 DEF Disable, new
  <2> QED
    BY <1>3, <2>2, <2>3, <1>0, PlaceInLinks, Modified DEF Disable, Advance
<1>4. CASE SweepStep
  <2>1. CASE Sweep
    <3>1. user_at' = [user_at EXCEPT ![Sweeper] = 1] /\ doing[Sweeper] = "retrieve"
      BY <2>1, <1>0 DEF Sweep, LinkInv, LinkTypeOK
    <3>2. user_at' \in [Users -> 0..Len(Links)]
      BY <3>1, <1>0 DEF LinkTypeOK
    <3> QED
      BY <2>1, <3>1, <3>2, <1>0 DEF Sweep, LinkInv, LinkTypeOK, Lent, Expired
  <2>2. CASE SweepRetrieve
    BY <2>2, <1>0, GoesOn, OnlyLeaves, PlaceInLinks DEF SweepRetrieve, Advance
  <2>3. CASE SweepFails
    BY <2>3, <1>0, OnlyLeaves, PlaceInLinks DEF SweepFails, Advance
  <2> QED
    BY <1>4, <2>1, <2>2, <2>3, <1>3, <1>0 DEF SweepStep
<1>5. ASSUME NEW c \in Customers, Serve(c)
      PROVE  LinkInv'
  <2>0. c \in Users
    BY <1>0
  <2>1. CASE Request(c)
    <3>1. user_at' = [user_at EXCEPT ![c] = 1] /\ doing[c] = "retrieve"
      BY <2>1, <2>0 DEF Request, LinkInv, LinkTypeOK
    <3>2. requests' \in 0..MaxRequests
      BY <2>1 DEF Request, LinkInv, LinkTypeOK, LinkAssumption
    <3>3. user_at' \in [Users -> 0..Len(Links)]
      BY <3>1, <1>0, <2>0 DEF LinkTypeOK
    <3> QED
      BY <2>1, <3>1, <3>2, <3>3, <2>0 DEF Request, LinkInv, LinkTypeOK, Lent, Expired
  <2>2. CASE Retrieve(c)
    BY <2>2, <2>0, <1>0, GoesOn, OnlyLeaves, PlaceInLinks DEF Retrieve, Advance
  <2>3. CASE TakeLink(c)
    <3> DEFINE new == [active |-> TRUE, updated |-> link_clock, owner |-> c]
    <3>1. new \in Link /\ new.active
      BY <1>0 DEF LinkTypeOK, Link, LinkAssumption
    <3> HIDE DEF new
    <3>2. Modify(c, new) /\ doing[c] = "take" /\ user_at[c] # 0 /\ Leave(c, 0)
      BY <2>3 DEF TakeLink, new, End
    <3> QED
      BY <2>3, <3>1, <3>2, <2>0, <1>0, Modified, PlaceInLinks DEF TakeLink
  <2>4. CASE RequestFails(c)
    BY <2>4, <2>0, <1>0, OnlyLeaves, PlaceInLinks DEF RequestFails, End
  <2> QED
    BY <1>5, <2>1, <2>2, <2>3, <2>4, <1>3, <2>0 DEF Serve
<1> QED
  BY <1>1, <1>2, <1>4, <1>5 DEF LinkNext

(***************************************************************************)
(* The inductive invariant of the payment links.                           *)
(***************************************************************************)
THEOREM LinkInvariant == ASSUME LinkAssumption PROVE LinkSpec => []LinkInv
BY LinkInitial, LinkStep, PTL DEF LinkSpec

\* Who gives a lent link away has seen another state of it, or takes one disabled in a race.
LEMMA RelentIsRace ==
  ASSUME LinkAssumption, LinkInv, [LinkNext]_link_vars, NEW l \in KnownLinks, Relent(l)
  PROVE  l \in raced \/ l \in raced'
<1>0. LinkTypeOK /\ Customers \subseteq Users /\ link'[l].owner # link[l].owner /\ Lent(l)
  BY DEF LinkInv, Users, Relent
<1>1. PICK u \in Users : Disable(u) \/ (u \in Customers /\ TakeLink(u))
  BY <1>0 DEF LinkNext, link_vars, LinkTick, Serve, SweepStep, Sweep, SweepRetrieve, SweepFails,
     Request, Retrieve, RequestFails, Users
<1>2. Current(u) \in KnownLinks
  BY <1>0, <1>1, CurrentKnown DEF Disable, TakeLink
<1>3. l = Current(u) /\ TakeLink(u)
  BY <1>0, <1>1, <1>2 DEF Disable, TakeLink, Modify, LinkTypeOK, Link
<1>4. CASE link_copy[u] # link[l]
  BY <1>3, <1>4 DEF TakeLink, Modify
<1>5. CASE link_copy[u] = link[l]
  <2>1. link[l].updated = 0 \/ ~link[l].active
    BY <1>3, <1>5 DEF TakeLink, LinkInv
  <2>2. link[l].updated # 0
    BY <1>0 DEF Lent
  <2> QED
    BY <1>0, <2>1, <2>2 DEF LinkInv
<1> QED
  BY <1>4, <1>5

(***************************************************************************)
(* A link that is lent goes to a second customer only in a race.           *)
(***************************************************************************)
THEOREM LentOnce == ASSUME LinkAssumption PROVE LinkSpec => LentOnceUnlessRaced
<1>1. LinkInv /\ [LinkNext]_link_vars =>
        [\A l \in KnownLinks : Relent(l) => l \in raced \/ l \in raced']_link_vars
  BY RelentIsRace
<1> QED
  BY <1>1, LinkInvariant, PTL DEF LinkSpec, LentOnceUnlessRaced

-------------------------------------------------------------------------------
(***************************************************************************)
(* The messages about payments in the server.                              *)
(***************************************************************************)

(***************************************************************************)
(* The inductive invariant of the router: at most one message about a      *)
(* payment is on its way, the question or the answer, and only while the   *)
(* payment is waited for and was not refused.                              *)
(***************************************************************************)
\* The places of a queue that hold a message of M.
Occ(q, M)    == {i \in DOMAIN q : q[i] \in M}
AtMostOne(S) == \A i, j \in S : i = j
Answers(n)   == {PaidOf(n), UnPaidOf(n)}
InQueue(n)   == Occ(main_queue, {PayOf(n)} \cup Answers(n))
ToWallet(n)  == Occ(inbox["wallet"], {PayOf(n)})
ToStripe(n)  == Occ(inbox["stripe"], Answers(n))

OnePaymentMessage(n) ==
  /\ AtMostOne(InQueue(n)) /\ AtMostOne(ToWallet(n)) /\ AtMostOne(ToStripe(n))
  /\ InQueue(n) = {} \/ (ToWallet(n) = {} /\ ToStripe(n) = {})
  /\ ToWallet(n) = {} \/ ToStripe(n) = {}
  /\ InQueue(n) \cup ToWallet(n) \cup ToStripe(n) # {} => n \in asked \ turned_down

\* Every payment is settled or waited for, and a refused one is waited for.
Accounted == asked \cup settled = 1..pays /\ asked \cap settled = {} /\ turned_down \subseteq asked

MainInv == MainTypeOK /\ Accounted /\ \A n \in Pays : OnePaymentMessage(n)

\* The first message of a queue is taken out.
LEMMA OccOfTail ==
  ASSUME NEW T, NEW q \in Seq(T), q # <<>>, NEW M
  PROVE  /\ AtMostOne(Occ(q, M)) => AtMostOne(Occ(Tail(q), M))
         /\ Occ(q, M) = {} => Occ(Tail(q), M) = {}
         /\ AtMostOne(Occ(q, M)) /\ Head(q) \in M => Occ(Tail(q), M) = {}
         /\ Head(q) \in M => Occ(q, M) # {}
<1>1. Len(q) \in Nat \ {0} /\ DOMAIN q = 1..Len(q) /\ Head(q) = q[1]
  BY EmptySeq
<1>2. DOMAIN Tail(q) = 1..Len(q) - 1 /\ \A i \in 1..Len(q) - 1 : Tail(q)[i] = q[i + 1]
  BY <1>1
<1> QED
  BY <1>1, <1>2 DEF Occ, AtMostOne

\* A message is put at the end of a queue.
LEMMA OccOfAppend ==
  ASSUME NEW T, NEW q \in Seq(T), NEW m \in T, NEW M
  PROVE  /\ m \notin M => Occ(Append(q, m), M) = Occ(q, M)
         /\ Occ(q, M) = {} => AtMostOne(Occ(Append(q, m), M))
<1>1. Len(q) \in Nat /\ DOMAIN q = 1..Len(q) /\ DOMAIN Append(q, m) = 1..Len(q) + 1
  OBVIOUS
<1>2. Append(q, m)[Len(q) + 1] = m /\ \A i \in 1..Len(q) : Append(q, m)[i] = q[i]
  OBVIOUS
<1> QED
  BY <1>1, <1>2 DEF Occ, AtMostOne

\* What main puts into the queues of some children is meant for them.
LEMMA PutKeepsInboxes ==
  ASSUME MainTypeOK, NEW m \in MainMessage, NEW cs, PutTo(m, cs),
         \A c \in Children \cap cs : m.to \in {c, "all"}
  PROVE  /\ DOMAIN inbox' = Children
         /\ \A c \in Children : inbox'[c] \in Seq({n \in MainMessage : n.to \in {c, "all"}})
<1>0. DOMAIN inbox' = Children
  BY DEF PutTo
<1> SUFFICES ASSUME NEW c \in Children
              PROVE  inbox'[c] \in Seq({n \in MainMessage : n.to \in {c, "all"}})
  BY <1>0
<1> DEFINE F == {n \in MainMessage : n.to \in {c, "all"}}
<1>1. inbox[c] \in Seq(F) /\ inbox'[c] = IF c \in cs THEN Append(inbox[c], m) ELSE inbox[c]
  BY DEF PutTo, MainTypeOK
<1>2. c \in cs => m \in F
  OBVIOUS
<1> HIDE DEF F
<1>3. inbox'[c] \in Seq(F)
  BY <1>1, <1>2
<1> QED
  BY <1>0, <1>3 DEF F

\* What a child takes from its queue is a message for it, and the rest stay messages.
LEMMA TakeKeepsInboxes ==
  ASSUME MainTypeOK, NEW c \in Children, inbox[c] # <<>>, TakeFrom(c)
  PROVE  /\ Head(inbox[c]) \in MainMessage
         /\ DOMAIN inbox' = Children
         /\ \A d \in Children : inbox'[d] \in Seq({n \in MainMessage : n.to \in {d, "all"}})
<1> DEFINE For(d) == {n \in MainMessage : n.to \in {d, "all"}}
<1>1. inbox[c] \in Seq(For(c)) /\ inbox[c] # <<>>
  BY DEF MainTypeOK
<1>2. Head(inbox[c]) \in For(c) /\ Tail(inbox[c]) \in Seq(For(c))
  BY <1>1
<1>3. \A d \in Children :
        inbox'[d] = IF d = c /\ c \in DOMAIN inbox THEN Tail(inbox[c]) ELSE inbox[d]
  BY DEF TakeFrom
<1>4. DOMAIN inbox' = Children
  BY DEF TakeFrom, MainTypeOK
<1> QED
  BY <1>2, <1>3, <1>4 DEF MainTypeOK

\* The records of the router.
LEMMA MessageFields ==
  /\ \A m \in MainMessage : m = Exit \/ \E n \in Pays : m \in {PayOf(n), PaidOf(n), UnPaidOf(n)}
  /\ \A n \in Pays : {PayOf(n), PaidOf(n), UnPaidOf(n)} \subseteq MainMessage
  /\ Exit \in MainMessage
<1>1. ASSUME NEW n \in Pays
      PROVE  {PayOf(n), PaidOf(n), UnPaidOf(n)} \subseteq MainMessage
  BY DEF MainMessage
<1> QED
  BY <1>1 DEF MainMessage

\* The fields of the messages about a payment.
LEMMA PayFields ==
  /\ \A n \in Pays : PayOf(n).to = "wallet" /\ PayOf(n).do = "pay" /\ PayOf(n).of = n
  /\ \A n \in Pays : PaidOf(n).to = "all" /\ PaidOf(n).do = "paid" /\ PaidOf(n).of = n
  /\ \A n \in Pays : UnPaidOf(n).to = "all" /\ UnPaidOf(n).do = "unpaid" /\ UnPaidOf(n).of = n
  /\ Exit.to = "all" /\ Exit.do = "exit"
BY DEF PayOf, PaidOf, UnPaidOf, Exit

\* The queues hold messages.
LEMMA Queues ==
  ASSUME MainTypeOK
  PROVE  /\ {"stripe", "wallet", "manager"} \cup Services = Children /\ DOMAIN inbox = Children
         /\ main_queue \in Seq(MainMessage)
         /\ \A c \in Children : inbox[c] \in Seq(MainMessage)
<1>2. ASSUME NEW c \in Children
      PROVE  inbox[c] \in Seq(MainMessage)
  <2>1. inbox[c] \in Seq({m \in MainMessage : m.to \in {c, "all"}})
    BY DEF MainTypeOK
  <2>2. \A i \in 1..Len(inbox[c]) : inbox[c][i] \in MainMessage
    BY <2>1
  <2> QED
    BY <2>1, <2>2
<1> QED
  BY <1>2 DEF Children, MainTypeOK

\* The invariant holds at first.
LEMMA MainInitial == ASSUME ServerMainAssumption PROVE MainInit => MainInv
<1> SUFFICES ASSUME MainInit
              PROVE  MainInv
  OBVIOUS
<1>1. MainTypeOK /\ Accounted
  BY DEF ServerMainAssumption, MainInit, MainTypeOK, Accounted, Children, Pays
<1>2. main_queue = <<>> /\ inbox["wallet"] = <<>> /\ inbox["stripe"] = <<>>
  BY DEF MainInit, Children
<1> QED
  BY <1>1, <1>2 DEF MainInv, OnePaymentMessage, InQueue, ToWallet, ToStripe, Occ, AtMostOne

\* What leaves the queues and the payments alone keeps OnePaymentMessage.
LEMMA SameMessages ==
  ASSUME NEW n, OnePaymentMessage(n), UNCHANGED <<main_queue, asked, turned_down>>,
         inbox'["wallet"] = inbox["wallet"], inbox'["stripe"] = inbox["stripe"]
  PROVE  OnePaymentMessage(n)'
BY DEF OnePaymentMessage, InQueue, ToWallet, ToStripe

\* Main hands a message on: an answer to all, a question to the wallet.
LEMMA RouteKeepsOne ==
  ASSUME MainInv, MainRoute, NEW n \in Pays
  PROVE  OnePaymentMessage(n)'
<1> DEFINE m == Head(main_queue)
            w == inbox["wallet"]
            s == inbox["stripe"]
            About == {PayOf(n)} \cup Answers(n)
<1>1. m \in MainMessage /\ main_queue # <<>> /\ main_queue' = Tail(main_queue)
  BY DEF MainInv, MainRoute, MainTypeOK
<1>2. w \in Seq(MainMessage) /\ s \in Seq(MainMessage) /\ main_queue \in Seq(MainMessage)
  BY Queues DEF MainInv
<1>3. /\ inbox'["wallet"] = Append(w, m)
      /\ inbox'["stripe"] = IF m.to = "all" THEN Append(s, m) ELSE s
  BY Queues DEF MainRoute, PutTo, MainInv
<1> HIDE DEF w, s, m
<1>4. OnePaymentMessage(n)
  BY DEF MainInv
<1>5. CASE m \notin About
  <2>1. /\ AtMostOne(Occ(main_queue, About)) => AtMostOne(Occ(main_queue', About))
        /\ Occ(main_queue, About) = {} => Occ(main_queue', About) = {}
    BY <1>1, <1>2, OccOfTail
  <2>2. m \notin {PayOf(n)} /\ m \notin Answers(n)
    BY <1>5
  <2>3. /\ Occ(inbox'["wallet"], {PayOf(n)}) = Occ(w, {PayOf(n)})
        /\ Occ(inbox'["stripe"], Answers(n)) = Occ(s, Answers(n))
    BY <1>1, <1>2, <1>3, <2>2, OccOfAppend
  <2> QED
    BY <1>4, <2>1, <2>3 DEF OnePaymentMessage, InQueue, ToWallet, ToStripe, MainRoute, w, s
<1>6. CASE m \in About
  <2>1. Occ(main_queue', About) = {} /\ Occ(main_queue, About) # {}
    BY <1>1, <1>2, <1>4, <1>6, OccOfTail DEF OnePaymentMessage, InQueue, m
  <2>2. Occ(w, {PayOf(n)}) = {} /\ Occ(s, Answers(n)) = {} /\ n \in asked \ turned_down
    BY <1>4, <2>1 DEF OnePaymentMessage, InQueue, ToWallet, ToStripe, w, s
  <2>3. CASE m = PayOf(n)
    <3>1. m.to # "all" /\ m \notin Answers(n)
      BY <2>3, PayFields DEF Answers
    <3>2. inbox'["stripe"] = s
      BY <1>3, <3>1
    <3>3. AtMostOne(Occ(Append(w, m), {PayOf(n)}))
      BY <1>1, <1>2, <2>2, OccOfAppend
    <3> QED
      BY <1>3, <2>1, <2>2, <3>2, <3>3
      DEF OnePaymentMessage, InQueue, ToWallet, ToStripe, MainRoute, w, s, AtMostOne
  <2>4. CASE m \in Answers(n)
    <3>1. m.to = "all" /\ m \notin {PayOf(n)}
      BY <2>4, PayFields DEF Answers
    <3>2. Occ(Append(w, m), {PayOf(n)}) = {}
      <4>1. m \notin {PayOf(n)}
        BY <3>1
      <4>2. Occ(Append(w, m), {PayOf(n)}) = Occ(w, {PayOf(n)})
        BY <1>1, <1>2, <4>1, OccOfAppend
      <4> QED
        BY <2>2, <4>2
    <3>3. AtMostOne(Occ(Append(s, m), Answers(n)))
      BY <1>1, <1>2, <2>2, OccOfAppend
    <3>4. inbox'["stripe"] = Append(s, m)
      BY <1>3, <3>1
    <3> QED
      BY <1>3, <2>1, <2>2, <3>2, <3>3, <3>4
      DEF OnePaymentMessage, InQueue, ToWallet, ToStripe, MainRoute, w, s, AtMostOne
  <2> QED
    BY <1>6, <2>3, <2>4
<1> QED
  BY <1>5, <1>6

\* The wallet reads a message; a question it answers.
LEMMA WalletKeepsOne ==
  ASSUME MainInv, ReadWallet, NEW n \in Pays
  PROVE  main_queue' \in Seq(MainMessage) /\ OnePaymentMessage(n)'
<1> DEFINE w == inbox["wallet"]
            m == Head(w)
            About == {PayOf(n)} \cup Answers(n)
<1>1. w # <<>> /\ w \in Seq(MainMessage) /\ main_queue \in Seq(MainMessage)
  BY Queues DEF MainInv, ReadWallet
<1>2. m \in MainMessage
  BY <1>1
<1>3. inbox'["wallet"] = Tail(w) /\ inbox'["stripe"] = inbox["stripe"]
  BY Queues DEF MainInv, MainTypeOK, ReadWallet, TakeFrom
<1> HIDE DEF w
<1>4. OnePaymentMessage(n)
  BY DEF MainInv
<1>5. /\ AtMostOne(ToWallet(n)')
      /\ ToWallet(n) = {} => ToWallet(n)' = {}
  BY <1>1, <1>3, <1>4, OccOfTail DEF OnePaymentMessage, ToWallet, w
<1>6. ToStripe(n)' = ToStripe(n) /\ UNCHANGED <<asked, turned_down>>
  BY <1>3 DEF ToStripe, ReadWallet
<1>7. CASE UNCHANGED main_queue
  <2>1. InQueue(n)' = InQueue(n)
    BY <1>7 DEF InQueue
  <2> QED
    BY <1>1, <1>4, <1>5, <1>6, <1>7, <2>1 DEF OnePaymentMessage
<1>8. CASE ~UNCHANGED main_queue
  <2>1. m.do = "pay"
    BY <1>8 DEF ReadWallet, w
  <2>2. PICK k \in Pays : m = PayOf(k)
    BY <1>2, <2>1, MessageFields, PayFields
  <2>3. PICK answer \in Answers(k) : main_queue' = Append(main_queue, answer)
    BY <1>8, <2>1, <2>2, PayFields DEF ReadWallet, Answers, w
  <2>4. answer \in MainMessage
    BY <2>3, MessageFields DEF Answers
  <2>5. main_queue' \in Seq(MainMessage)
    BY <1>1, <2>3, <2>4
  <2>6. CASE k # n
    <3>1. answer \notin About
      BY <2>3, <2>6, PayFields DEF Answers
    <3>2. InQueue(n)' = InQueue(n)
      BY <1>1, <2>3, <2>4, <3>1, OccOfAppend DEF InQueue
    <3> QED
      BY <1>4, <1>5, <1>6, <2>5, <3>2 DEF OnePaymentMessage
  <2>7. CASE k = n
    <3>1. ToWallet(n) # {} /\ ToWallet(n)' = {}
      BY <1>1, <1>3, <1>4, <2>2, <2>7, OccOfTail DEF ToWallet, w, OnePaymentMessage
    <3>2. InQueue(n) = {} /\ ToStripe(n) = {} /\ n \in asked \ turned_down
      BY <1>4, <3>1 DEF OnePaymentMessage
    <3>3. AtMostOne(InQueue(n)')
      BY <1>1, <2>3, <2>4, <3>2, OccOfAppend DEF InQueue
    <3> QED
      BY <1>6, <2>5, <3>1, <3>2, <3>3 DEF OnePaymentMessage, AtMostOne
  <2> QED
    BY <2>6, <2>7
<1> QED
  BY <1>7, <1>8

\* The stripe process reads a message; an answer ends the wait for it, or is a refusal.
LEMMA StripeKeepsOne ==
  ASSUME MainInv, ReadStripe
  PROVE  (\A n \in Pays : OnePaymentMessage(n)') /\ turned_down' \subseteq asked'
<1> DEFINE s == inbox["stripe"]
            m == Head(s)
<1>1. s # <<>> /\ s \in Seq(MainMessage)
  BY Queues DEF MainInv, ReadStripe
<1>2. m \in MainMessage
  BY <1>1
<1>3. inbox'["stripe"] = Tail(s) /\ inbox'["wallet"] = inbox["wallet"] /\ UNCHANGED main_queue
  BY Queues DEF MainInv, MainTypeOK, ReadStripe, TakeFrom
<1> HIDE DEF s
<1>4. ASSUME NEW n \in Pays
      PROVE  /\ OnePaymentMessage(n)
             /\ InQueue(n)' = InQueue(n) /\ ToWallet(n)' = ToWallet(n)
             /\ AtMostOne(ToStripe(n)')
             /\ ToStripe(n) = {} => ToStripe(n)' = {}
             /\ m \in Answers(n) => /\ ToStripe(n)' = {} /\ n \in asked \ turned_down
                                    /\ InQueue(n) = {} /\ ToWallet(n) = {}
  <2>1. OnePaymentMessage(n)
    BY DEF MainInv
  <2>2. /\ AtMostOne(ToStripe(n)')
        /\ ToStripe(n) = {} => ToStripe(n)' = {}
        /\ m \in Answers(n) => ToStripe(n)' = {} /\ ToStripe(n) # {}
    BY <1>1, <1>3, <2>1, OccOfTail DEF OnePaymentMessage, ToStripe, s
  <2> QED
    BY <1>3, <2>1, <2>2 DEF OnePaymentMessage, InQueue, ToWallet
<1>5. CASE m = Exit
  <2>1. UNCHANGED <<asked, turned_down>>
    BY <1>5, PayFields DEF ReadStripe, s
  <2> QED
    BY <1>4, <2>1 DEF OnePaymentMessage, MainInv, Accounted
<1>6. ASSUME NEW k \in Pays, m \in {PayOf(k), PaidOf(k), UnPaidOf(k)}
      PROVE  (\A n \in Pays : OnePaymentMessage(n)') /\ turned_down' \subseteq asked'
  <2>1. CASE m = PayOf(k)
    <3>1. UNCHANGED <<asked, turned_down>>
      BY <2>1, PayFields DEF ReadStripe, s
    <3> QED
      BY <1>4, <3>1 DEF OnePaymentMessage, MainInv, Accounted
  <2>2. CASE m = PaidOf(k) \/ m = UnPaidOf(k)
    <3>1. ToStripe(k)' = {} /\ k \in asked \ turned_down /\ InQueue(k)' = {} /\ ToWallet(k)' = {}
      BY <1>4, <2>2 DEF Answers
    <3>2. /\ asked \ {k} \subseteq asked' /\ asked' \subseteq asked
          /\ turned_down \subseteq turned_down' /\ turned_down' \subseteq turned_down \cup {k}
          /\ m = PaidOf(k) => turned_down' = turned_down
          /\ m = UnPaidOf(k) => asked' = asked
      BY <2>2, PayFields DEF ReadStripe, s
    <3>3. OnePaymentMessage(k)'
      BY <3>1 DEF OnePaymentMessage, AtMostOne
    <3>4. ASSUME NEW n \in Pays, n # k
          PROVE  OnePaymentMessage(n)'
      BY <1>4, <3>2, <3>4 DEF OnePaymentMessage
    <3>5. turned_down' \subseteq asked'
      BY <2>2, <3>1, <3>2 DEF MainInv, Accounted
    <3> QED
      BY <3>3, <3>4, <3>5
  <2> QED
    BY <1>6, <2>1, <2>2
<1> QED
  BY <1>2, <1>5, <1>6, MessageFields

\* The stripe process asks for another payment.
LEMMA AskKeepsOne ==
  ASSUME ServerMainAssumption, MainInv, AskToPay, NEW n \in Pays
  PROVE  OnePaymentMessage(n)'
<1>1. /\ pays \in Nat /\ pays' = pays + 1 /\ pays' \in Pays /\ asked' = asked \cup {pays'}
      /\ pays' \notin asked
  BY DEF AskToPay, MainTypeOK, ServerMainAssumption, Pays, MainInv, Accounted
<1>2. main_queue \in Seq(MainMessage) /\ PayOf(pays') \in MainMessage
  BY <1>1, MessageFields DEF MainInv, MainTypeOK
<1>3. OnePaymentMessage(n) /\ main_queue' = Append(main_queue, PayOf(pays')) /\ UNCHANGED turned_down
  BY DEF MainInv, AskToPay
<1>4. ToWallet(n)' = ToWallet(n) /\ ToStripe(n)' = ToStripe(n)
  BY DEF AskToPay, ToWallet, ToStripe
<1>5. CASE n # pays'
  <2>1. PayOf(pays') \notin {PayOf(n)} \cup Answers(n)
    BY <1>1, <1>5, PayFields DEF Answers
  <2>2. InQueue(n)' = InQueue(n)
    BY <1>2, <1>3, <2>1, OccOfAppend DEF InQueue
  <2> QED
    BY <1>1, <1>3, <1>4, <2>2 DEF OnePaymentMessage
<1>6. CASE n = pays'
  <2>1. InQueue(n) = {} /\ ToWallet(n) = {} /\ ToStripe(n) = {}
    BY <1>1, <1>3, <1>6 DEF OnePaymentMessage
  <2>2. AtMostOne(InQueue(n)')
    BY <1>2, <1>3, <2>1, OccOfAppend DEF InQueue
  <2>3. n \in asked' \ turned_down'
    BY <1>1, <1>3, <1>6 DEF MainInv, Accounted
  <2> QED
    BY <1>4, <2>1, <2>2, <2>3 DEF OnePaymentMessage, AtMostOne
<1> QED
  BY <1>5, <1>6

\* The end of the server is no message about a payment.
LEMMA CleanupKeepsOne ==
  ASSUME MainInv, Cleanup, NEW n \in Pays
  PROVE  OnePaymentMessage(n)'
<1> DEFINE w == inbox["wallet"]
            s == inbox["stripe"]
<1>1. w \in Seq(MainMessage) /\ s \in Seq(MainMessage) /\ Exit \in MainMessage
  BY Queues, MessageFields DEF MainInv
<1>2. inbox'["wallet"] = Append(w, Exit) /\ inbox'["stripe"] = Append(s, Exit)
  BY Queues DEF Cleanup, PutTo, MainInv
<1>3. Exit \notin {PayOf(n)} /\ Exit \notin Answers(n)
  BY PayFields DEF Answers
<1> HIDE DEF w, s
<1>4. /\ Occ(inbox'["wallet"], {PayOf(n)}) = Occ(w, {PayOf(n)})
      /\ Occ(inbox'["stripe"], Answers(n)) = Occ(s, Answers(n))
  BY <1>1, <1>2, <1>3, OccOfAppend
<1> QED
  BY <1>4 DEF OnePaymentMessage, InQueue, ToWallet, ToStripe, Cleanup, MainInv, w, s

\* Every step keeps the invariant.
LEMMA MainKeeps ==
  ASSUME ServerMainAssumption, MainInv, [MainNext]_main_vars
  PROVE  MainInv'
<1>0. {"stripe", "wallet", "manager"} \cup Services = Children /\ MainTypeOK /\ Accounted
  BY DEF Children, MainInv
<1>1. CASE UNCHANGED main_vars \/ Notice \/ MainJoin \/ MainDone \/ RefreshEnds
  <2>1. UNCHANGED <<main_queue, inbox, asked, turned_down>>
    BY <1>1 DEF main_vars, Notice, MainJoin, MainDone, RefreshEnds
  <2>2. MainTypeOK' /\ Accounted'
    BY <1>0, <1>1 DEF main_vars, Notice, MainJoin, MainDone, RefreshEnds, MainTypeOK, Accounted
  <2> QED
    BY <2>1, <2>2, SameMessages DEF MainInv
<1>2. CASE MainRoute
  <2> DEFINE m == Head(main_queue)
              cs == IF m.to = "all" THEN {"wallet", "manager", "stripe"} ELSE {"wallet"}
  <2>1. m \in MainMessage /\ main_queue' \in Seq(MainMessage)
    BY <1>0, <1>2 DEF MainRoute, MainTypeOK
  <2>2. PutTo(m, cs)
    BY <1>2 DEF MainRoute
  <2>3. \A c \in Children \cap cs : m.to \in {c, "all"}
    BY <2>1, MessageFields, PayFields
  <2> HIDE DEF m, cs
  <2>4. /\ DOMAIN inbox' = Children
        /\ \A c \in Children : inbox'[c] \in Seq({n \in MainMessage : n.to \in {c, "all"}})
    BY <1>0, <2>1, <2>2, <2>3, PutKeepsInboxes
  <2>5. MainTypeOK' /\ Accounted'
    BY <1>0, <1>2, <2>1, <2>4 DEF MainRoute, MainTypeOK, Accounted
  <2> QED
    BY <1>2, <2>5, RouteKeepsOne DEF MainInv
<1>4. CASE Cleanup
  <2>1. PutTo(Exit, Children) /\ Exit \in MainMessage /\ Exit.to = "all"
    BY <1>4, MessageFields, PayFields DEF Cleanup
  <2>2. /\ DOMAIN inbox' = Children
        /\ \A c \in Children : inbox'[c] \in Seq({n \in MainMessage : n.to \in {c, "all"}})
    BY <1>0, <2>1, PutKeepsInboxes
  <2>3. MainTypeOK' /\ Accounted'
    BY <1>0, <1>4, <2>2 DEF Cleanup, MainTypeOK, Accounted
  <2> QED
    BY <1>4, <2>3, CleanupKeepsOne DEF MainInv
<1>5. ASSUME NEW c \in Children, Kill(c) \/ Fail(c)
      PROVE  MainInv'
  <2>1. MainTypeOK' /\ Accounted'
    BY <1>0, <1>5 DEF Kill, Fail, Become, MainTypeOK, Accounted
  <2>2. UNCHANGED <<main_queue, inbox, asked, turned_down>>
    BY <1>5 DEF Kill, Fail
  <2> QED
    BY <2>1, <2>2, SameMessages DEF MainInv
<1>7. CASE AskToPay
  <2>1. /\ pays \in Nat /\ MaxPays \in Nat /\ pays' = pays + 1
        /\ pays' \in 0..MaxPays /\ pays' \in Pays
    BY <1>0, <1>7 DEF AskToPay, MainTypeOK, ServerMainAssumption, Pays
  <2>2. main_queue' \in Seq(MainMessage)
    BY <1>0, <1>7, <2>1, MessageFields DEF AskToPay, MainTypeOK
  <2>3. Accounted'
    BY <1>0, <1>7, <2>1 DEF AskToPay, Accounted
  <2>4. MainTypeOK'
    BY <1>0, <1>7, <2>1, <2>2 DEF AskToPay, MainTypeOK
  <2> QED
    BY <1>7, <2>3, <2>4, AskKeepsOne DEF MainInv
<1>8. CASE ReadWallet
  <2>1. /\ DOMAIN inbox' = Children
        /\ \A d \in Children : inbox'[d] \in Seq({n \in MainMessage : n.to \in {d, "all"}})
    BY <1>0, <1>8, TakeKeepsInboxes DEF ReadWallet
  <2>2. child' \in [Children -> {"serves", "failed", "gone"}]
    BY <1>0, <1>8 DEF ReadWallet, Become, MainTypeOK
  <2>3. main_queue' \in Seq(MainMessage)
    <3>1. CASE Pays = {}
      <4>1. \A m \in MainMessage : m.do # "pay"
        BY <3>1, MessageFields, PayFields
      <4>2. Head(inbox["wallet"]) \in MainMessage
        BY <1>0, <1>8, TakeKeepsInboxes DEF ReadWallet
      <4> QED
        BY <1>0, <1>8, <4>1, <4>2 DEF ReadWallet, MainTypeOK
    <3>2. CASE Pays # {}
      BY <1>8, <3>2, WalletKeepsOne
    <3> QED
      BY <3>1, <3>2
  <2>4. MainTypeOK' /\ Accounted'
    BY <1>0, <1>8, <2>1, <2>2, <2>3 DEF ReadWallet, MainTypeOK, Accounted
  <2> QED
    BY <1>8, <2>4, WalletKeepsOne DEF MainInv
<1>9. CASE ReadStripe
  <2>1. /\ DOMAIN inbox' = Children
        /\ \A d \in Children : inbox'[d] \in Seq({n \in MainMessage : n.to \in {d, "all"}})
    BY <1>0, <1>9, TakeKeepsInboxes DEF ReadStripe
  <2>2. child' \in [Children -> {"serves", "failed", "gone"}]
    BY <1>0, <1>9 DEF ReadStripe, Become, MainTypeOK
  <2>3. Accounted'
    BY <1>0, <1>9, StripeKeepsOne DEF ReadStripe, Accounted
  <2>4. asked' \subseteq Pays /\ settled' \subseteq Pays /\ turned_down' \subseteq Pays
    BY <1>0, <1>9, StripeKeepsOne DEF ReadStripe, MainTypeOK
  <2>5. MainTypeOK'
    BY <1>0, <1>9, <2>1, <2>2, <2>4, StripeKeepsOne DEF ReadStripe, MainTypeOK
  <2> QED
    BY <1>9, <2>3, <2>5, StripeKeepsOne DEF MainInv
<1>10. ASSUME NEW c \in Children \ {"wallet", "stripe"}, TakeFrom(c), inbox[c] # <<>>,
              UNCHANGED <<main, main_queue, refresh, pays, asked, settled, turned_down>>,
              child' \in [Children -> {"serves", "failed", "gone"}]
       PROVE  MainInv'
  <2>1. /\ DOMAIN inbox' = Children
        /\ \A d \in Children : inbox'[d] \in Seq({n \in MainMessage : n.to \in {d, "all"}})
    BY <1>0, <1>10, TakeKeepsInboxes
  <2>2. MainTypeOK' /\ Accounted'
    BY <1>0, <1>10, <2>1 DEF MainTypeOK, Accounted
  <2>3. inbox'["wallet"] = inbox["wallet"] /\ inbox'["stripe"] = inbox["stripe"]
    BY <1>10 DEF TakeFrom
  <2> QED
    BY <1>10, <2>2, <2>3, SameMessages DEF MainInv
<1>11. CASE ReadManager
  BY <1>0, <1>10, <1>11 DEF ReadManager, MainTypeOK
<1>12. ASSUME NEW c \in Services, ReadService(c)
       PROVE  MainInv'
  <2>1. c \notin {"wallet", "stripe"}
    BY DEF ServerMainAssumption
  <2>2. child' \in [Children -> {"serves", "failed", "gone"}]
    BY <1>0, <1>12 DEF ReadService, Become, MainTypeOK
  <2> QED
    BY <1>0, <1>10, <1>12, <2>1, <2>2 DEF ReadService
<1> QED
  BY <1>1, <1>2, <1>4, <1>5, <1>7, <1>8, <1>9, <1>11, <1>12 DEF MainNext, MainStep, Read

(***************************************************************************)
(* At most one message about a payment by card is on its way in the server *)
(* at any time.                                                            *)
(***************************************************************************)
THEOREM MainInvariant == ASSUME ServerMainAssumption PROVE MainSpec => []MainInv
BY MainInitial, MainKeeps, PTL DEF MainSpec

(***************************************************************************)
(* A child of the server is only sent what it understands.                 *)
(***************************************************************************)
THEOREM MainTypeCorrect == ASSUME ServerMainAssumption PROVE MainSpec => []MainTypeOK
BY MainInvariant, PTL DEF MainInv

(***************************************************************************)
(* A payment by card gets one answer, PAID or UNPAID: since main hands     *)
(* each message on once, and the wallet answers each question once, no     *)
(* answer is on its way for a payment that was refused.                    *)
(***************************************************************************)
THEOREM AnsweredOnce == ASSUME ServerMainAssumption PROVE MainSpec => []OneAnswer
<1>1. MainInv => OneAnswer
  BY DEF MainInv, Accounted, OneAnswer
<1> QED
  BY <1>1, MainInvariant, PTL
===============================================================================

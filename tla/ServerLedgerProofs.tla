-------------------------- MODULE ServerLedgerProofs --------------------------
(***************************************************************************)
(* The session table of a server without WireGuard gates and contributions *)
(* implements the ledger.  A row is rewritten from a copy that may be old, *)
(* so the steps of the table are steps of the ledger because of what is    *)
(* known of the copies: the request that made a session holds the only one *)
(* until its row can be paid for, the wallet alone changes a row after     *)
(* that, and the refresher finds nothing it could activate.                *)
(***************************************************************************)
EXTENDS ServerLedger, ServerSessionsProofs, SequenceTheorems

PlainServer == WgGates = {} /\ ContribPercent = 0

\* A transfer for session s is on the chain.
Charged(s) == MinedFor(s) # {}

\* A row is active as soon as its price is covered, and deleted only past its expiry.
RowOk(s) ==
  /\ s \in issued
  /\ ~IsActive(db[s]) => db[s].credit < db[s].price
  /\ s \in deleted => ~IsFresh(db[s], clock)

(***************************************************************************)
(* What the ledger lets a copy d do to the row of session s when it is     *)
(* saved: add a transfer, or begin the term.  A row that is gone may come  *)
(* back only from an active copy; an unpaid one is too old to be saved,    *)
(* unless it is the first.                                                 *)
(***************************************************************************)
Supersedes(d, s) ==
  IF db[s] = None THEN IsActive(d) \/ d.payments = {} \/ ~IsFresh(d, clock)
  ELSE /\ IsActive(db[s]) => IsActive(d)
       /\ db[s].payments \subseteq d.payments
       /\ IsActive(db[s]) = IsActive(d) =>
            /\ d.expires = db[s].expires
            /\ \/ d.payments = db[s].payments
               \/ \E t \in Txs : d.payments = db[s].payments \cup {t}

Settled(d) == IsActive(d) \/ d.credit < d.price

\* What is left to do: a request for a free session, step by step, and one for a paid one;
PostFree    == <<Activate, Limit, Save>>
SaveFree    == <<Save, Limit, Save>>
LimitFree   == <<Limit, Save>>
SaveOnly    == <<Save>>
\* the wallet, once it has credited a transfer that covers the price, and has activated.
BeginTerm   == <<Activate, Save>>
SaveTwice   == <<Save, Save>>

\* A request: a free session is activated and saved, tested, and saved again.
WorkerOk(w) ==
  LET s == obj[w].sid
      d == obj[w].data
  IN /\ s \in issued /\ ~Charged(s)
     /\ d.payments = {}
     /\ IsActive(d) => IsFree(d.gate)
     /\ db[s] # None => db[s] = d /\ IsActive(d)
     /\ \/ prog[w] = PostFree /\ CanActivate(d) /\ IsFree(d.gate)
        \/ prog[w] = SaveFree /\ IsActive(d)
        \/ prog[w] \in {LimitFree, SaveOnly} /\ Settled(d)

\* The wallet: a copy of the row until the transfer is credited, then the row to come.
WalletOk ==
  LET s == obj[Wallet].sid
      d == obj[Wallet].data
  IN /\ Charged(s)
     /\ \/ /\ \E t \in Txs : prog[Wallet] = <<Credit(t)>>
           /\ \/ db[s] = d
              \/ db[s] = None /\ (IsActive(d) \/ ~IsFresh(d, clock))
        \/ prog[Wallet] = BeginTerm /\ d.credit >= d.price /\ Supersedes(d, s)
        \/ prog[Wallet] \in {SaveOnly, SaveTwice} /\ Settled(d) /\ Supersedes(d, s)

\* The refresher: only sessions it cannot activate.
RefresherOk ==
  /\ \A o \in batch : ~CanActivate(o.data)
  /\ ~Idle(Refresher) => prog[Refresher] = <<Activate>> /\ ~CanActivate(obj[Refresher].data)

RowsOk == \A s \in Sids : db[s] # None => RowOk(s)

ChargedOk == \A s \in Sids : Charged(s) => s \in issued

WorkersOk == \A w \in Workers : ~Idle(w) => WorkerOk(w)

\* No two requests work on the same session.
Apart ==
  \A v \in Workers, w \in Workers : v # w /\ ~Idle(v) /\ ~Idle(w) => obj[v].sid # obj[w].sid

LedgerInv ==
  /\ MinedInv
  /\ RowsOk
  /\ ChargedOk
  /\ WorkersOk
  /\ Apart
  /\ ~Idle(Wallet) => WalletOk
  /\ RefresherOk

-------------------------------------------------------------------------------
(***************************************************************************)
(* Lemmas about the operations, and about what other actors leave alone.   *)
(***************************************************************************)

\* On a plain server reading a row changes nothing, and payment is all activation asks for.
LEMMA PlainLoad ==
  ASSUME PlainServer, NEW d
  PROVE  /\ Loaded(d) = d /\ OnLoad(d) = <<>> /\ ~ActivatesOnLoad(d)
         /\ CanActivate(d) <=> d.credit >= d.price /\ ~IsActive(d)
BY DEF PlainServer, Loaded, OnLoad, ActivatesOnLoad, AddContributions, CanActivate

\* The types that the steps below rely on.
LEMMA LedgerTypes ==
  ASSUME LedgerInv
  PROVE  /\ db \in [Sids -> GoodSession \cup {None}]
         /\ obj \in [Actors -> GoodHeld \cup {None}]
         /\ prog \in [Actors -> Seq(Ops)]
         /\ \A a \in Actors : ~Idle(a) => obj[a] \in GoodHeld
         /\ batch \subseteq GoodHeld
         /\ clock \in Nat /\ clock > 0
         /\ mined \in [Txs -> Nat]
         /\ inbox \subseteq {t \in Txs : mined[t] > 0}
         /\ None \notin GoodSession
         /\ deleted \subseteq Sids /\ issued \subseteq Sids
<1>1. clock \in Nat /\ clock > 0 /\ mined \in [Txs -> Nat]
  BY BoundAssumption DEF LedgerInv, MinedInv, SessionInv, Rest
<1> QED
  BY <1>1, NoneAssumption
     DEF LedgerInv, MinedInv, SessionInv, Good, GoodRows, GoodObjects, Rest, Idle, GoodSession

\* The actors are distinct.
LEMMA ActorsApart ==
  /\ Wallet \in Actors /\ Refresher \in Actors /\ Workers \subseteq Actors
  /\ Wallet # Refresher /\ Wallet \notin Workers /\ Refresher \notin Workers
BY ActorAssumption DEF Actors

\* The operations have different names.
LEMMA OpNames ==
  /\ Activate.do = "activate" /\ Save.do = "save" /\ Limit.do = "limit"
  /\ \A t : Credit(t).do = "credit" /\ Credit(t).tx = t
BY DEF Activate, Save, Limit, Credit

\* A list is its head before its tail.
LEMMA Cons ==
  ASSUME NEW S, NEW p \in Seq(S), p # <<>> PROVE <<Head(p)>> \o Tail(p) = p
OBVIOUS

\* Lists of one, two and three operations, taken apart and put together.
LEMMA One ==
  ASSUME NEW x
  PROVE  /\ Head(<<x>>) = x /\ Tail(<<x>>) = <<>> /\ <<x>> # <<>>
         /\ <<x>> \o <<>> = <<x>> /\ <<>> \o <<x>> = <<x>>
OBVIOUS

\* Sequences of two elements.
LEMMA Two ==
  ASSUME NEW x, NEW y
  PROVE  /\ Head(<<x, y>>) = x /\ Tail(<<x, y>>) = <<y>> /\ <<x, y>> # <<>>
         /\ <<x>> \o <<y>> = <<x, y>> /\ <<x, y>> \o <<>> = <<x, y>>
<1> DEFINE p == <<x, y>>
           S == {x, y}
<1>1. p \in Seq(S) /\ p # <<>> /\ Head(p) = x /\ Tail(p) = <<y>>
  OBVIOUS
<1> HIDE DEF p
<1>2. <<Head(p)>> \o Tail(p) = p /\ p \o <<>> = p
  BY <1>1, Cons, ConcatEmptySeq
<1>3. <<x>> \o <<y>> = p
  BY <1>1, <1>2, Zenon
<1> QED
  BY <1>1, <1>2, <1>3, Zenon DEF p

\* Sequences of three elements.
LEMMA Three ==
  ASSUME NEW x, NEW y, NEW z
  PROVE  /\ Head(<<x, y, z>>) = x /\ Tail(<<x, y, z>>) = <<y, z>> /\ <<x, y, z>> # <<>>
         /\ <<x>> \o <<y, z>> = <<x, y, z>> /\ <<x, y>> \o <<z>> = <<x, y, z>>
<1> DEFINE p == <<x, y, z>>
           S == {x, y, z}
<1>1. p \in Seq(S) /\ p # <<>> /\ Head(p) = x /\ Tail(p) = <<y, z>>
  OBVIOUS
<1>2. <<x>> \in Seq(S) /\ <<y>> \in Seq(S) /\ <<z>> \in Seq(S)
  OBVIOUS
<1> HIDE DEF p, S
<1>3. <<Head(p)>> \o Tail(p) = p
  BY <1>1, Cons
<1>4. <<x>> \o <<y, z>> = p
  BY <1>1, <1>3, Zenon
<1>5. (<<x>> \o <<y>>) \o <<z>> = <<x>> \o (<<y>> \o <<z>>)
  BY <1>2, ConcatAssociative
<1>6. <<x>> \o <<y>> = <<x, y>> /\ <<y>> \o <<z>> = <<y, z>>
  BY Two
<1>7. <<x, y>> \o <<z>> = p
  BY <1>4, <1>5, <1>6, Zenon
<1> QED
  BY <1>1, <1>4, <1>7, Zenon DEF p

\* The first operation of each list, and what is left when it is done.
LEMMA Programs ==
  /\ Head(PostFree) = Activate /\ <<Save>> \o Tail(PostFree) = SaveFree
  /\ Head(SaveFree) = Save /\ Tail(SaveFree) = LimitFree
  /\ Head(LimitFree) = Limit /\ Tail(LimitFree) = SaveOnly
  /\ Head(SaveOnly) = Save /\ Tail(SaveOnly) = <<>>
  /\ \A t : /\ Head(<<Credit(t)>>) = Credit(t)
            /\ BeginTerm \o Tail(<<Credit(t)>>) = BeginTerm
            /\ SaveOnly \o Tail(<<Credit(t)>>) = SaveOnly
            /\ Tail(<<Credit(t)>>) = <<>>
  /\ Head(BeginTerm) = Activate /\ <<Save>> \o Tail(BeginTerm) = SaveTwice
  /\ Tail(BeginTerm) = SaveOnly
  /\ Head(SaveTwice) = Save /\ Tail(SaveTwice) = SaveOnly
  /\ Head(<<Activate>>) = Activate /\ Tail(<<Activate>>) = <<>>
  /\ PostFree # <<>> /\ SaveFree # <<>> /\ LimitFree # <<>>
  /\ SaveOnly # <<>> /\ BeginTerm # <<>> /\ SaveTwice # <<>>
  /\ ((<<Activate>> \o <<Limit>>) \o <<>>) \o <<Save>> = PostFree
  /\ ((<<>> \o <<>>) \o <<>>) \o <<Save>> = SaveOnly
<1>1. Head(PostFree) = Activate /\ <<Save>> \o Tail(PostFree) = SaveFree
  <2>1. Head(PostFree) = Activate /\ Tail(PostFree) = <<Limit, Save>>
    BY Three, Zenon DEF PostFree
  <2>2. <<Save>> \o <<Limit, Save>> = SaveFree
    BY Three, Zenon DEF SaveFree
  <2> QED
    BY <2>1, <2>2, Zenon
<1>2. Head(SaveFree) = Save /\ Tail(SaveFree) = LimitFree
  <2>1. Head(<<Save, Limit, Save>>) = Save /\ Tail(<<Save, Limit, Save>>) = <<Limit, Save>>
    BY Three, Zenon
  <2> QED
    BY <2>1, Zenon DEF SaveFree, LimitFree
<1>3. Head(LimitFree) = Limit /\ Tail(LimitFree) = SaveOnly
  BY Two, Zenon DEF LimitFree, SaveOnly
<1>4. Head(SaveOnly) = Save /\ Tail(SaveOnly) = <<>>
  BY One, Zenon DEF SaveOnly
<1>5. ASSUME NEW t
      PROVE  /\ Head(<<Credit(t)>>) = Credit(t)
             /\ BeginTerm \o Tail(<<Credit(t)>>) = BeginTerm
             /\ SaveOnly \o Tail(<<Credit(t)>>) = SaveOnly
             /\ Tail(<<Credit(t)>>) = <<>>
  BY One, Two, Zenon DEF BeginTerm, SaveOnly
<1>6. /\ Head(BeginTerm) = Activate /\ <<Save>> \o Tail(BeginTerm) = SaveTwice
      /\ Tail(BeginTerm) = SaveOnly
  BY Two, Zenon DEF BeginTerm, SaveOnly, SaveTwice
<1>7. Head(SaveTwice) = Save /\ Tail(SaveTwice) = SaveOnly
  BY Two, Zenon DEF SaveTwice, SaveOnly
<1>8. Head(<<Activate>>) = Activate /\ Tail(<<Activate>>) = <<>>
  BY One, Zenon
<1>9. PostFree # <<>> /\ SaveFree # <<>>
  BY Three, Zenon DEF PostFree, SaveFree
<1>10. LimitFree # <<>> /\ SaveOnly # <<>> /\ BeginTerm # <<>> /\ SaveTwice # <<>>
  BY One, Two, Zenon DEF LimitFree, SaveOnly, BeginTerm, SaveTwice
<1>11. ((<<Activate>> \o <<Limit>>) \o <<>>) \o <<Save>> = PostFree
  <2>1. <<Activate>> \o <<Limit>> = <<Activate, Limit>>
    BY Two, Zenon
  <2>2. <<Activate, Limit>> \o <<>> = <<Activate, Limit>>
    BY Two, Zenon
  <2>3. <<Activate, Limit>> \o <<Save>> = PostFree
    BY Three, Zenon DEF PostFree
  <2> QED
    BY <2>1, <2>2, <2>3, Zenon
<1>12. ((<<>> \o <<>>) \o <<>>) \o <<Save>> = SaveOnly
  <2>1. <<>> \o <<>> = <<>>
    OBVIOUS
  <2>2. <<>> \o <<Save>> = SaveOnly
    BY One, Zenon DEF SaveOnly
  <2> QED
    BY <2>1, <2>2, Zenon
<1> QED
  BY <1>1, <1>2, <1>3, <1>4, <1>5, <1>6, <1>7, <1>8, <1>9, <1>10, <1>11, <1>12, Zenon

\* A request's invariant outlives the steps of others: its row is left alone, or removed.
LEMMA WorkerStays ==
  ASSUME NEW w \in Workers, WorkerOk(w),
         obj'[w] = obj[w], prog'[w] = prog[w], issued \subseteq issued',
         Charged(obj[w].sid)' = Charged(obj[w].sid),
         db'[obj[w].sid] \in {db[obj[w].sid], None}
  PROVE  WorkerOk(w)'
BY DEF WorkerOk, Settled

\* So does the wallet's, when a row is removed only past its expiry.
LEMMA WalletStays ==
  ASSUME LedgerInv, WalletOk, ~Idle(Wallet), clock' \in Nat, clock <= clock',
         obj'[Wallet] = obj[Wallet], prog'[Wallet] = prog[Wallet],
         Charged(obj[Wallet].sid) => Charged(obj[Wallet].sid)',
         \/ db'[obj[Wallet].sid] = db[obj[Wallet].sid]
         \/ db'[obj[Wallet].sid] = None /\ ~IsFresh(db[obj[Wallet].sid], clock)
  PROVE  WalletOk'
<1> DEFINE s == obj[Wallet].sid
           d == obj[Wallet].data
<1>1. /\ obj[Wallet] \in GoodHeld /\ s \in Sids /\ d \in GoodSession
      /\ db[s] \in GoodSession \cup {None} /\ clock \in Nat
  BY LedgerTypes, ActorsApart DEF GoodHeld
<1>2. d.expires \in Nat /\ (db[s] # None => db[s].expires \in Nat)
  BY <1>1 DEF GoodSession, Session
<1>3. ~IsFresh(d, clock) => ~IsFresh(d, clock')
  BY <1>1, <1>2 DEF IsFresh
<1>4. Supersedes(d, s) => Supersedes(d, s)'
  <2>1. CASE db'[s] = db[s]
    BY <1>3, <2>1 DEF Supersedes
  <2>2. CASE db'[s] = None /\ ~IsFresh(db[s], clock)
    <3>1. ASSUME Supersedes(d, s), db[s] # None, ~IsActive(d) PROVE ~IsFresh(d, clock)
      BY <1>1, <1>2, <2>2, <3>1 DEF Supersedes, IsFresh, IsActive
    <3>2. Supersedes(d, s) => IsActive(d) \/ d.payments = {} \/ ~IsFresh(d, clock)
      BY <3>1 DEF Supersedes
    <3> QED
      BY <1>3, <2>2, <3>2 DEF Supersedes
  <2> QED
    BY <2>1, <2>2
<1> QED
  BY <1>1, <1>3, <1>4 DEF WalletOk, Settled

\* No two of them, the wallet and the requests, work on the same session.
LEMMA Alone ==
  ASSUME LedgerInv, NEW a \in Workers \cup {Wallet}, NEW b \in Workers \cup {Wallet},
         a # b, ~Idle(a), ~Idle(b)
  PROVE  obj[a].sid # obj[b].sid
<1>1. \A w \in Workers : ~Idle(w) => ~Charged(obj[w].sid)
  BY DEF LedgerInv, WorkersOk, WorkerOk
<1>2. ~Idle(Wallet) => Charged(obj[Wallet].sid)
  BY DEF LedgerInv, WalletOk
<1> QED
  BY <1>1, <1>2 DEF LedgerInv, Apart

\* Continue changes the object and the operations of one actor.
LEMMA Continued ==
  ASSUME LedgerInv, NEW a \in Actors, NEW o, NEW p, Continue(a, o, p)
  PROVE  /\ prog'[a] = p /\ (Idle(a)' <=> p = <<>>)
         /\ p # <<>> => obj'[a] = o
         /\ \A b \in Actors \ {a} : prog'[b] = prog[b] /\ obj'[b] = obj[b]
BY LedgerTypes DEF Continue, Idle

(***************************************************************************)
(* The parts of the invariant about the other actors, in a step of actor a *)
(* that works on no session of theirs.                                     *)
(***************************************************************************)
LEMMA Frame ==
  ASSUME LedgerInv, NEW a \in Actors,
         \A b \in Actors \ {a} : prog'[b] = prog[b] /\ obj'[b] = obj[b],
         UNCHANGED <<mined, clock>>, issued \subseteq issued',
         \A b \in (Workers \cup {Wallet}) \ {a} :
            ~Idle(b) => db'[obj[b].sid] = db[obj[b].sid]
  PROVE  /\ \A w \in Workers \ {a} : ~Idle(w)' => WorkerOk(w)'
         /\ a # Wallet => (~Idle(Wallet)' => WalletOk')
         /\ a # Refresher => (~Idle(Refresher)' => /\ prog'[Refresher] = <<Activate>>
                                                   /\ ~CanActivate(obj'[Refresher].data))
<1>1. \A s : Charged(s)' = Charged(s)
  BY DEF Charged, MinedFor
<1>2. ASSUME NEW w \in Workers \ {a}, ~Idle(w)' PROVE WorkerOk(w)'
  <2>1. w \in Actors /\ ~Idle(w) /\ obj'[w] = obj[w] /\ prog'[w] = prog[w]
    BY <1>2, ActorsApart DEF Idle
  <2>2. WorkerOk(w)
    BY <2>1 DEF LedgerInv, WorkersOk
  <2> QED
    BY <1>1, <2>1, <2>2, WorkerStays
<1>3. ASSUME a # Wallet, ~Idle(Wallet)' PROVE WalletOk'
  <2>1. ~Idle(Wallet) /\ obj'[Wallet] = obj[Wallet] /\ prog'[Wallet] = prog[Wallet]
    BY <1>3, ActorsApart DEF Idle
  <2>2. WalletOk /\ clock' \in Nat /\ clock <= clock'
    BY <2>1, LedgerTypes DEF LedgerInv
  <2>3. db'[obj[Wallet].sid] = db[obj[Wallet].sid]
    BY <1>3, <2>1
  <2> QED
    BY <1>1, <2>1, <2>2, <2>3, WalletStays
<1>4. ASSUME a # Refresher, ~Idle(Refresher)'
      PROVE  prog'[Refresher] = <<Activate>> /\ ~CanActivate(obj'[Refresher].data)
  BY <1>4, ActorsApart DEF LedgerInv, RefresherOk, Idle
<1> QED
  BY <1>2, <1>3, <1>4

\* An actor that goes on with the session it works on, or stops, stays apart.
LEMMA StillApart ==
  ASSUME LedgerInv, NEW a \in Actors,
         \A b \in Actors \ {a} : prog'[b] = prog[b] /\ obj'[b] = obj[b],
         ~Idle(a)' => ~Idle(a) /\ obj'[a].sid = obj[a].sid
  PROVE  Apart'
<1>1. \A b \in Workers : ~Idle(b)' => ~Idle(b) /\ obj'[b].sid = obj[b].sid
  BY ActorsApart DEF Idle
<1> QED
  BY <1>1 DEF LedgerInv, Apart

-------------------------------------------------------------------------------
(***************************************************************************)
(* The steps of the actors on their objects.                               *)
(***************************************************************************)

\* What the parts about rows, transfers and the refresher's list need of such a step.
LEMMA OperateFrame ==
  ASSUME LedgerInv, NEW a \in Actors, Operate(a)
  PROVE  UNCHANGED <<mined, clock, issued, batch>>
BY DEF Operate, DoActivate, DoSave, DoCredit, DoPrepare, DoLimit, store, chain, wallet, refresh,
       budget

\* An operation is done by the action of its name.
LEMMA Dispatch ==
  ASSUME NEW a \in Actors, Operate(a)
  PROVE  /\ ~Idle(a)
         /\ Head(prog[a]).do = "activate" => DoActivate(a)
         /\ Head(prog[a]).do = "save" => DoSave(a)
         /\ Head(prog[a]).do = "limit" => DoLimit(a)
         /\ Head(prog[a]).do = "credit" => DoCredit(a)
BY DEF Operate, DoActivate, DoSave, DoCredit, DoPrepare, DoLimit, Doing

\* Only save() writes a row: the object, unless it has expired.
LEMMA Saved ==
  ASSUME LedgerInv, NEW a \in Actors, DoSave(a)
  PROVE  LET s == obj[a].sid IN
         \/ /\ IsFresh(obj[a].data, clock)
            /\ db'[s] = obj[a].data /\ deleted' = deleted \ {s}
            /\ \A r \in Sids \ {s} : db'[r] = db[r]
         \/ UNCHANGED <<db, deleted>>
<1>1. ~Idle(a) /\ obj[a] \in GoodHeld /\ obj[a].sid \in Sids
  BY LedgerTypes DEF DoSave, Doing, GoodHeld
<1>2. CASE IsFresh(obj[a].data, clock)
  BY <1>1, <1>2, LedgerTypes DEF DoSave
<1>3. CASE ~IsFresh(obj[a].data, clock)
  BY <1>3 DEF DoSave
<1> QED
  BY <1>2, <1>3

\* The steps of a request.
LEMMA WorkerStep ==
  ASSUME PlainServer, LedgerInv, NEW w \in Workers, Operate(w)
  PROVE  /\ ~Idle(w)' => WorkerOk(w)' /\ obj'[w].sid = obj[w].sid
         /\ DoSave(w) => Settled(obj[w].data) /\ Supersedes(obj[w].data, obj[w].sid)
         /\ ~DoSave(w) => UNCHANGED <<db, deleted>>
<1> DEFINE s == obj[w].sid
           d == obj[w].data
<1>1. w \in Actors /\ ~Idle(w) /\ obj[w] \in GoodHeld /\ s \in Sids /\ d \in GoodSession
      /\ d # None /\ clock # 0
  BY Dispatch, LedgerTypes, ActorsApart DEF GoodHeld
<1>2. WorkerOk(w)
  BY <1>1 DEF LedgerInv, WorkersOk
<1>3. UNCHANGED <<mined, clock, issued, batch>> /\ \A r : Charged(r)' = Charged(r)
  BY <1>1, OperateFrame DEF Charged, MinedFor
<1>4. d \in Session
  BY <1>1 DEF GoodSession
<1>5. CASE prog[w] = PostFree /\ CanActivate(d) /\ IsFree(d.gate)
  <2>1. Head(prog[w]) = Activate /\ <<Save>> \o Tail(prog[w]) = SaveFree
    BY <1>5, Programs
  <2>2. DoActivate(w)
    BY <1>1, <2>1, Dispatch, OpNames
  <2> DEFINE o == [obj[w] EXCEPT !.data = Activated(d, clock)]
  <2>3. Continue(w, o, SaveFree)
    BY <1>5, <2>1, <2>2 DEF DoActivate
  <2>4. prog'[w] = SaveFree /\ obj'[w] = o
    BY <1>1, <2>3, Continued, Programs
  <2>5. o.sid = s /\ o.data = Activated(d, clock)
    BY <1>1 DEF GoodHeld
  <2> HIDE DEF o
  <2>6. /\ o.data.payments = d.payments /\ o.data.gate = d.gate
        /\ o.data.activated = clock
    BY <1>4, <2>5 DEF Activated, Session
  <2>7. db[s] = None
    BY <1>2, <1>5 DEF WorkerOk, CanActivate
  <2>8. UNCHANGED store /\ ~DoSave(w)
    BY <2>1, <2>2, OpNames DEF DoActivate, DoSave, Doing
  <2>9. WorkerOk(w)'
    BY <1>1, <1>2, <1>3, <1>5, <2>4, <2>5, <2>6, <2>7, <2>8 DEF WorkerOk, IsActive, store
  <2> QED
    BY <2>4, <2>5, <2>8, <2>9 DEF store
<1>6. ASSUME Head(prog[w]) = Save, Settled(d),
             Tail(prog[w]) # <<>> => Tail(prog[w]) = LimitFree /\ IsActive(d)
      PROVE  /\ ~Idle(w)' => WorkerOk(w)' /\ obj'[w].sid = obj[w].sid
             /\ DoSave(w) /\ Settled(d) /\ Supersedes(d, s)
  <2>1. DoSave(w)
    BY <1>1, <1>6, Dispatch, OpNames
  <2>2. Continue(w, obj[w], Tail(prog[w]))
    BY <2>1 DEF DoSave
  <2>3. prog'[w] = Tail(prog[w]) /\ (prog'[w] # <<>> => obj'[w] = obj[w])
    BY <1>1, <2>2, Continued
  <2>4. db'[s] \in {d, db[s]}
    BY <1>1, <2>1, Saved
  <2>5. prog'[w] # <<>> => WorkerOk(w)'
    BY <1>2, <1>3, <1>6, <2>3, <2>4 DEF WorkerOk, Settled
  <2>6. Supersedes(d, s)
    BY <1>2 DEF WorkerOk, Supersedes
  <2> QED
    BY <1>6, <2>1, <2>3, <2>5, <2>6 DEF Idle
<1>7. CASE prog[w] = LimitFree /\ Settled(d)
  <2>1. Head(prog[w]) = Limit /\ Tail(prog[w]) = SaveOnly
    BY <1>7, Programs
  <2>2. DoLimit(w)
    BY <1>1, <2>1, Dispatch, OpNames
  <2>3. \E p \in {<<>>, SaveOnly} : Continue(w, obj[w], p)
    BY <2>1, <2>2 DEF DoLimit
  <2>4. prog'[w] \in {<<>>, SaveOnly} /\ (prog'[w] # <<>> => obj'[w] = obj[w])
    BY <1>1, <2>3, Continued
  <2>5. UNCHANGED store /\ ~DoSave(w)
    BY <2>1, <2>2, OpNames DEF DoLimit, DoSave, Doing
  <2>6. prog'[w] # <<>> => WorkerOk(w)'
    BY <1>2, <1>3, <1>7, <2>4, <2>5 DEF WorkerOk, Settled, store
  <2> QED
    BY <2>4, <2>5, <2>6 DEF Idle, store
<1>8. CASE prog[w] = SaveFree /\ IsActive(d)
  BY <1>6, <1>8, Programs DEF Settled
<1>9. CASE prog[w] = SaveOnly /\ Settled(d)
  BY <1>6, <1>9, Programs
<1> QED
  BY <1>2, <1>5, <1>7, <1>8, <1>9 DEF WorkerOk

\* A copy of a row to which a transfer is credited may replace the row.
LEMMA CreditSupersedes ==
  ASSUME NEW s, NEW d \in Session, NEW t \in Txs, TxAmount[t] \in Nat,
         db[s] = d \/ (db[s] = None /\ (IsActive(d) \/ ~IsFresh(d, clock))),
         d # None
  PROVE  Supersedes(Credited(d, t), s)
<1> DEFINE e == Credited(d, t)
<1>1. /\ e.payments = d.payments \cup {t} /\ e.expires = d.expires
      /\ e.activated = d.activated
  BY DEF Credited, Session
<1> HIDE DEF e
<1>2. Supersedes(e, s)
  BY <1>1 DEF Supersedes, IsActive, IsFresh
<1> QED
  BY <1>2 DEF e

\* An active copy may replace whatever the copy it was activated from might.
LEMMA ActivatedSupersedes ==
  ASSUME NEW s, NEW d \in Session, ~IsActive(d), Supersedes(d, s), clock # 0
  PROVE  Supersedes(Activated(d, clock), s) /\ IsActive(Activated(d, clock))
<1> DEFINE e == Activated(d, clock)
<1>1. e.payments = d.payments /\ e.activated = clock
  BY DEF Activated, Session
<1> HIDE DEF e
<1>2. Supersedes(e, s) /\ IsActive(e)
  BY <1>1 DEF Supersedes, IsActive
<1> QED
  BY <1>2 DEF e

\* The steps of the wallet on the session of a transfer.
LEMMA WalletActs ==
  ASSUME PlainServer, LedgerInv, Operate(Wallet)
  PROVE  /\ ~Idle(Wallet)' => WalletOk' /\ obj'[Wallet].sid = obj[Wallet].sid
         /\ DoSave(Wallet) => /\ Settled(obj[Wallet].data)
                              /\ Supersedes(obj[Wallet].data, obj[Wallet].sid)
         /\ ~DoSave(Wallet) => UNCHANGED <<db, deleted>>
<1> DEFINE s == obj[Wallet].sid
           d == obj[Wallet].data
<1>1. /\ Wallet \in Actors /\ ~Idle(Wallet) /\ obj[Wallet] \in GoodHeld /\ s \in Sids
      /\ d \in GoodSession /\ d \in Session /\ d # None /\ clock # 0
  BY Dispatch, LedgerTypes, ActorsApart DEF GoodHeld, GoodSession
<1>2. WalletOk /\ Charged(s)
  BY <1>1 DEF LedgerInv, WalletOk
<1>3. UNCHANGED <<mined, clock, issued, batch>> /\ \A r : Charged(r)' = Charged(r)
  BY <1>1, OperateFrame DEF Charged, MinedFor
<1>4. d.credit \in Nat /\ d.price \in Int
  BY <1>1 DEF Session
<1>5. \A e, r : UNCHANGED store => Supersedes(e, r)' = Supersedes(e, r)
  BY <1>3 DEF Supersedes, store
<1>6. ASSUME NEW t \in Txs, prog[Wallet] = <<Credit(t)>>,
             db[s] = d \/ (db[s] = None /\ (IsActive(d) \/ ~IsFresh(d, clock)))
      PROVE  /\ ~Idle(Wallet)' => WalletOk' /\ obj'[Wallet].sid = s
             /\ ~DoSave(Wallet) /\ UNCHANGED <<db, deleted>>
  <2>1. Head(prog[Wallet]).do = "credit" /\ Head(prog[Wallet]).tx = t
    BY <1>6, Programs, OpNames
  <2>2. DoCredit(Wallet) /\ ~DoSave(Wallet) /\ UNCHANGED store
    BY <1>1, <2>1, Dispatch DEF DoSave, Doing, DoCredit
  <2> DEFINE e == Credited(d, t)
             o == [obj[Wallet] EXCEPT !.data = e]
  <2>3. CASE t \in d.payments
    <3>1. Continue(Wallet, obj[Wallet], <<>>)
      BY <1>6, <2>1, <2>2, <2>3, Programs DEF DoCredit
    <3> QED
      BY <1>1, <2>2, <3>1, Continued DEF store
  <2>4. CASE t \notin d.payments
    <3>1. Continue(Wallet, o, IF e.paid THEN BeginTerm \o Tail(prog[Wallet])
                                        ELSE SaveOnly \o Tail(prog[Wallet]))
      BY <2>1, <2>2, <2>4 DEF DoCredit, BeginTerm, SaveOnly
    <3>2. Continue(Wallet, o, IF e.paid THEN BeginTerm ELSE SaveOnly)
      BY <1>6, <3>1, Programs
    <3>3. obj'[Wallet] = o /\ prog'[Wallet] = IF e.paid THEN BeginTerm ELSE SaveOnly
      BY <1>1, <3>2, Continued, Programs
    <3>4. o.sid = s /\ o.data = e
      BY <1>1 DEF GoodHeld
    <3>5. TxAmount[t] \in Nat
      BY TxAssumption
    <3>6. Supersedes(e, s)
      BY <1>1, <1>6, <3>5, CreditSupersedes
    <3>7. IF e.paid THEN e.credit >= e.price ELSE e.credit < e.price
      <4> DEFINE c == d.credit + TxAmount[t]
      <4>1. c \in Nat
        BY <1>4, <3>5
      <4>2. e.credit = c /\ e.price = d.price /\ e.paid = (c >= d.price)
        BY <1>1 DEF Credited, Session
      <4> HIDE DEF c, e
      <4>3. c >= d.price \/ c < d.price
        BY <1>4, <4>1
      <4> QED
        BY <4>2, <4>3
    <3> HIDE DEF e, o
    <3>8. WalletOk'
      BY <1>2, <1>3, <1>5, <2>2, <3>3, <3>4, <3>6, <3>7 DEF WalletOk, Settled
    <3> QED
      BY <2>2, <3>3, <3>4, <3>8 DEF store
  <2> QED
    BY <2>3, <2>4
<1>7. ASSUME prog[Wallet] = BeginTerm, d.credit >= d.price, Supersedes(d, s)
      PROVE  /\ ~Idle(Wallet)' => WalletOk' /\ obj'[Wallet].sid = s
             /\ ~DoSave(Wallet) /\ UNCHANGED <<db, deleted>>
  <2>1. Head(prog[Wallet]).do = "activate"
    BY <1>7, Programs, OpNames
  <2>2. DoActivate(Wallet) /\ ~DoSave(Wallet) /\ UNCHANGED store
    BY <1>1, <2>1, Dispatch DEF DoSave, Doing, DoActivate
  <2> DEFINE e == Activated(d, clock)
             o == [obj[Wallet] EXCEPT !.data = e]
  <2>3. CASE CanActivate(d)
    <3>1. Continue(Wallet, o, <<Save>> \o Tail(prog[Wallet]))
      BY <2>2, <2>3 DEF DoActivate
    <3>2. Continue(Wallet, o, SaveTwice)
      BY <1>7, <3>1, Programs
    <3>3. obj'[Wallet] = o /\ prog'[Wallet] = SaveTwice
      BY <1>1, <3>2, Continued, Programs
    <3>4. o.sid = s /\ o.data = e
      BY <1>1 DEF GoodHeld
    <3>5. Supersedes(e, s) /\ IsActive(e)
      BY <1>1, <1>7, <2>3, ActivatedSupersedes DEF CanActivate
    <3> HIDE DEF e, o
    <3>6. WalletOk'
      BY <1>2, <1>3, <1>5, <2>2, <3>3, <3>4, <3>5 DEF WalletOk, Settled
    <3> QED
      BY <2>2, <3>3, <3>4, <3>6 DEF store
  <2>4. CASE ~CanActivate(d)
    <3>1. Continue(Wallet, obj[Wallet], SaveOnly)
      BY <1>7, <2>2, <2>4, Programs DEF DoActivate
    <3>2. obj'[Wallet] = obj[Wallet] /\ prog'[Wallet] = SaveOnly
      BY <1>1, <3>1, Continued, Programs
    <3>3. IsActive(d)
      BY <1>7, <2>4, PlainLoad
    <3>4. WalletOk'
      BY <1>2, <1>3, <1>5, <1>7, <2>2, <3>2, <3>3 DEF WalletOk, Settled
    <3> QED
      BY <2>2, <3>2, <3>4 DEF store
  <2> QED
    BY <2>3, <2>4
<1>8. ASSUME prog[Wallet] \in {SaveOnly, SaveTwice}, Settled(d), Supersedes(d, s)
      PROVE  /\ ~Idle(Wallet)' => WalletOk' /\ obj'[Wallet].sid = s
             /\ DoSave(Wallet)
  <2>1. Head(prog[Wallet]).do = "save" /\ Tail(prog[Wallet]) \in {SaveOnly, <<>>}
    BY <1>8, Programs, OpNames
  <2>2. DoSave(Wallet)
    BY <1>1, <2>1, Dispatch
  <2>3. Continue(Wallet, obj[Wallet], Tail(prog[Wallet]))
    BY <2>2 DEF DoSave
  <2>4. prog'[Wallet] = Tail(prog[Wallet]) /\ (prog'[Wallet] # <<>> => obj'[Wallet] = obj[Wallet])
    BY <1>1, <2>3, Continued
  <2>5. db'[s] = d \/ db'[s] = db[s]
    BY <1>1, <2>2, Saved
  <2>6. ASSUME NEW e, NEW r, e = d, r = s PROVE Supersedes(e, r)'
    BY <1>1, <1>3, <1>8, <2>5, <2>6 DEF Supersedes
  <2>7. prog'[Wallet] # <<>> => WalletOk'
    BY <1>2, <1>3, <1>8, <2>1, <2>4, <2>6 DEF WalletOk, Settled
  <2> QED
    BY <2>2, <2>4, <2>7 DEF Idle
<1> QED
  BY <1>2, <1>6, <1>7, <1>8 DEF WalletOk

\* The refresher's attempts change nothing.
LEMMA RefresherActs ==
  ASSUME LedgerInv, Operate(Refresher)
  PROVE  Idle(Refresher)' /\ UNCHANGED <<db, deleted>> /\ ~DoSave(Refresher)
<1>1. Refresher \in Actors /\ ~Idle(Refresher)
  BY ActorsApart, Dispatch
<1>2. prog[Refresher] = <<Activate>> /\ ~CanActivate(obj[Refresher].data)
  BY <1>1 DEF LedgerInv, RefresherOk
<1>3. DoActivate(Refresher) /\ Tail(prog[Refresher]) = <<>> /\ ~DoSave(Refresher)
  BY <1>1, <1>2, Programs, OpNames, Dispatch DEF DoSave, Doing
<1>4. Continue(Refresher, obj[Refresher], <<>>) /\ UNCHANGED store
  BY <1>2, <1>3 DEF DoActivate
<1> QED
  BY <1>1, <1>3, <1>4, Continued DEF store

-------------------------------------------------------------------------------
(***************************************************************************)
(* The invariant.                                                          *)
(***************************************************************************)

\* A row stays in order while it is left alone: time only brings its expiry nearer.
LEMMA RowStays ==
  ASSUME LedgerInv, NEW s \in Sids, db[s] # None, RowOk(s),
         db'[s] = db[s], issued \subseteq issued', clock' \in Nat, clock <= clock',
         s \in deleted' => s \in deleted \/ ~IsFresh(db[s], clock)
  PROVE  RowOk(s)'
<1>1. db[s].expires \in Nat /\ clock \in Nat
  BY LedgerTypes DEF GoodSession, Session
<1> QED
  BY <1>1 DEF RowOk, IsFresh

\* A worker's operation on the session in its hands.
LEMMA OperateStep ==
  ASSUME PlainServer, LedgerInv, NEW a \in Actors, Operate(a), MinedInv'
  PROVE  LedgerInv'
<1> DEFINE s == obj[a].sid
           d == obj[a].data
<1>1. ~Idle(a) /\ s \in Sids /\ d \in GoodSession
  BY Dispatch, LedgerTypes DEF GoodHeld
<1>2. UNCHANGED <<mined, clock, issued, batch>> /\ \A r : Charged(r)' = Charged(r)
  BY OperateFrame DEF Charged, MinedFor
<1>3. /\ ~Idle(a)' => obj'[a].sid = s
      /\ DoSave(a) => a \in Workers \cup {Wallet} /\ Settled(d) /\ Supersedes(d, s)
      /\ ~DoSave(a) => UNCHANGED <<db, deleted>>
      /\ a \in Workers => (~Idle(a)' => WorkerOk(a)')
      /\ a = Wallet => (~Idle(Wallet)' => WalletOk')
      /\ a = Refresher => Idle(Refresher)'
  BY WorkerStep, WalletActs, RefresherActs DEF Actors
<1>4. \A b \in Actors \ {a} : prog'[b] = prog[b] /\ obj'[b] = obj[b]
  <2>1. \E o, p : Continue(a, o, p)
    BY DEF Operate, DoActivate, DoSave, DoCredit, DoPrepare, DoLimit
  <2> QED
    BY <2>1, Continued
<1>5. \/ UNCHANGED <<db, deleted>>
      \/ /\ DoSave(a) /\ db'[s] = d /\ deleted' = deleted \ {s}
         /\ \A r \in Sids \ {s} : db'[r] = db[r]
  BY <1>3, Saved
<1>6. \A b \in (Workers \cup {Wallet}) \ {a} :
         ~Idle(b) => db'[obj[b].sid] = db[obj[b].sid]
  <2> SUFFICES ASSUME NEW b \in (Workers \cup {Wallet}) \ {a}, ~Idle(b)
               PROVE  db'[obj[b].sid] = db[obj[b].sid]
    OBVIOUS
  <2>1. obj[b].sid \in Sids
    BY LedgerTypes, ActorsApart DEF GoodHeld
  <2>2. DoSave(a) => obj[b].sid # s
    BY <1>1, <1>3, Alone
  <2> QED
    BY <1>5, <2>1, <2>2
<1>7. /\ \A w \in Workers \ {a} : ~Idle(w)' => WorkerOk(w)'
      /\ a # Wallet => (~Idle(Wallet)' => WalletOk')
      /\ a # Refresher => (~Idle(Refresher)' => /\ prog'[Refresher] = <<Activate>>
                                                /\ ~CanActivate(obj'[Refresher].data))
  BY <1>2, <1>4, <1>6, Frame
<1>8. WorkersOk' /\ (~Idle(Wallet)' => WalletOk')
  BY <1>3, <1>7 DEF WorkersOk
<1>9. RefresherOk'
  BY <1>2, <1>3, <1>7 DEF LedgerInv, RefresherOk
<1>10. Apart'
  BY <1>1, <1>3, <1>4, StillApart
<1>11. RowsOk'
  <2> SUFFICES ASSUME NEW r \in Sids, db'[r] # None PROVE RowOk(r)'
    BY DEF RowsOk
  <2>1. CASE db'[r] = db[r] /\ (r \in deleted' => r \in deleted)
    BY <1>2, <2>1, RowStays, LedgerTypes DEF LedgerInv, RowsOk
  <2>2. CASE r = s /\ DoSave(a) /\ db'[s] = d /\ deleted' = deleted \ {s}
    <3>1. s \in issued
      BY <1>1, <1>3, <2>2 DEF LedgerInv, WorkersOk, WorkerOk, WalletOk, ChargedOk
    <3> QED
      BY <1>2, <1>3, <2>2, <3>1 DEF RowOk, Settled
  <2> QED
    BY <1>5, <2>1, <2>2
<1>12. ChargedOk'
  BY <1>2 DEF LedgerInv, ChargedOk
<1> QED
  BY <1>8, <1>9, <1>10, <1>11, <1>12 DEF LedgerInv

\* The wallet's round: a session is read, and nobody else works on it.
LEMMA WalletStepLedger ==
  ASSUME PlainServer, LedgerInv, WalletStep, MinedInv'
  PROVE  LedgerInv'
<1>1. CASE Scan \/ ScanFailed
  <2>1. UNCHANGED <<store, clock, chain, objects, refresh>>
    BY <1>1 DEF Scan, ScanFailed
  <2> QED
    BY <2>1 DEF LedgerInv, RowsOk, RowOk, ChargedOk, WorkersOk, WorkerOk, Apart, WalletOk,
                RefresherOk, Supersedes, Charged, MinedFor, Idle, store, chain, objects, refresh
<1>2. ASSUME NEW t \in Txs, ProcessPayment(t) PROVE LedgerInv'
  <2> DEFINE s == TxSession[t]
  <2>1. s \in Sids /\ Charged(s) /\ Idle(Wallet)
    BY <1>2, LedgerTypes, SidAssumption DEF ProcessPayment, Charged, MinedFor
  <2>2. UNCHANGED <<store, peers, clock, chain, refresh>> /\ \A r : Charged(r)' = Charged(r)
    BY <1>2 DEF ProcessPayment, Charged, MinedFor, chain
  <2>3. CASE Visible(s)
    <3>1. Continue(Wallet, [sid |-> s, data |-> db[s]], <<Credit(t)>>)
      BY <1>2, <2>3, PlainLoad, One DEF ProcessPayment, Read
    <3>2. /\ prog'[Wallet] = <<Credit(t)>> /\ obj'[Wallet] = [sid |-> s, data |-> db[s]]
          /\ \A b \in Actors \ {Wallet} : prog'[b] = prog[b] /\ obj'[b] = obj[b]
      BY <3>1, Continued, One, ActorsApart
    <3>3. WalletOk'
      BY <2>1, <2>2, <3>2 DEF WalletOk, store
    <3>4. /\ \A w \in Workers \ {Wallet} : ~Idle(w)' => WorkerOk(w)'
          /\ (~Idle(Refresher)' => /\ prog'[Refresher] = <<Activate>>
                                   /\ ~CanActivate(obj'[Refresher].data))
      BY <2>2, <3>2, Frame, ActorsApart DEF store, chain
    <3>5. WorkersOk' /\ Apart'
      BY <3>2, <3>4, ActorsApart DEF WorkersOk, Apart, LedgerInv, Idle
    <3>6. RefresherOk'
      BY <2>2, <3>4 DEF RefresherOk, LedgerInv, refresh
    <3>7. RowsOk' /\ ChargedOk'
      BY <2>2 DEF LedgerInv, RowsOk, RowOk, ChargedOk, store
    <3> QED
      BY <3>3, <3>5, <3>6, <3>7 DEF LedgerInv
  <2>4. CASE ~Visible(s)
    <3>1. UNCHANGED objects
      BY <1>2, <2>4 DEF ProcessPayment
    <3> QED
      BY <2>2, <3>1 DEF LedgerInv, RowsOk, RowOk, ChargedOk, WorkersOk, WorkerOk, Apart,
                        WalletOk, RefresherOk, Supersedes, Idle, store, objects, refresh
  <2> QED
    BY <2>3, <2>4
<1> QED
  BY <1>1, <1>2 DEF WalletStep

\* A refresh removes expired rows and lists sessions that cannot be activated.
LEMMA RefreshStepLedger ==
  ASSUME PlainServer, LedgerInv, RefreshStep, MinedInv'
  PROVE  LedgerInv'
<1>1. CASE Cleanup
  <2>1. UNCHANGED <<issued, clock, chain, objects, batch>> /\ \A r : Charged(r)' = Charged(r)
    BY <1>1 DEF Cleanup, Charged, MinedFor, chain
  <2>2. \A s \in Sids : db'[s] = db[s] \/ (db'[s] = None /\ (db[s] = None \/ ~IsFresh(db[s], clock)))
    <3>1. ASSUME NEW s \in Sids, db'[s] # db[s], db[s] # None
          PROVE  db'[s] = None /\ ~IsFresh(db[s], clock)
      <4>1. db'[s] = None /\ (s \in deleted \/ ~IsFresh(db[s], clock))
        BY <1>1, <3>1 DEF Cleanup
      <4> QED
        BY <3>1, <4>1 DEF LedgerInv, RowsOk, RowOk
    <3>2. \A s \in Sids : db'[s] = db[s] \/ db'[s] = None
      BY <1>1 DEF Cleanup
    <3> QED
      BY <3>1, <3>2
  <2>3. RowsOk'
    <3> SUFFICES ASSUME NEW s \in Sids, db'[s] # None PROVE RowOk(s)'
      BY DEF RowsOk
    <3>1. db'[s] = db[s] /\ (s \in deleted' => s \in deleted \/ ~IsFresh(db[s], clock))
      BY <1>1, <2>2 DEF Cleanup
    <3> QED
      BY <2>1, <3>1, RowStays, LedgerTypes DEF LedgerInv, RowsOk
  <2>4. WorkersOk'
    <3> SUFFICES ASSUME NEW w \in Workers, ~Idle(w)' PROVE WorkerOk(w)'
      BY DEF WorkersOk
    <3>1. ~Idle(w) /\ obj'[w] = obj[w] /\ prog'[w] = prog[w] /\ obj[w].sid \in Sids
      BY <2>1, LedgerTypes, ActorsApart DEF objects, Idle, GoodHeld
    <3>2. db'[obj[w].sid] \in {db[obj[w].sid], None}
      BY <2>2, <3>1
    <3> QED
      BY <2>1, <3>1, <3>2, WorkerStays DEF LedgerInv, WorkersOk
  <2>5. ~Idle(Wallet)' => WalletOk'
    <3> SUFFICES ASSUME ~Idle(Wallet)' PROVE WalletOk'
      OBVIOUS
    <3>1. /\ ~Idle(Wallet) /\ obj'[Wallet] = obj[Wallet] /\ prog'[Wallet] = prog[Wallet]
          /\ obj[Wallet].sid \in Sids
      BY <2>1, LedgerTypes, ActorsApart DEF objects, Idle, GoodHeld
    <3>2. \/ db'[obj[Wallet].sid] = db[obj[Wallet].sid]
          \/ db'[obj[Wallet].sid] = None /\ ~IsFresh(db[obj[Wallet].sid], clock)
      BY <2>2, <3>1
    <3>3. WalletOk /\ clock' \in Nat /\ clock <= clock'
      BY <2>1, <3>1, LedgerTypes DEF LedgerInv
    <3> QED
      BY <2>1, <3>1, <3>2, <3>3, WalletStays
  <2>6. ChargedOk' /\ Apart' /\ RefresherOk'
    BY <2>1 DEF LedgerInv, ChargedOk, Apart, RefresherOk, objects, Idle
  <2> QED
    BY <2>3, <2>4, <2>5, <2>6 DEF LedgerInv
<1>2. CASE FindInactive \/ Report
  <2>1. UNCHANGED <<store, clock, chain, objects>> /\ Idle(Refresher)
    BY <1>2 DEF FindInactive, Report
  <2>2. \A o \in batch' : ~CanActivate(o.data)
    <3>1. CASE FindInactive
      <4>1. \A o \in batch' : \E s \in Sids : db[s] # None /\ ~IsActive(db[s]) /\ o.data = db[s]
        BY <3>1, PlainLoad DEF FindInactive, Visible
      <4>2. \A s \in Sids : db[s] # None => db[s].credit \in Nat /\ db[s].price \in Int
        BY LedgerTypes DEF GoodSession, Session
      <4> QED
        BY <4>1, <4>2, PlainLoad DEF LedgerInv, RowsOk, RowOk
    <3>2. CASE Report
      BY <3>2, PlainLoad DEF Report
    <3> QED
      BY <1>2, <3>1, <3>2
  <2>3. RefresherOk'
    BY <2>1, <2>2 DEF RefresherOk, Idle, objects
  <2> QED
    BY <2>1, <2>3 DEF LedgerInv, RowsOk, RowOk, ChargedOk, WorkersOk, WorkerOk, Apart, WalletOk,
                      Supersedes, Charged, MinedFor, Idle, store, chain, objects
<1>3. CASE TakeNext
  <2>1. PICK o \in batch : batch' = batch \ {o} /\ Continue(Refresher, o, <<Activate>>)
    BY <1>3 DEF TakeNext
  <2>2. UNCHANGED <<store, clock, chain>> /\ \A r : Charged(r)' = Charged(r)
    BY <1>3 DEF TakeNext, Charged, MinedFor, chain
  <2>3. /\ prog'[Refresher] = <<Activate>> /\ obj'[Refresher] = o
        /\ \A b \in Actors \ {Refresher} : prog'[b] = prog[b] /\ obj'[b] = obj[b]
    BY <2>1, Continued, One, ActorsApart
  <2>4. RefresherOk'
    BY <2>1, <2>3 DEF LedgerInv, RefresherOk
  <2>5. /\ \A w \in Workers \ {Refresher} : ~Idle(w)' => WorkerOk(w)'
        /\ ~Idle(Wallet)' => WalletOk'
    BY <2>2, <2>3, Frame, ActorsApart DEF store, chain
  <2>6. WorkersOk' /\ Apart'
    BY <2>3, <2>5, ActorsApart DEF WorkersOk, Apart, LedgerInv, Idle
  <2>7. RowsOk' /\ ChargedOk'
    BY <2>2 DEF LedgerInv, RowsOk, RowOk, ChargedOk, store
  <2> QED
    BY <2>4, <2>5, <2>6, <2>7 DEF LedgerInv
<1> QED
  BY <1>1, <1>2, <1>3 DEF RefreshStep

\* A request makes a session nobody else works on, or reads one and drops it.
LEMMA ServeLedger ==
  ASSUME PlainServer, LedgerInv, NEW w \in Workers, Serve(w), MinedInv'
  PROVE  LedgerInv'
<1>0. w \in Actors /\ w # Wallet /\ w # Refresher
  BY ActorsApart
<1>1. ASSUME NEW s \in Sids, NEW g \in Gates, NEW d \in Days, NEW k \in Keys \cup {NoKey},
             PostSession(w, s, g, d, k)
      PROVE  LedgerInv'
  <2> DEFINE e == Generate(g, d, clock)
             p == IF IsFree(g) THEN PostFree ELSE SaveOnly
  <2>1. /\ s \notin issued /\ issued' = issued \cup {s} /\ d \in Nat /\ Idle(w)
        /\ UNCHANGED <<db, deleted, clock, chain, refresh>>
        /\ \A r : Charged(r)' = Charged(r)
    BY <1>1, DaysAssumption DEF PostSession, Request, Charged, MinedFor, chain
  <2>2. Continue(w, [sid |-> s, data |-> e], p)
    <3>1. g \notin WgGates
      BY DEF PlainServer
    <3>2. CASE IsFree(g)
      BY <1>1, <3>1, <3>2, Programs DEF PostSession
    <3>3. CASE ~IsFree(g)
      BY <1>1, <3>1, <3>3, Programs DEF PostSession
    <3> QED
      BY <3>2, <3>3
  <2>3. /\ prog'[w] = p /\ obj'[w] = [sid |-> s, data |-> e]
        /\ \A b \in Actors \ {w} : prog'[b] = prog[b] /\ obj'[b] = obj[b]
    BY <1>0, <2>2, Continued, Programs
  <2>4. ~Charged(s) /\ db[s] = None
    BY <2>1 DEF LedgerInv, ChargedOk, RowsOk, RowOk
  <2>5. /\ e.payments = {} /\ e.credit = 0 /\ e.activated = 0 /\ e.gate = g
        /\ e.price = DailyPrice[g] * d
    BY DEF PlainServer, Generate, AddContributions
  <2>6. IF IsFree(g) THEN e.price = 0 ELSE e.price > 0
    <3>1. DailyPrice[g] \in Nat /\ (d = 0 => IsFree(g))
      BY <1>1, GateAssumption DEF PostSession
    <3>2. \A m \in Nat, n \in Nat : (m = 0 => m * n = 0) /\ (m # 0 /\ n # 0 => m * n > 0)
      OBVIOUS
    <3> QED
      BY <2>1, <2>5, <3>1, <3>2 DEF IsFree
  <2> HIDE DEF e
  <2>7. WorkerOk(w)'
    <3>1. CASE IsFree(g)
      <4>1. CanActivate(e)
        BY <2>5, <2>6, <3>1, PlainLoad DEF IsActive
      <4> QED
        BY <2>1, <2>3, <2>4, <2>5, <3>1, <4>1 DEF WorkerOk, IsActive
    <3>2. CASE ~IsFree(g)
      BY <2>1, <2>3, <2>4, <2>5, <2>6, <3>2 DEF WorkerOk, IsActive, Settled
    <3> QED
      BY <3>1, <3>2
  <2>8. /\ \A v \in Workers \ {w} : ~Idle(v)' => WorkerOk(v)'
        /\ ~Idle(Wallet)' => WalletOk'
        /\ ~Idle(Refresher)' => /\ prog'[Refresher] = <<Activate>>
                                /\ ~CanActivate(obj'[Refresher].data)
    BY <1>0, <2>1, <2>3, Frame DEF chain
  <2>9. WorkersOk' /\ RefresherOk'
    BY <2>1, <2>7, <2>8 DEF WorkersOk, RefresherOk, LedgerInv, refresh
  <2>10. Apart'
    <3>1. \A v \in Workers \ {w} : ~Idle(v)' => obj'[v].sid # s
      BY <1>0, <2>1, <2>3, ActorsApart DEF LedgerInv, WorkersOk, WorkerOk, Idle
    <3> QED
      BY <1>0, <2>3, <3>1, ActorsApart DEF LedgerInv, Apart, Idle
  <2>11. RowsOk' /\ ChargedOk'
    BY <2>1 DEF LedgerInv, RowsOk, RowOk, ChargedOk
  <2> QED
    BY <2>8, <2>9, <2>10, <2>11 DEF LedgerInv
<1>2. ASSUME NEW s \in Sids, GetSession(w, s) PROVE LedgerInv'
  <2>1. Continue(w, [sid |-> s, data |-> db[s]], <<>>)
    <3>1. <<>> \o <<>> = <<>>
      OBVIOUS
    <3> QED
      BY <1>2, <3>1, PlainLoad DEF GetSession, Read
  <2>2. UNCHANGED <<store, clock, chain, refresh>>
    BY <1>2 DEF GetSession
  <2>3. Idle(w)' /\ \A b \in Actors \ {w} : prog'[b] = prog[b] /\ obj'[b] = obj[b]
    BY <1>0, <2>1, Continued
  <2>4. /\ \A v \in Workers \ {w} : ~Idle(v)' => WorkerOk(v)'
        /\ ~Idle(Wallet)' => WalletOk'
        /\ ~Idle(Refresher)' => /\ prog'[Refresher] = <<Activate>>
                                /\ ~CanActivate(obj'[Refresher].data)
    BY <1>0, <2>2, <2>3, Frame DEF store, chain
  <2>5. WorkersOk' /\ RefresherOk' /\ Apart'
    BY <1>0, <2>2, <2>3, <2>4, StillApart DEF WorkersOk, RefresherOk, LedgerInv, refresh
  <2>6. RowsOk' /\ ChargedOk'
    BY <2>2 DEF LedgerInv, RowsOk, RowOk, ChargedOk, Charged, MinedFor, store, chain
  <2> QED
    BY <2>4, <2>5, <2>6 DEF LedgerInv
<1>3. ~ \E s \in Sids, k \in Keys : RekeySession(w, s, k)
  BY DEF RekeySession, PlainServer
<1> QED
  BY <1>1, <1>2, <1>3 DEF Serve

\* Time, the chain and a restart leave the rows alone.
LEMMA WorldLedger ==
  ASSUME PlainServer, LedgerInv, MinedInv',
         Tick \/ (\E ts \in SUBSET Payable : Block(ts)) \/ Crash \/ UNCHANGED vars
  PROVE  LedgerInv'
<1>1. CASE Tick
  <2>1. /\ UNCHANGED <<store, chain, objects, refresh>> /\ clock' \in Nat /\ clock <= clock'
        /\ \A r : Charged(r)' = Charged(r)
    BY <1>1, LedgerTypes DEF Tick, Charged, MinedFor, chain
  <2>2. RowsOk'
    BY <2>1, RowStays DEF LedgerInv, RowsOk, store
  <2>3. ~Idle(Wallet)' => WalletOk'
    BY <2>1, WalletStays DEF LedgerInv, store, objects, Idle
  <2> QED
    BY <2>1, <2>2, <2>3 DEF LedgerInv, ChargedOk, WorkersOk, WorkerOk, Apart, RefresherOk, Idle,
                            store, objects, refresh
<1>2. ASSUME NEW ts \in SUBSET Payable, Block(ts) PROVE LedgerInv'
  <2>1. /\ UNCHANGED <<store, clock, objects, refresh>>
        /\ mined' = [t \in Txs |-> IF t \in ts THEN tip + 1 ELSE mined[t]]
    BY <1>2 DEF Block
  <2>2. \A r : Charged(r) => Charged(r)'
    <3>1. tip \in Nat
      BY BoundAssumption DEF LedgerInv, MinedInv, SessionInv, Rest
    <3> QED
      BY <2>1, <3>1 DEF Charged, MinedFor
  <2>3. ASSUME NEW r \in Sids, Charged(r)', ~Charged(r)
        PROVE  db[r] # None /\ ~IsFree(db[r].gate)
    <3>1. PICK t \in Txs : TxSession[t] = r /\ mined'[t] > 0
      BY <2>3 DEF Charged, MinedFor
    <3>2. t \in ts
      BY <2>1, <2>3, <3>1 DEF Charged, MinedFor
    <3> QED
      BY <3>1, <3>2 DEF Payable
  <2>4. ASSUME NEW w \in Workers, ~Idle(w)' PROVE WorkerOk(w)'
    <3>1. ~Idle(w) /\ WorkerOk(w) /\ obj[w].sid \in Sids
      BY <2>1, <2>4, LedgerTypes, ActorsApart DEF LedgerInv, WorkersOk, objects, Idle, GoodHeld
    <3>2. \A r : r = obj[w].sid => Charged(r)' = Charged(r)
      <4>1. ~Charged(obj[w].sid)
        BY <3>1 DEF WorkerOk
      <4>2. ASSUME NEW r \in Sids, r = obj[w].sid PROVE ~Charged(r)'
        BY <2>3, <3>1, <4>1, <4>2 DEF WorkerOk
      <4> QED
        BY <3>1, <4>1, <4>2 DEF Charged
    <3>3. Charged(obj[w].sid)' = Charged(obj[w].sid)
      BY <2>1, <3>2 DEF objects
    <3> QED
      BY <2>1, <3>1, <3>3, WorkerStays DEF store, objects
  <2>5. ChargedOk'
    BY <2>1, <2>3 DEF LedgerInv, ChargedOk, RowsOk, RowOk, store
  <2>6. ~Idle(Wallet)' => WalletOk'
    BY <2>1, <2>2, LedgerTypes, WalletStays DEF LedgerInv, store, objects, Idle
  <2> QED
    BY <2>1, <2>4, <2>5, <2>6 DEF LedgerInv, RowsOk, RowOk, WorkersOk, Apart, RefresherOk, Idle,
                                  store, objects, refresh
<1>3. CASE Crash
  <2>1. \A a \in Actors : Idle(a)'
    BY <1>3 DEF Crash, Idle
  <2> QED
    BY <1>3, <2>1, ActorsApart
       DEF Crash, LedgerInv, RowsOk, RowOk, ChargedOk, WorkersOk, Apart, RefresherOk, Charged,
           MinedFor, store, chain
<1>4. CASE UNCHANGED vars
  BY <1>4 DEF LedgerInv, RowsOk, RowOk, ChargedOk, WorkersOk, WorkerOk, Apart, WalletOk,
              RefresherOk, Supersedes, Charged, MinedFor, Idle, vars, store, chain, objects, refresh
<1> QED
  BY <1>1, <1>2, <1>3, <1>4

\* Nothing is charged, and nothing held, at the start.
LEMMA LedgerInitial == ASSUME Init PROVE LedgerInv
<1>1. MinedInv
  BY InitGood DEF Init, MinedInv, CreditedAreMined, BackedObjects, Idle
<1>2. \A a \in Actors : Idle(a)
  BY DEF Init, Idle
<1>3. \A s : ~Charged(s)
  BY DEF Init, Charged, MinedFor
<1> QED
  BY <1>1, <1>2, <1>3, ActorsApart
     DEF Init, LedgerInv, RowsOk, ChargedOk, WorkersOk, Apart, RefresherOk

\* Every step keeps the invariant of the refinement.
LEMMA LedgerInvStep == ASSUME PlainServer, LedgerInv, [Next]_vars PROVE LedgerInv'
<1>1. MinedInv'
  BY MinedStep DEF LedgerInv
<1> QED
  BY <1>1, OperateStep, WalletStepLedger, RefreshStepLedger, ServeLedger, WorldLedger DEF Next, Step

-------------------------------------------------------------------------------
(***************************************************************************)
(* The refinement.                                                         *)
(***************************************************************************)

\* A step that leaves the rows and the clock alone is a stutter of the ledger.
LEMMA SameLedger ==
  ASSUME UNCHANGED <<db, deleted, clock>>
  PROVE  UNCHANGED <<[s \in Sids |-> AccountOf(s)], clock>>
BY DEF AccountOf

\* A saved object opens an account, adds a transfer to it, or begins its term.
LEMMA SaveRefines ==
  ASSUME LedgerInv, NEW a \in Actors, DoSave(a), UNCHANGED clock,
         Settled(obj[a].data), Supersedes(obj[a].data, obj[a].sid)
  PROVE  \/ UNCHANGED <<[s \in Sids |-> AccountOf(s)], clock>>
         \/ \E s \in Sids : Ledger!Open(s) \/ Ledger!Pay(s) \/ Ledger!Begin(s)
<1> DEFINE s == obj[a].sid
           d == obj[a].data
           account == [r \in Sids |-> AccountOf(r)]
<1>1. s \in Sids /\ d \in GoodSession /\ d # None /\ db[s] \in GoodSession \cup {None}
  BY LedgerTypes DEF DoSave, Doing, GoodHeld
<1>2. d \in Session /\ d.expires \in Nat /\ clock \in Nat
  BY <1>1, LedgerTypes DEF GoodSession, Session
<1>3. CASE UNCHANGED <<db, deleted>>
  BY <1>3, SameLedger
<1>4. CASE /\ IsFresh(d, clock)
           /\ db'[s] = d /\ deleted' = deleted \ {s}
           /\ \A r \in Sids \ {s} : db'[r] = db[r]
  <2>1. \A r \in Sids \ {s} : account'[r] = account[r]
    BY <1>1, <1>4 DEF AccountOf
  <2>2. account'[s] = [state    |-> IF IsActive(d) THEN "active" ELSE "unpaid",
                       credited |-> d.payments, expires |-> d.expires]
    BY <1>1, <1>4 DEF AccountOf
  <2>3. Ledger!Only(s)
    BY <2>1 DEF Ledger!Only
  <2>4. CASE db[s] = None
    <3>1. account[s] = [state |-> "none", credited |-> {}, expires |-> 0]
      BY <1>1, <2>4 DEF AccountOf
    <3>2. IsActive(d) \/ d.payments = {}
      BY <1>4, <2>4 DEF Supersedes
    <3> QED
      BY <1>1, <1>2, <1>4, <2>2, <2>3, <3>1, <3>2 DEF Ledger!Begin, Ledger!Open, IsFresh
  <2>5. CASE db[s] # None
    <3>1. account[s] = [state    |-> IF s \in deleted THEN "closed"
                                     ELSE IF IsActive(db[s]) THEN "active" ELSE "unpaid",
                        credited |-> db[s].payments, expires |-> db[s].expires]
      BY <1>1, <2>5 DEF AccountOf
    <3>2. CASE IsActive(db[s]) = IsActive(d)
      <4>1. /\ d.expires = db[s].expires
            /\ d.payments = db[s].payments \/ \E t \in Txs : d.payments = db[s].payments \cup {t}
        BY <2>5, <3>2 DEF Supersedes
      <4>2. s \notin deleted
        BY <1>1, <1>4, <2>5, <4>1 DEF LedgerInv, RowsOk, RowOk, IsFresh
      <4>3. CASE d.payments = db[s].payments
        <5>1. account'[s] = account[s]
          BY <2>2, <3>1, <3>2, <4>1, <4>2, <4>3
        <5>2. account' = account
          BY <2>1, <5>1
        <5> QED
          BY <5>2
      <4>4. ASSUME NEW t \in Txs, d.payments = db[s].payments \cup {t} PROVE Ledger!Pay(s)
        <5>1. account'[s] = [account[s] EXCEPT !.credited = @ \cup {t}]
          <6> DEFINE state == IF IsActive(d) THEN "active" ELSE "unpaid"
                     paid == db[s].payments
          <6>1. account[s] = [state |-> state, credited |-> paid, expires |-> d.expires]
            BY <3>1, <3>2, <4>1, <4>2
          <6>2. account'[s] = [state |-> state, credited |-> paid \cup {t}, expires |-> d.expires]
            BY <2>2, <4>4
          <6> HIDE DEF account, state, paid
          <6> QED
            BY <6>1, <6>2
        <5>2. account[s].state \in {"unpaid", "active"}
          BY <3>1, <4>2
        <5> QED
          BY <2>3, <5>1, <5>2 DEF Ledger!Pay
      <4> QED
        BY <1>1, <4>1, <4>3, <4>4
    <3>3. CASE IsActive(db[s]) # IsActive(d)
      <4>1. IsActive(d) /\ ~IsActive(db[s]) /\ db[s].payments \subseteq d.payments
        BY <2>5, <3>3 DEF Supersedes, IsActive
      <4> QED
        BY <1>1, <1>2, <1>4, <2>2, <2>3, <3>1, <4>1 DEF Ledger!Begin, IsFresh
    <3> QED
      BY <3>2, <3>3
  <2> QED
    BY <2>4, <2>5
<1> QED
  BY <1>3, <1>4, Saved

\* The clean-up closes accounts whose time is over, and forgets closed ones.
LEMMA CleanupRefines ==
  ASSUME LedgerInv, Cleanup
  PROVE  Ledger!Sweep
<1> DEFINE account == [r \in Sids |-> AccountOf(r)]
<1>1. UNCHANGED clock /\ clock \in Nat
  BY LedgerTypes DEF Cleanup
<1>2. ASSUME NEW s \in Sids
      PROVE  \/ account'[s] = account[s]
             \/ /\ account[s].expires <= clock
                /\ \/ account'[s] = [account[s] EXCEPT !.state = "closed"]
                   \/ account'[s] = [state |-> "none", credited |-> {}, expires |-> 0]
  <2>1. CASE db[s] = None
    <3>1. db'[s] = None
      BY <2>1 DEF Cleanup
    <3> QED
      BY <2>1, <3>1 DEF AccountOf
  <2>2. CASE db[s] # None
    <3>1. account[s] = [state    |-> IF s \in deleted THEN "closed"
                                     ELSE IF IsActive(db[s]) THEN "active" ELSE "unpaid",
                        credited |-> db[s].payments, expires |-> db[s].expires]
      BY <2>2 DEF AccountOf
    <3>2. s \in deleted => ~IsFresh(db[s], clock)
      BY <2>2 DEF LedgerInv, RowsOk, RowOk
    <3>3. db[s].expires \in Nat
      BY <2>2, LedgerTypes DEF GoodSession, Session
    <3>4. CASE IsFresh(db[s], clock)
      <4>1. db'[s] = db[s] /\ s \notin deleted /\ s \notin deleted'
        BY <3>2, <3>4 DEF Cleanup
      <4> QED
        BY <2>2, <4>1 DEF AccountOf
    <3>5. CASE ~IsFresh(db[s], clock)
      <4>1. account[s].expires <= clock
        BY <1>1, <3>1, <3>3, <3>5 DEF IsFresh
      <4>2. db'[s] = None \/ (db'[s] = db[s] /\ s \in deleted')
        BY <2>2, <3>5 DEF Cleanup
      <4>3. db'[s] = None => account'[s] = [state |-> "none", credited |-> {}, expires |-> 0]
        BY DEF AccountOf
      <4>4. db'[s] = db[s] /\ s \in deleted' =>
              account'[s] = [state |-> "closed", credited |-> db[s].payments,
                             expires |-> db[s].expires]
        BY <2>2 DEF AccountOf
      <4>5. [account[s] EXCEPT !.state = "closed"] =
              [state |-> "closed", credited |-> db[s].payments, expires |-> db[s].expires]
        BY <3>1
      <4> QED
        BY <4>1, <4>2, <4>3, <4>4, <4>5
    <3> QED
      BY <3>4, <3>5
  <2> QED
    BY <2>1, <2>2
<1> QED
  BY <1>1, <1>2 DEF Ledger!Sweep, Ledger!NoAccount

\* Every step of the server is a step of the ledger, or leaves it alone.
LEMMA LedgerStep ==
  ASSUME PlainServer, LedgerInv, [Next]_vars
  PROVE  [Ledger!LedgerNext]_<<[s \in Sids |-> AccountOf(s)], clock>>
<1>1. ASSUME NEW a \in Actors, Operate(a)
      PROVE  [Ledger!LedgerNext]_<<[s \in Sids |-> AccountOf(s)], clock>>
  <2>1. UNCHANGED clock
    BY <1>1, OperateFrame
  <2>2. CASE DoSave(a)
    <3>1. Settled(obj[a].data) /\ Supersedes(obj[a].data, obj[a].sid)
      BY <1>1, <2>2, WorkerStep, WalletActs, RefresherActs DEF Actors
    <3> QED
      BY <2>1, <2>2, <3>1, SaveRefines DEF Ledger!LedgerNext
  <2>3. CASE ~DoSave(a)
    <3>1. UNCHANGED <<db, deleted>>
      BY <1>1, <2>3, WorkerStep, WalletActs, RefresherActs DEF Actors
    <3> QED
      BY <2>1, <3>1, SameLedger
  <2> QED
    BY <2>2, <2>3
<1>2. CASE Cleanup
  BY <1>2, CleanupRefines DEF Ledger!LedgerNext
<1>3. CASE WalletStep \/ FindInactive \/ Report \/ TakeNext
  <2>1. UNCHANGED <<db, deleted, clock>>
    BY <1>3 DEF WalletStep, Scan, ScanFailed, ProcessPayment, FindInactive, Report, TakeNext, store
  <2> QED
    BY <2>1, SameLedger
<1>4. ASSUME NEW w \in Workers, Serve(w)
      PROVE  UNCHANGED <<db, deleted, clock>>
  BY <1>4 DEF Serve, PostSession, GetSession, RekeySession, store
<1>5. CASE Tick
  <2>1. UNCHANGED <<db, deleted>> /\ clock' = clock + 1
    BY <1>5 DEF Tick, store
  <2>2. Ledger!Pass
    BY <2>1 DEF Ledger!Pass, AccountOf
  <2> QED
    BY <2>2 DEF Ledger!LedgerNext
<1>6. CASE (\E ts \in SUBSET Payable : Block(ts)) \/ Crash \/ UNCHANGED vars
  <2>1. UNCHANGED <<db, deleted, clock>>
    BY <1>6 DEF Block, Crash, vars, store
  <2> QED
    BY <2>1, SameLedger
<1> QED
  BY <1>1, <1>2, <1>3, <1>4, <1>5, <1>6, SameLedger DEF Next, Step, RefreshStep

(***************************************************************************)
(* Without WireGuard gates and contributions the session table implements  *)
(* the ledger, whatever the requests, transfers, refreshes and restarts    *)
(* do: a paid term is never lost, cut short, or given twice.               *)
(***************************************************************************)
THEOREM LedgerImplemented ==
  ASSUME WgGates = {}, ContribPercent = 0 PROVE Spec => ImplementsLedger
<1>0. PlainServer
  BY DEF PlainServer
<1>1. Init => LedgerInv
  BY LedgerInitial
<1>2. LedgerInv /\ [Next]_vars => LedgerInv'
  BY <1>0, LedgerInvStep
<1>3. Init => Ledger!LedgerInit
  BY DEF Init, AccountOf, Ledger!LedgerInit, Ledger!NoAccount
<1>4. LedgerInv /\ [Next]_vars => [Ledger!LedgerNext]_<<[s \in Sids |-> AccountOf(s)], clock>>
  BY <1>0, LedgerStep
<1> QED
  BY <1>1, <1>2, <1>3, <1>4, PTL DEF Spec, ImplementsLedger, Ledger!LedgerSpec
==============================================================================

--------------------------- MODULE WGServerProofs ---------------------------
(***************************************************************************)
(* Proofs about WGServer: the rounds of the WireGuard service never take a *)
(* session of a paid gate out of the table.                                *)
(*                                                                         *)
(* A round marks rows that it has read some steps before, so that the gate *)
(* of a session must not change: neither in its row nor in any copy that   *)
(* may still be written over it, nor when the session goes and a copy      *)
(* brings it back.                                                         *)
(***************************************************************************)
EXTENDS WGServer, ServerSessionsProofs

\* The row of s and all copies of it are for gates of X.
CopiesIn(s, X) ==
  /\ db[s] # None => db[s].gate \in X
  /\ \A a \in Actors : ~Idle(a) /\ obj[a].sid = s => obj[a].data.gate \in X
  /\ \A o \in batch : o.sid = s => o.data.gate \in X

FreeGates == {g \in Gates : IsFree(g)}

\* A session has one gate, and no copies before it is handed out.
OneGate ==
  \A s \in Sids : IF s \in issued THEN \E g \in Gates : CopiesIn(s, {g}) ELSE CopiesIn(s, {})

\* What a round is going to mark deleted is free.
MarksFree ==
  \A g \in WgGates : \A j \in jobs[g] :
    j.do \in {"expel", "mark"} => j.sid \in issued /\ CopiesIn(j.sid, FreeGates)

WGTypes ==
  /\ gathered \in [WgGates -> (SUBSET Keys) \cup {None}]
  /\ jobs \in [WgGates -> SUBSET Job]

WGInv == SessionInv /\ WGTypes /\ OneGate /\ MarksFree

-------------------------------------------------------------------------------
\* No operation on an object changes its gate.
LEMMA SameGate ==
  ASSUME NEW d \in Session
  PROVE  /\ Loaded(d).gate = d.gate
         /\ \A now : Activated(d, now).gate = d.gate
         /\ \A k : Prepared(d, k).gate = d.gate
         /\ \A t : Credited(d, t).gate = d.gate
BY DEF Loaded, AddContributions, Activated, Prepared, Credited, Session

\* An actor that goes on with a session for a gate of X, or with another one, keeps the copies in X.
LEMMA ContinueCopies ==
  ASSUME SessionInv, NEW s, NEW X, CopiesIn(s, X), NEW a \in Actors, NEW o,
         o.sid = s => o.data.gate \in X, NEW p, Continue(a, o, p), UNCHANGED <<db, batch>>
  PROVE  CopiesIn(s, X)'
<1>1. obj \in [Actors -> GoodHeld \cup {None}] /\ prog \in [Actors -> Seq(Ops)]
  BY DEF SessionInv, Good, GoodObjects
<1>. QED BY <1>1 DEF Continue, CopiesIn, Idle

\* So does reading the row of a session.
LEMMA ReadCopies ==
  ASSUME SessionInv, NEW s \in Sids, NEW X, CopiesIn(s, X), NEW a \in Actors, NEW r \in Sids,
         Visible(r), NEW p, Read(a, r, p), UNCHANGED <<db, batch>>
  PROVE  CopiesIn(s, X)'
<1>1. db[r] \in Session
  BY DEF SessionInv, Good, GoodRows, GoodSession, Visible
<1>2. Loaded(db[r]).gate = db[r].gate
  BY <1>1, SameGate
<1>3. [sid |-> r, data |-> Loaded(db[r])].sid = s => [sid |-> r, data |-> Loaded(db[r])].data.gate \in X
  BY <1>2 DEF CopiesIn, Visible
<1>. QED BY <1>3, ContinueCopies DEF Read

\* Steps of the server keep the gate of all copies of a session, but the one that hands it out.
LEMMA GateKept ==
  ASSUME SessionInv, [Next]_vars, NEW s \in Sids, NEW X, CopiesIn(s, X),
         s \in issued \/ s \notin issued'
  PROVE  CopiesIn(s, X)'
<1>1. ASSUME NEW a \in Actors, Operate(a) PROVE CopiesIn(s, X)'
  <2>1. ~Idle(a) /\ obj[a] \in GoodHeld
    BY <1>1, DoingGood DEF Operate, DoActivate, DoSave, DoCredit, DoPrepare, DoLimit, Doing,
                           SessionInv
  <2>2. obj[a].sid = s => obj[a].data.gate \in X
    BY <2>1 DEF CopiesIn
  <2>3. \A d : [obj[a] EXCEPT !.data = d].sid = obj[a].sid /\ [obj[a] EXCEPT !.data = d].data = d
    BY <2>1 DEF GoodHeld
  <2>4. obj[a].data \in Session
    BY <2>1 DEF GoodHeld, GoodSession
  <2>5. CASE DoActivate(a)
    <3>1. Activated(obj[a].data, clock).gate = obj[a].data.gate
      BY <2>4, SameGate
    <3>. QED BY <2>2, <2>3, <2>5, <3>1, ContinueCopies DEF DoActivate, store, refresh
  <2>6. CASE DoSave(a)
    <3>1. Continue(a, obj[a], Tail(prog[a])) /\ UNCHANGED batch
      BY <2>6 DEF DoSave, refresh
    <3>2. UNCHANGED db \/ db' = [db EXCEPT ![obj[a].sid] = obj[a].data]
      BY <2>6 DEF DoSave
    <3>3. db'[s] # None => db'[s].gate \in X
      BY <2>1, <2>2, <3>2 DEF CopiesIn, SessionInv, Good, GoodRows
    <3>4. \A b \in Actors : ~Idle(b)' /\ obj'[b].sid = s => obj'[b].data.gate \in X
      BY <2>2, <3>1 DEF Continue, CopiesIn, Idle, SessionInv, Good, GoodObjects
    <3>. QED BY <3>1, <3>3, <3>4 DEF CopiesIn
  <2>7. CASE DoCredit(a)
    <3>1. \A t : Credited(obj[a].data, t).gate = obj[a].data.gate
      BY <2>4, SameGate
    <3>. QED BY <2>2, <2>3, <2>7, <3>1, ContinueCopies DEF DoCredit, store, refresh
  <2>8. CASE DoPrepare(a)
    <3>1. \A k : Prepared(obj[a].data, k).gate = obj[a].data.gate
      BY <2>4, SameGate
    <3>. DEFINE o == [obj[a] EXCEPT !.data = Prepared(@, Head(prog[a]).key)]
    <3>2. o.sid = obj[a].sid /\ o.data.gate = obj[a].data.gate
      BY <2>1, <3>1 DEF GoodHeld
    <3>3. Continue(a, o, Tail(prog[a])) /\ UNCHANGED <<db, batch>>
      BY <2>8 DEF DoPrepare, store, refresh
    <3>. HIDE DEF o
    <3>. QED BY <2>2, <3>2, <3>3, ContinueCopies
  <2>9. CASE DoLimit(a)
    BY <2>2, <2>9, ContinueCopies DEF DoLimit, store, refresh
  <2>. QED BY <1>1, <2>5, <2>6, <2>7, <2>8, <2>9 DEF Operate
<1>2. CASE WalletStep
  <2>1. CASE Scan \/ ScanFailed
    BY <2>1 DEF Scan, ScanFailed, CopiesIn, Idle, store, objects, refresh
  <2>2. ASSUME NEW t \in Txs, ProcessPayment(t) PROVE CopiesIn(s, X)'
    <3>1. UNCHANGED <<db, batch>> /\ TxSession[t] \in Sids /\ Wallet \in Actors
      BY <2>2, SidAssumption DEF ProcessPayment, store, refresh, Actors
    <3>2. CASE Visible(TxSession[t])
      BY <2>2, <3>1, <3>2, ReadCopies DEF ProcessPayment
    <3>3. CASE ~Visible(TxSession[t])
      BY <2>2, <3>1, <3>3 DEF ProcessPayment, CopiesIn, Idle, objects
    <3>. QED BY <3>2, <3>3
  <2>. QED BY <1>2, <2>1, <2>2 DEF WalletStep
<1>3. CASE RefreshStep
  <2>1. CASE Cleanup
    BY <2>1 DEF Cleanup, CopiesIn, Idle, objects
  <2>2. CASE FindInactive \/ Report
    <3>1. \A r \in Sids : Visible(r) => Loaded(db[r]).gate = db[r].gate
      BY SameGate DEF SessionInv, Good, GoodRows, GoodSession, Visible
    <3>. QED BY <2>2, <3>1 DEF FindInactive, Report, CopiesIn, Idle, Visible, store, objects
  <2>3. CASE TakeNext
    <3>1. PICK o \in batch : batch' = batch \ {o} /\ Continue(Refresher, o, <<Activate>>)
      BY <2>3 DEF TakeNext
    <3>2. UNCHANGED db /\ (o.sid = s => o.data.gate \in X) /\ Refresher \in Actors
      BY <2>3 DEF TakeNext, store, CopiesIn, Actors
    <3>3. \A b \in Actors : ~Idle(b)' /\ obj'[b].sid = s => obj'[b].data.gate \in X
      BY <3>1, <3>2 DEF Continue, CopiesIn, Idle, SessionInv, Good, GoodObjects
    <3>. QED BY <3>1, <3>2, <3>3 DEF CopiesIn
  <2>. QED BY <1>3, <2>1, <2>2, <2>3 DEF RefreshStep
<1>4. ASSUME NEW w \in Workers, Serve(w) PROVE CopiesIn(s, X)'
  <2>1. w \in Actors
    BY DEF Actors
  <2>2. ASSUME NEW r \in Sids, NEW g \in Gates, NEW d \in Days, NEW k \in Keys \cup {NoKey},
               PostSession(w, r, g, d, k)
        PROVE  CopiesIn(s, X)'
    <3>1. r # s
      BY <2>2 DEF PostSession
    <3>. QED BY <2>1, <2>2, <3>1, ContinueCopies DEF PostSession, refresh
  <2>3. ASSUME NEW r \in Sids, GetSession(w, r) \/ \E k \in Keys : RekeySession(w, r, k)
        PROVE  CopiesIn(s, X)'
    BY <2>1, <2>3, ReadCopies DEF GetSession, RekeySession, store, refresh
  <2>. QED BY <1>4, <2>2, <2>3 DEF Serve
<1>5. CASE Tick \/ \E ts \in SUBSET Payable : Block(ts)
  BY <1>5 DEF Tick, Block, CopiesIn, Idle, store, objects, refresh
<1>6. CASE Crash
  BY <1>6 DEF Crash, CopiesIn, Idle, store
<1>7. CASE UNCHANGED vars
  BY <1>7 DEF vars, CopiesIn, Idle, store, objects, refresh
<1>. QED BY <1>1, <1>2, <1>3, <1>4, <1>5, <1>6, <1>7 DEF Next, Step

\* A session that is handed out has the gate of the request.
LEMMA Posted ==
  ASSUME SessionInv, [Next]_vars, NEW s \in Sids, CopiesIn(s, {}), s \notin issued, s \in issued'
  PROVE  \E g \in Gates : CopiesIn(s, {g})'
<1>1. PICK w \in Workers, g \in Gates, d \in Days, k \in Keys \cup {NoKey} : PostSession(w, s, g, d, k)
  <2>1. ASSUME NEW w \in Workers, NEW r \in Sids,
               GetSession(w, r) \/ \E k \in Keys : RekeySession(w, r, k)
        PROVE  UNCHANGED issued
    BY <2>1 DEF GetSession, RekeySession, store
  <2>2. UNCHANGED issued \/ \E w \in Workers : Serve(w)
    BY DEF Next, Step, Operate, DoActivate, DoSave, DoCredit, DoPrepare, DoLimit, WalletStep, Scan,
           ScanFailed, ProcessPayment, RefreshStep, Cleanup, FindInactive, Report, TakeNext, Tick,
           Block, Crash, vars, store
  <2>3. PICK w \in Workers : Serve(w)
    BY <2>2
  <2>4. PICK r \in Sids :
          \E g \in Gates, d \in Days, k \in Keys \cup {NoKey} : PostSession(w, r, g, d, k)
    BY <2>1, <2>3 DEF Serve
  <2>5. r = s
    BY <2>4 DEF PostSession
  <2>. QED BY <2>4, <2>5
<1>2. Generate(g, d, clock).gate = g
  BY DEF Generate, AddContributions
<1>3. CopiesIn(s, {g}) /\ w \in Actors
  BY DEF CopiesIn, Actors
<1>. DEFINE o == [sid |-> s, data |-> Generate(g, d, clock)]
<1>4. PICK p : Continue(w, o, p)
  BY <1>1 DEF PostSession
<1>5. (o.sid = s => o.data.gate \in {g}) /\ UNCHANGED <<db, batch>>
  BY <1>1, <1>2 DEF PostSession, refresh
<1>. HIDE DEF o
<1>. QED BY <1>3, <1>4, <1>5, ContinueCopies

\* Every step of the server keeps the gate of each session, and the sessions of its jobs free.
LEMMA ServerStep ==
  ASSUME SessionInv, OneGate, [Next]_vars
  PROVE  /\ OneGate'
         /\ \A s \in Sids : s \in issued /\ CopiesIn(s, FreeGates)
                            => s \in issued' /\ CopiesIn(s, FreeGates)'
<1>1. issued \subseteq issued'
  <2>1. ASSUME NEW a \in Actors, Operate(a) PROVE issued \subseteq issued'
    BY <2>1 DEF Operate, DoActivate, DoSave, DoCredit, DoPrepare, DoLimit, store
  <2>2. CASE WalletStep \/ RefreshStep
    BY <2>2 DEF WalletStep, Scan, ScanFailed, ProcessPayment, RefreshStep, Cleanup, FindInactive,
                Report, TakeNext, store
  <2>3. ASSUME NEW w \in Workers, Serve(w) PROVE issued \subseteq issued'
    BY <2>3 DEF Serve, PostSession, GetSession, RekeySession, store
  <2>4. CASE Tick \/ (\E ts \in SUBSET Payable : Block(ts)) \/ Crash \/ UNCHANGED vars
    BY <2>4 DEF Tick, Block, Crash, vars, store
  <2> QED
    BY <2>1, <2>2, <2>3, <2>4 DEF Next, Step
<1>2. ASSUME NEW s \in Sids
      PROVE  IF s \in issued' THEN \E g \in Gates : CopiesIn(s, {g})' ELSE CopiesIn(s, {})'
  <2>1. CASE s \in issued
    BY <1>1, <2>1, GateKept DEF OneGate
  <2>2. CASE s \notin issued'
    BY <1>1, <2>2, GateKept DEF OneGate
  <2>3. CASE s \notin issued /\ s \in issued'
    BY <2>3, Posted DEF OneGate
  <2>. QED BY <2>1, <2>2, <2>3
<1>. QED BY <1>1, <1>2, GateKept DEF OneGate, FreeGates

\* A session that a round finds on a free gate is free in all of its copies.
LEMMA FoundFree ==
  ASSUME OneGate, NEW s \in Sids, NEW g \in Gates, IsFree(g), NeedsPeer(s, g)
  PROVE  s \in issued /\ CopiesIn(s, FreeGates)
<1>1. s \in issued
  BY DEF NeedsPeer, Visible, CopiesIn, OneGate
<1>2. PICK h \in Gates : CopiesIn(s, {h})
  BY <1>1 DEF OneGate
<1>3. h = g
  BY <1>2 DEF NeedsPeer, Visible, CopiesIn
<1>. QED BY <1>1, <1>2, <1>3 DEF CopiesIn, FreeGates

-------------------------------------------------------------------------------
\* Nothing is there initially.
LEMMA WGInitInv == ASSUME WGInit PROVE WGInv
<1>1. SessionInv
  BY InitGood DEF WGInit
<1>2. OneGate
  BY DEF WGInit, Init, OneGate, CopiesIn, Idle
<1>. QED BY <1>1, <1>2 DEF WGInv, WGInit, WGTypes, MarksFree

\* Steps of a round change the interfaces, the deleted rows and the jobs only.
LEMMA RoundKeeps ==
  ASSUME SessionInv, UNCHANGED <<db, issued, clock, chain, objects, wallet, refresh, budget>>,
         deleted' \subseteq Sids, peers' \in [WgGates -> SUBSET Keys], OneGate
  PROVE  /\ SessionInv' /\ OneGate'
         /\ \A s : CopiesIn(s, FreeGates)' = CopiesIn(s, FreeGates)
<1>1. SessionInv'
  BY DEF SessionInv, Good, GoodRows, GoodObjects, Rest, chain, objects, wallet, refresh, budget
<1>2. OneGate' /\ \A s : CopiesIn(s, FreeGates)' = CopiesIn(s, FreeGates)
  BY DEF OneGate, CopiesIn, Idle, objects, refresh
<1>. QED BY <1>1, <1>2

\* Reading the interface, or the table, finds sessions of the gate only.
LEMMA LookKeeps ==
  ASSUME WGInv, NEW g \in WgGates, Gather(g) \/ FindPeers(g)
  PROVE  WGInv'
<1>1. UNCHANGED vars /\ g \in Gates
  BY GateAssumption DEF Gather, FindPeers
<1>2. /\ SessionInv' /\ OneGate'
      /\ \A s : CopiesIn(s, FreeGates)' = CopiesIn(s, FreeGates)
  BY <1>1, RoundKeeps DEF WGInv, vars, store, SessionInv, Rest
<1>3. CASE Gather(g)
  BY <1>1, <1>2, <1>3 DEF Gather, WGInv, WGTypes, MarksFree, SessionInv, Rest, vars, store
<1>4. CASE FindPeers(g)
  <2>1. PICK holder \in [NeededKeys(g) -> Sids], silent \in SUBSET gathered[g] :
          /\ \A k \in NeededKeys(g) : NeedsPeer(holder[k], g) /\ db[holder[k]].wg = k
          /\ jobs' = [jobs EXCEPT ![g] = Removals(g) \cup Expulsions(g, holder, silent)
                                                    \cup Additions(g, holder)]
    BY <1>4 DEF FindPeers
  <2>2. /\ gathered[g] \subseteq Keys /\ gathered' = [gathered EXCEPT ![g] = None]
    BY <1>4 DEF FindPeers, WGInv, WGTypes
  <2>3. NeededKeys(g) \subseteq Keys
    BY DEF NeededKeys, NeedsPeer, Visible, WGInv, SessionInv, Good, GoodRows, GoodSession, Session
  <2>4. Removals(g) \subseteq Job
    BY <2>2 DEF Removals, Job
  <2>5. Expulsions(g, holder, silent) \subseteq Job /\ Additions(g, holder) \subseteq Job
    BY <2>1, <2>3 DEF Expulsions, Additions, Job
  <2>6. \A j \in Removals(g) \cup Expulsions(g, holder, silent) \cup Additions(g, holder) :
          j.do \in {"expel", "mark"} => j.sid \in issued /\ CopiesIn(j.sid, FreeGates)
    BY <1>1, <2>1, FoundFree DEF Removals, Expulsions, Additions, WGInv
  <2>7. WGTypes'
    BY <2>1, <2>2, <2>4, <2>5 DEF WGInv, WGTypes
  <2>8. MarksFree'
    BY <1>1, <1>2, <2>1, <2>6 DEF WGInv, MarksFree, WGTypes, vars, store
  <2>. QED BY <1>2, <2>7, <2>8 DEF WGInv
<1>. QED BY <1>3, <1>4

\* The jobs are done one by one; the one that marks a row has come from one that is free.
LEMMA JobKeeps ==
  ASSUME WGInv, NEW g \in WgGates, RemovePeer(g) \/ Expel(g) \/ Mark(g) \/ AddPeer(g)
  PROVE  WGInv'
<1>1. /\ jobs' \in [WgGates -> SUBSET Job]
      /\ \A h \in WgGates : \A n \in jobs'[h] :
           \/ n \in jobs[h]
           \/ n.do = "mark" /\ \E j \in jobs[h] : j.do = "expel" /\ j.sid = n.sid
  <2>1. jobs \in [WgGates -> SUBSET Job]
    BY DEF WGInv, WGTypes
  <2>2. CASE RemovePeer(g) \/ Mark(g) \/ AddPeer(g)
    <3>1. PICK j \in jobs[g] : jobs' = [jobs EXCEPT ![g] = jobs[g] \ {j}]
      BY <2>2 DEF RemovePeer, Mark, AddPeer, Finish
    <3>2. jobs' \in [WgGates -> SUBSET Job] /\ \A h \in WgGates : jobs'[h] \subseteq jobs[h]
      BY <2>1, <3>1
    <3>. QED BY <3>2
  <2>3. CASE Expel(g)
    <3>1. PICK j \in jobs[g] : j.do = "expel" /\ Finish(g, j, {[j EXCEPT !.do = "mark"]})
      BY <2>3 DEF Expel
    <3>2. PICK n \in Job : n = [j EXCEPT !.do = "mark"] /\ n.do = "mark" /\ n.sid = j.sid
      <4>1. j \in [do : {"expel", "mark", "add_peer"}, key : Keys, sid : Sids]
        BY <2>1, <3>1 DEF Job
      <4>2. [j EXCEPT !.do = "mark"] = [do |-> "mark", key |-> j.key, sid |-> j.sid]
        BY <4>1
      <4>3. [do |-> "mark", key |-> j.key, sid |-> j.sid] \in Job
        BY <4>1 DEF Job
      <4>. QED BY <4>2, <4>3
    <3>3. jobs' = [jobs EXCEPT ![g] = (jobs[g] \ {j}) \cup {n}]
      BY <3>1, <3>2 DEF Finish
    <3>4. jobs' \in [WgGates -> SUBSET Job]
      BY <2>1, <3>2, <3>3
    <3>5. \A h \in WgGates : jobs'[h] \subseteq jobs[h] \/ (h = g /\ jobs'[h] \subseteq jobs[h] \cup {n})
      BY <2>1, <3>3
    <3>. QED BY <3>1, <3>2, <3>4, <3>5
  <2>. QED BY <2>2, <2>3
<1>2. /\ UNCHANGED <<db, issued, clock, chain, objects, wallet, refresh, budget, gathered>>
      /\ deleted' \subseteq Sids
  <2>1. \A j \in jobs[g] : j.do = "mark" => j.sid \in Sids
    BY DEF WGInv, WGTypes, Job
  <2>2. deleted \subseteq Sids
    BY DEF WGInv, SessionInv, Rest
  <2>. QED BY <2>1, <2>2 DEF RemovePeer, Expel, Mark, AddPeer, store
<1>3. peers' \in [WgGates -> SUBSET Keys]
  <2>1. \A j \in jobs[g] : j.key \in Keys
    BY DEF WGInv, WGTypes, Job
  <2>. QED BY <2>1 DEF RemovePeer, Expel, Mark, AddPeer, WGInv, SessionInv, Rest
<1>4. /\ SessionInv' /\ OneGate'
      /\ \A s : CopiesIn(s, FreeGates)' = CopiesIn(s, FreeGates)
  BY <1>2, <1>3, RoundKeeps DEF WGInv
<1>5. WGTypes'
  BY <1>1, <1>2 DEF WGInv, WGTypes
<1>6. MarksFree'
  BY <1>1, <1>2, <1>4 DEF WGInv, MarksFree, WGTypes
<1>. QED BY <1>4, <1>5, <1>6 DEF WGInv

\* Steps of the server, rounds and restarts keep WGInv.
LEMMA WGStep == ASSUME WGInv, [WGNext]_all_vars PROVE WGInv'
<1>1. CASE [Next]_vars /\ UNCHANGED wg_vars
  <2>1. SessionInv' /\ OneGate'
        /\ \A s \in Sids : s \in issued /\ CopiesIn(s, FreeGates)
                         => s \in issued' /\ CopiesIn(s, FreeGates)'
    BY <1>1, SessionStep, ServerStep DEF WGInv
  <2>2. \A h \in WgGates : \A j \in jobs[h] : j.do \in {"expel", "mark"} => j.sid \in Sids
    BY DEF WGInv, WGTypes, Job
  <2>. QED BY <1>1, <2>1, <2>2 DEF WGInv, WGTypes, MarksFree, wg_vars
<1>2. ASSUME NEW g \in WgGates, WGRound(g) PROVE WGInv'
  BY <1>2, LookKeeps, JobKeeps DEF WGRound
<1>3. CASE WGRestart
  <2>1. SessionInv' /\ OneGate'
    BY <1>3, SessionStep, ServerStep DEF WGInv, WGRestart, Next
  <2>. QED BY <1>3, <2>1 DEF WGRestart, WGInv, WGTypes, MarksFree
<1>. QED BY <1>1, <1>2, <1>3 DEF WGNext, Next, all_vars

(***************************************************************************)
(* A session has one gate for ever, and a round marks only free ones.      *)
(***************************************************************************)
THEOREM WGInvariance == WGSpec => []WGInv
<1>1. WGInit => WGInv
  BY WGInitInv
<1>2. WGInv /\ [WGNext]_all_vars => WGInv'
  BY WGStep
<1>. QED BY <1>1, <1>2, PTL DEF WGSpec

(***************************************************************************)
(* Every variable of the server with its WireGuard service keeps its type. *)
(***************************************************************************)
THEOREM WGTypeCorrect == WGSpec => []WGTypeOK
<1>1. GoodSession \subseteq Session /\ GoodHeld \subseteq Held
  BY DEF GoodSession, GoodHeld, Held
<1>2. WGInv => WGTypeOK
  BY <1>1 DEF WGInv, WGTypes, WGTypeOK, SessionInv, Good, GoodRows, GoodObjects, Rest, TypeOK
<1>. QED BY <1>2, WGInvariance, PTL

(***************************************************************************)
(* A session of a paid gate stays in the table until its expiry, although  *)
(* the rounds of WGServerService mark rows that they read earlier, and     *)
(* the clean-up and the handlers run beside them.                          *)
(***************************************************************************)
THEOREM PaidStays == WGSpec => PaidIsKept
<1>1. ASSUME WGInv, [WGNext]_all_vars, NEW s \in Sids,
             Visible(s), ~IsFree(db[s].gate), IsFresh(db[s], clock)
      PROVE  Visible(s)'
  <2>1. CASE \E a \in Actors : Operate(a)
    <3>1. PICK a \in Actors : Operate(a)
      BY <2>1
    <3>2. CASE DoSave(a)
      <4>1. obj[a] \in GoodHeld
        BY <1>1, <3>2, DoingGood DEF DoSave, WGInv, SessionInv
      <4>2. obj[a].data # None /\ obj[a].sid \in Sids
        BY <4>1, NoneAssumption DEF GoodHeld, GoodSession
      <4>. QED BY <1>1, <3>2, <4>1, <4>2 DEF DoSave, Visible, WGInv, SessionInv, Good, GoodRows
    <3>3. CASE DoActivate(a) \/ DoCredit(a) \/ DoPrepare(a) \/ DoLimit(a)
      BY <1>1, <3>3 DEF DoActivate, DoCredit, DoPrepare, DoLimit, store, Visible
    <3>. QED BY <3>1, <3>2, <3>3 DEF Operate
  <2>2. CASE Cleanup
    BY <1>1, <2>2 DEF Cleanup, Visible
  <2>3. CASE WalletStep \/ FindInactive \/ Report \/ TakeNext \/ Tick \/ Crash
    BY <1>1, <2>3 DEF WalletStep, Scan, ScanFailed, ProcessPayment, FindInactive, Report, TakeNext, Tick,
                      Crash, store, Visible
  <2>4. ASSUME NEW w \in Workers, Serve(w) PROVE Visible(s)'
    BY <1>1, <2>4 DEF Serve, PostSession, GetSession, RekeySession, store, Visible
  <2>5. CASE \E ts \in SUBSET Payable : Block(ts)
    BY <1>1, <2>5 DEF Block, store, Visible
  <2>6. ASSUME NEW g \in WgGates, WGRound(g) PROVE Visible(s)'
    <3>1. CASE Mark(g)
      <4>1. PICK j \in jobs[g] : /\ j.do = "mark" /\ UNCHANGED db
                                 /\ deleted' = deleted \cup {r \in {j.sid} : db[r] # None}
        BY <3>1 DEF Mark
      <4>2. CopiesIn(j.sid, FreeGates)
        BY <1>1, <2>6, <4>1 DEF WGInv, MarksFree
      <4>3. j.sid # s
        BY <1>1, <4>2 DEF CopiesIn, FreeGates, Visible
      <4>. QED BY <1>1, <4>1, <4>3 DEF Visible
    <3>2. CASE Gather(g) \/ FindPeers(g) \/ RemovePeer(g) \/ Expel(g) \/ AddPeer(g)
      BY <1>1, <3>2 DEF Gather, FindPeers, RemovePeer, Expel, AddPeer, vars, store, Visible
    <3>. QED BY <2>6, <3>1, <3>2 DEF WGRound
  <2>7. CASE UNCHANGED all_vars
    BY <1>1, <2>7 DEF all_vars, vars, store, Visible
  <2>. QED BY <1>1, <2>1, <2>2, <2>3, <2>4, <2>5, <2>6, <2>7 DEF WGNext, WGRestart, Step, RefreshStep
<1>2. WGInv /\ [WGNext]_all_vars =>
        [\A s \in Sids :
           Visible(s) /\ ~IsFree(db[s].gate) /\ IsFresh(db[s], clock) => Visible(s)']_all_vars
  BY <1>1
<1>. QED BY <1>2, WGInvariance, PTL DEF WGSpec, PaidIsKept
=============================================================================

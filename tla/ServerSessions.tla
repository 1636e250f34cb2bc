---------------------------- MODULE ServerSessions ----------------------------
(***************************************************************************)
(* The sessions of a server: one table, and the processes and threads that *)
(* read rows of it into objects, work on them and write whole rows back.   *)
(*                                                                         *)
(*   Wallet     the wallet process: scans the chain for incoming transfers *)
(*              and credits them to sessions (lib/wallet.py);              *)
(*   Refresher  the thread of server.py that runs refresh_status;          *)
(*   Workers    the threads of the HTTP manager (server/http.py).          *)
(*                                                                         *)
(* An actor that has read a row holds the object in obj and the operations *)
(* it has still to do on it in prog; each operation is one step, so other  *)
(* actors act between any two of them.  The server has no lock: only the   *)
(* single statements on the table are atomic.                              *)
(***************************************************************************)
EXTENDS SessionRecord, FiniteSetsExt

CONSTANTS
  Sids,         \* session ids that can be handed out, each with its payment id
  TxSession,    \* the session whose payment id a transfer carries
  None,         \* no row, no object
  Wallet, Refresher, Workers,
  Days,         \* the lengths clients ask for; 0: not said
  PurgeAfter,   \* how long a deleted row is kept after it expired
  FirstSkew,    \* blocks the wallet looks back after a start ...
  LaterSkew,    \* ... and at every later scan
  ScansFail,    \* can the wallet daemon fail to list transfers?
  MaxClock, MaxTip, MaxRequests, MaxCrashes    \* bounds of the model

ASSUME SidAssumption == TxSession \in [Txs -> Sids]
ASSUME ActorAssumption == Wallet # Refresher /\ {Wallet, Refresher} \cap Workers = {}
ASSUME NoneAssumption == None \notin Session
ASSUME DaysAssumption == Days \subseteq Nat
ASSUME ScanAssumption ==
  /\ FirstSkew \in Nat /\ LaterSkew \in Nat
  /\ ScansFail \in BOOLEAN
ASSUME BoundAssumption ==
  /\ PurgeAfter \in Nat
  /\ MaxClock \in Nat \ {0} /\ MaxTip \in Nat /\ MaxRequests \in Nat /\ MaxCrashes \in Nat

Actors == {Wallet, Refresher} \cup Workers

VARIABLES
  db,        \* the rows of the table, by session id
  deleted,   \* rows with the deleted column set
  issued,    \* session ids handed out so far
  peers,     \* client keys on the WireGuard interface of each gate
  clock,     \* time, in ticks
  mined,     \* height of each transfer on the chain, 0: not mined
  tip,       \* height of the chain
  obj,       \* the session object each actor works on
  prog,      \* the operations left to do on it
  inbox,     \* transfers of the scan the wallet has still to process
  skew,      \* how far back the wallet's next scan looks
  batch,     \* sessions of the refresher's last find, still to activate
  stage,     \* what the refresher does next
  requests,  \* HTTP requests so far
  crashes    \* restarts so far

store   == <<db, deleted, issued>>
chain   == <<mined, tip>>
objects == <<obj, prog>>
wallet  == <<inbox, skew>>
refresh == <<batch, stage>>
budget  == <<requests, crashes>>
vars    == <<store, peers, clock, chain, objects, wallet, refresh, budget>>

-------------------------------------------------------------------------------
(***************************************************************************)
(* Operations on an object.                                                *)
(***************************************************************************)
Activate   == [do |-> "activate"]
Save       == [do |-> "save"]
Limit      == [do |-> "limit"]
Credit(t)  == [do |-> "credit", tx |-> t]
Prepare(k) == [do |-> "prepare", key |-> k]

Ops == {Activate, Save, Limit} \cup {Credit(t) : t \in Txs} \cup {Prepare(k) : k \in Keys}

Held == [sid : Sids, data : Session]

TypeOK ==
  /\ db \in [Sids -> Session \cup {None}]
  /\ deleted \subseteq Sids /\ issued \subseteq Sids
  /\ peers \in [WgGates -> SUBSET Keys]
  /\ clock \in 1..MaxClock
  /\ mined \in [Txs -> 0..MaxTip] /\ tip \in 0..MaxTip
  /\ obj \in [Actors -> Held \cup {None}]
  /\ prog \in [Actors -> Seq(Ops)]
  /\ \A a \in Actors : prog[a] # <<>> => obj[a] \in Held
  /\ inbox \subseteq Txs /\ skew \in {FirstSkew, LaterSkew}
  /\ batch \subseteq Held /\ stage \in {"cleanup", "find", "report"}
  /\ requests \in 0..MaxRequests /\ crashes \in 0..MaxCrashes

Init ==
  /\ db = [s \in Sids |-> None]
  /\ deleted = {} /\ issued = {} /\ peers = [g \in WgGates |-> {}]
  /\ clock = 1
  /\ mined = [t \in Txs |-> 0] /\ tip = 0
  /\ obj = [a \in Actors |-> None]
  /\ prog = [a \in Actors |-> <<>>]
  /\ inbox = {} /\ skew = FirstSkew
  /\ batch = {} /\ stage = "cleanup"
  /\ requests = 0 /\ crashes = 0

\* A row that find() and get() return: deleted IS FALSE.
Visible(s) == db[s] # None /\ s \notin deleted

Idle(a) == prog[a] = <<>>

\* Actor a goes on with object s and operations p; with none left it drops the object.
Continue(a, s, p) ==
  /\ prog' = [prog EXCEPT ![a] = p]
  /\ obj' = [obj EXCEPT ![a] = IF p = <<>> THEN None ELSE s]

\* What the constructor does when a row is read, before anything else is done.
OnLoad(s) == IF ActivatesOnLoad(s) THEN <<Activate>> ELSE <<>>

\* Actor a reads row s and goes on with p.
Read(a, s, p) ==
  Continue(a, [sid |-> s, data |-> Loaded(db[s])], OnLoad(db[s]) \o p)

Doing(a, what) == ~Idle(a) /\ Head(prog[a]).do = what

(***************************************************************************)
(* activate(): the peer is added to the interface first, the object is     *)
(* changed, and the row is saved by an operation of its own.  An object    *)
(* that cannot be activated is left as it is.                              *)
(***************************************************************************)
DoActivate(a) ==
  /\ Doing(a, "activate")
  /\ LET s == obj[a].data IN
       \/ /\ CanActivate(s)
          /\ peers' = IF s.gate \in WgGates
                      THEN [peers EXCEPT ![s.gate] = @ \cup {s.wg}] ELSE peers
          /\ Continue(a, [obj[a] EXCEPT !.data = Activated(s, clock)],
                      <<Save>> \o Tail(prog[a]))
       \/ /\ ~CanActivate(s)
          /\ Continue(a, obj[a], Tail(prog[a]))
          /\ UNCHANGED peers
  /\ UNCHANGED <<store, clock, chain, wallet, refresh, budget>>

\* Mutant: an expired object is saved like any other.
DoSaveExpired(a) ==
  /\ Doing(a, "save")
  /\ db' = [db EXCEPT ![obj[a].sid] = obj[a].data]
  /\ deleted' = deleted \ {obj[a].sid}
  /\ Continue(a, obj[a], Tail(prog[a]))
  /\ UNCHANGED <<issued, peers, clock, chain, wallet, refresh, budget>>

(***************************************************************************)
(* save(): the whole row is replaced by the object and is no longer        *)
(* deleted.  An object that has expired meanwhile is not saved.            *)
(***************************************************************************)
DoSave(a) ==
  /\ Doing(a, "save")
  /\ LET o == obj[a] IN
       \/ /\ IsFresh(o.data, clock)
          /\ db' = [db EXCEPT ![o.sid] = o.data]
          /\ deleted' = deleted \ {o.sid}
       \/ ~IsFresh(o.data, clock) /\ UNCHANGED <<db, deleted>>
  /\ Continue(a, obj[a], Tail(prog[a]))
  /\ UNCHANGED <<issued, peers, clock, chain, wallet, refresh, budget>>

\* Mutant: the list is not looked at.
DoCreditAgain(a) ==
  /\ Doing(a, "credit")
  /\ LET t == Head(prog[a]).tx
         s == obj[a].data IN
       Continue(a, [obj[a] EXCEPT !.data = Credited(s, t)],
                (IF Credited(s, t).paid THEN <<Activate>> ELSE <<>>)
                \o <<Save>> \o Tail(prog[a]))
  /\ UNCHANGED <<store, peers, clock, chain, wallet, refresh, budget>>

\* Mutant: a payment that completes the price leaves the saving to activate().
DoCreditUnsaved(a) ==
  /\ Doing(a, "credit")
  /\ LET t == Head(prog[a]).tx
         s == obj[a].data IN
       Continue(a, IF t \in s.payments THEN obj[a]
                   ELSE [obj[a] EXCEPT !.data = Credited(s, t)],
                IF t \in s.payments THEN Tail(prog[a])
                ELSE (IF Credited(s, t).paid THEN <<Activate>> ELSE <<Save>>)
                     \o Tail(prog[a]))
  /\ UNCHANGED <<store, peers, clock, chain, wallet, refresh, budget>>

(***************************************************************************)
(* add_payment(): a transfer that is in the list already is ignored; else  *)
(* the session is activated when its price is covered, and saved.          *)
(***************************************************************************)
DoCredit(a) ==
  /\ Doing(a, "credit")
  /\ LET t == Head(prog[a]).tx
         s == obj[a].data IN
       \/ /\ t \in s.payments
          /\ Continue(a, obj[a], Tail(prog[a]))
       \/ /\ t \notin s.payments
          /\ Continue(a, [obj[a] EXCEPT !.data = Credited(s, t)],
                      IF Credited(s, t).paid THEN <<Activate, Save>> \o Tail(prog[a])
                      ELSE <<Save>> \o Tail(prog[a]))
  /\ UNCHANGED <<store, peers, clock, chain, wallet, refresh, budget>>

\* prepare_server_session(): only the object changes.
DoPrepare(a) ==
  /\ Doing(a, "prepare")
  /\ Continue(a, [obj[a] EXCEPT !.data = Prepared(@, Head(prog[a]).key)], Tail(prog[a]))
  /\ UNCHANGED <<store, peers, clock, chain, wallet, refresh, budget>>

\* The refusal of a free session that is too long (463): the request ends here.
DoLimit(a) ==
  /\ Doing(a, "limit")
  /\ Continue(a, obj[a],
              IF DaysLeft(obj[a].data, clock) > MaxFreeDays THEN <<>> ELSE Tail(prog[a]))
  /\ UNCHANGED <<store, peers, clock, chain, wallet, refresh, budget>>

Operate(a) == DoActivate(a) \/ DoSave(a) \/ DoCredit(a) \/ DoPrepare(a) \/ DoLimit(a)

-------------------------------------------------------------------------------
(***************************************************************************)
(* The wallet process.                                                     *)
(***************************************************************************)

\* Mutant: transfers of the pool are listed, and processed, with the others.
ScanPool ==
  /\ Idle(Wallet) /\ inbox = {}
  /\ inbox' = {t \in Txs : mined[t] = 0 \/ mined[t] >= tip - skew}
  /\ skew' = LaterSkew
  /\ UNCHANGED <<store, peers, clock, chain, objects, refresh, budget>>

\* A round of the loop: the transfers of the last skew blocks are listed.
Scan ==
  /\ Idle(Wallet) /\ inbox = {}
  /\ inbox' = {t \in Txs : mined[t] > 0 /\ mined[t] >= tip - skew}
  /\ skew' = LaterSkew
  /\ UNCHANGED <<store, peers, clock, chain, objects, refresh, budget>>

\* The same round when get_transfers fails: the next one looks back less all the same.
ScanFailed ==
  /\ ScansFail
  /\ Idle(Wallet) /\ inbox = {}
  /\ skew' = LaterSkew
  /\ UNCHANGED <<store, peers, clock, chain, objects, inbox, refresh, budget>>

\* Mutant: deleted rows are found as well.
ProcessPaymentDeleted(t) ==
  /\ Idle(Wallet) /\ t \in inbox
  /\ inbox' = inbox \ {t}
  /\ IF db[TxSession[t]] # None THEN Read(Wallet, TxSession[t], <<Credit(t)>>)
     ELSE UNCHANGED objects
  /\ UNCHANGED <<store, peers, clock, chain, skew, refresh, budget>>

\* process_payment(): the session is found by payment id, and credited.
ProcessPayment(t) ==
  /\ Idle(Wallet) /\ t \in inbox
  /\ inbox' = inbox \ {t}
  /\ \/ /\ Visible(TxSession[t])
        /\ Read(Wallet, TxSession[t], <<Credit(t)>>)
     \/ ~Visible(TxSession[t]) /\ UNCHANGED objects
  /\ UNCHANGED <<store, peers, clock, chain, skew, refresh, budget>>

-------------------------------------------------------------------------------
\* Mutant: only sessions that are not active expire.
CleanupInactive ==
  /\ Idle(Refresher) /\ batch = {} /\ stage = "cleanup"
  /\ deleted' = deleted \cup {s \in Sids : /\ db[s] # None /\ ~IsActive(db[s])
                                           /\ ~IsFresh(db[s], clock)}
  /\ stage' = "find"
  /\ UNCHANGED <<db, issued, peers, clock, chain, objects, wallet, batch, budget>>

(***************************************************************************)
(* The refresh thread: cleanup(), then every inactive and fresh session is *)
(* tried, then repr(sessions), which reads every row once more.            *)
(***************************************************************************)
Cleanup ==
  /\ Idle(Refresher) /\ batch = {} /\ stage = "cleanup"
  /\ LET gone   == deleted \cup {s \in Sids : db[s] # None /\ ~IsFresh(db[s], clock)}
         purged == {s \in gone : ~IsFresh(db[s], clock - PurgeAfter)}
     IN /\ db' = [s \in Sids |-> IF s \in purged THEN None ELSE db[s]]
        /\ deleted' = gone \ purged
  /\ stage' = "find"
  /\ UNCHANGED <<issued, peers, clock, chain, objects, wallet, batch, budget>>

\* The constructor's activate() and the loop's are one attempt: a second one does nothing.
FindInactive ==
  /\ Idle(Refresher) /\ batch = {} /\ stage = "find"
  /\ batch' = {[sid |-> s, data |-> Loaded(db[s])] :
                 s \in {s \in Sids : /\ Visible(s)
                                     /\ ~IsActive(db[s])
                                     /\ IsFresh(db[s], clock)}}
  /\ stage' = "report"
  /\ UNCHANGED <<store, peers, clock, chain, objects, wallet, budget>>

\* repr(sessions): reading changes nothing but the sessions that activate on load.
Report ==
  /\ Idle(Refresher) /\ batch = {} /\ stage = "report"
  /\ batch' = {[sid |-> s, data |-> db[s]] :
                 s \in {s \in Sids : Visible(s) /\ ActivatesOnLoad(db[s])}}
  /\ stage' = "cleanup"
  /\ UNCHANGED <<store, peers, clock, chain, objects, wallet, budget>>

\* The next session of the list; the rows may have changed since it was read.
TakeNext ==
  /\ Idle(Refresher)
  /\ \E o \in batch :
       /\ batch' = batch \ {o}
       /\ Continue(Refresher, o, <<Activate>>)
  /\ UNCHANGED <<store, peers, clock, chain, wallet, stage, budget>>

-------------------------------------------------------------------------------
(***************************************************************************)
(* The requests of the HTTP manager, each handled by a thread of its own.  *)
(***************************************************************************)
Request(w) ==
  /\ Idle(w)
  /\ requests < MaxRequests
  /\ requests' = requests + 1

(***************************************************************************)
(* POST /api/session: a new session for gate g and d days; k is the "wg"   *)
(* key of the body, NoKey without one.  A free session that is not "wg" is *)
(* activated, and so saved, before its length is looked at.                *)
(***************************************************************************)
PostSession(w, s, g, d, k) ==
  /\ Request(w)
  /\ s \notin issued
  /\ d = 0 => IsFree(g)
  /\ issued' = issued \cup {s}
  /\ Continue(w, [sid |-> s, data |-> Generate(g, d, clock)],
       (IF IsFree(g) /\ g \notin WgGates THEN <<Activate>> ELSE <<>>)
       \o (IF IsFree(g) THEN <<Limit>> ELSE <<>>)
       \o (IF g \in WgGates /\ k # NoKey THEN <<Prepare(k)>> ELSE <<>>)
       \o <<Save>>)
  /\ UNCHANGED <<db, deleted, peers, clock, chain, wallet, refresh, crashes>>

\* GET /api/session, and a reuse, which fails after it has read the session.
GetSession(w, s) ==
  /\ Request(w)
  /\ Visible(s)
  /\ Read(w, s, <<>>)
  /\ UNCHANGED <<store, peers, clock, chain, wallet, refresh, crashes>>

\* GET /api/session/rekey: a new client key for a "wg" session, paid or not, fresh or not.
RekeySession(w, s, k) ==
  /\ Request(w)
  /\ Visible(s)
  /\ db[s].gate \in WgGates
  /\ Read(w, s, <<Prepare(k), Save>>)
  /\ UNCHANGED <<store, peers, clock, chain, wallet, refresh, crashes>>

Serve(w) ==
  \E s \in Sids :
    \/ \E g \in Gates, d \in Days, k \in Keys \cup {NoKey} : PostSession(w, s, g, d, k)
    \/ GetSession(w, s)
    \/ \E k \in Keys : RekeySession(w, s, k)

-------------------------------------------------------------------------------
(***************************************************************************)
(* The world: time, the chain, and a crash and restart of the server.  A   *)
(* client pays for a session with a price when it has been told its        *)
(* payment id, that is after the session was saved.  A restart forgets     *)
(* what the processes held; the table and the WireGuard interfaces stay.   *)
(***************************************************************************)
Tick ==
  /\ clock < MaxClock
  /\ clock' = clock + 1
  /\ UNCHANGED <<store, peers, chain, objects, wallet, refresh, budget>>

Block(ts) ==
  /\ tip < MaxTip
  /\ tip' = tip + 1
  /\ mined' = [t \in Txs |-> IF t \in ts THEN tip + 1 ELSE mined[t]]
  /\ UNCHANGED <<store, peers, clock, objects, wallet, refresh, budget>>

Payable == {t \in Txs : /\ mined[t] = 0
                        /\ db[TxSession[t]] # None
                        /\ ~IsFree(db[TxSession[t]].gate)}

Crash ==
  /\ crashes < MaxCrashes
  /\ crashes' = crashes + 1
  /\ obj' = [a \in Actors |-> None]
  /\ prog' = [a \in Actors |-> <<>>]
  /\ inbox' = {} /\ skew' = FirstSkew
  /\ batch' = {} /\ stage' = "cleanup"
  /\ UNCHANGED <<store, peers, clock, chain, requests>>

-------------------------------------------------------------------------------
WalletStep  == Scan \/ ScanFailed \/ \E t \in Txs : ProcessPayment(t)
RefreshStep == Cleanup \/ FindInactive \/ Report \/ TakeNext

Step ==
  \/ \E a \in Actors : Operate(a)
  \/ WalletStep
  \/ RefreshStep
  \/ \E w \in Workers : Serve(w)
  \/ Tick
  \/ \E ts \in SUBSET Payable : Block(ts)

Next == Step \/ Crash

Spec == Init /\ [][Next]_vars

(***************************************************************************)
(* Every process goes on: the operations are plain calls, the wallet's     *)
(* loop and the refresh thread run for ever, and the wallet daemon lists   *)
(* the transfers again and again.  Nothing obliges clients, miners or the  *)
(* clock.                                                                  *)
(***************************************************************************)
Fairness ==
  /\ \A a \in Actors : WF_vars(Operate(a))
  /\ WF_vars(Scan)
  /\ \A t \in Txs : WF_vars(ProcessPayment(t))
  /\ WF_vars(RefreshStep)

FairSpec == Spec /\ Fairness

-------------------------------------------------------------------------------
(***************************************************************************)
(* Properties.                                                             *)
(***************************************************************************)

\* A session object, or row, of session s that no code path should produce otherwise:
\* if it is active, its credit covers its price and its term runs from its activation.
Sound(d) ==
  IsActive(d) => /\ d.credit >= d.price
                 /\ d.expires = d.activated + d.days * DayTicks

(***************************************************************************)
(* A row that is active has been paid, and ends its days after it was      *)
(* activated, whoever wrote it last: activate() tests a copy of the row,   *)
(* and three kinds of processes write copies back.                         *)
(***************************************************************************)
ActiveIsPaidFor == \A s \in Sids : db[s] # None => Sound(db[s])

(***************************************************************************)
(* A session is credited only with transfers that are on the chain and     *)
(* carry its payment id, whichever copy of the row was written last.       *)
(***************************************************************************)
MinedFor(s) == {t \in Txs : TxSession[t] = s /\ mined[t] > 0}

CreditedAreMined ==
  \A s \in Sids : db[s] # None => db[s].payments \subseteq MinedFor(s)

(***************************************************************************)
(* No transfer is counted twice: scans overlap, so each one is listed      *)
(* again and again, and a row may go back to an older copy in between.     *)
(***************************************************************************)
CreditIsSum ==
  \A s \in Sids : db[s] # None =>
    db[s].credit = MapThenSumSet(LAMBDA t : TxAmount[t], db[s].payments)

(***************************************************************************)
(* Without contributions, an active session was paid its list price: the   *)
(* price per day times the days it runs.                                   *)
(***************************************************************************)
ActiveCoversListPrice ==
  ContribPercent = 0 =>
    \A s \in Sids : db[s] # None /\ IsActive(db[s]) =>
      db[s].credit >= DailyPrice[db[s].gate] * db[s].days

\* Session s was handed out, no find() returns it, and no process holds a copy of it.
Buried(s) ==
  /\ s \in issued
  /\ ~Visible(s)
  /\ \A a \in Actors : ~Idle(a) => obj[a].sid # s
  /\ \A o \in batch : o.sid # s

(***************************************************************************)
(* A session that is gone, from the table and from every process, never    *)
(* comes back: not by a late payment, a scan, a restart or a refresh.      *)
(***************************************************************************)
BuriedStaysBuried == [][\A s \in Sids : Buried(s) => Buried(s)']_vars

Live(s) == Visible(s) /\ IsFresh(db[s], clock)

(***************************************************************************)
(* In the end every transfer the wallet still looks back at is credited to *)
(* its session, and a session whose price is covered is active: what a     *)
(* stale copy or a crash undoes is done again by a later scan or refresh.  *)
(***************************************************************************)
PaymentsHonoured ==
  /\ \A t \in Txs :
       <>[](/\ mined[t] > 0 /\ mined[t] >= tip - LaterSkew
            /\ Live(TxSession[t])
            => t \in db[TxSession[t]].payments)
  /\ \A s \in Sids : <>[](Live(s) => ~CanActivate(db[s]))

(***************************************************************************)
(* A session past its expiry disappears for good, or is given a new term   *)
(* by a payment that came in time to be found.                             *)
(***************************************************************************)
ExpiredIsBuried ==
  \A s \in Sids :
    (db[s] # None /\ ~IsFresh(db[s], clock)) ~> (Buried(s) \/ Live(s))

(***************************************************************************)
(* What a client pays the server and what the server passes on make up the *)
(* list price, as tests/sessions.py:76 asserts of a new session:           *)
(* session2.get_price() + session2.get_contributions_price() is the price  *)
(* without contributions.  A saved session is to keep that.                *)
(***************************************************************************)
PriceAddsUp ==
  \A s \in Sids : db[s] # None =>
    LET d == db[s]
        given == IF d.contributions = <<>> THEN 0 ELSE d.contributions[1]
    IN d.price + given = DailyPrice[d.gate] * d.days

(***************************************************************************)
(* "Maximum length of free session in days", the server says of            *)
(* --max-free-session-days: no free session that runs is longer.           *)
(***************************************************************************)
FreeTermBounded ==
  \A s \in Sids : Visible(s) /\ IsActive(db[s]) /\ IsFree(db[s].gate) =>
    db[s].days <= MaxFreeDays
==============================================================================

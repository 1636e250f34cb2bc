---------------------------- MODULE ClientSessions ----------------------------
(***************************************************************************)
(* The sessions a client knows, and what it pays for them.  The table is   *)
(* written by several actors without a lock around what they read and then *)
(* write: the thread of ProxyService that asks the server about sessions   *)
(* which are not paid (refresh_status of lib/sessions.py), the requests of *)
(* the user (client/http.py, a thread each) and the thread that connects   *)
(* by itself (auto_connect of client.py).  The server is external: what it *)
(* says of a session is what the client stores.                            *)
(***************************************************************************)
EXTENDS Naturals, FiniteSets, FiniteSetsExt, NoValue

CONSTANTS
  TableSids, Free,     \* sessions the server may make; those of the free gate
  Users,          \* threads of the HTTP server
  AutoPay,        \* is --auto-pay-days set?
  Urls,           \* the gates that --auto-connect names, besides "paid"
  AutoReconnect,  \* is --auto-reconnect set?
  Faults,         \* "network", "refusal", "activation", "loss", "crash"
  UnpaidTerm, PaidTerm,   \* --unpaid-expiry and the days of a session
  PurgeAfter,     \* the 30 days for which a row is kept that has expired
  Initially,          \* the table at first
  MaxClock, MaxRequests, MaxPays, MaxCrashes   \* bounds of the model

Record == [paid : BOOLEAN, active : BOOLEAN, expires : Nat]

SessionAssumption ==
  /\ IsFiniteSet(TableSids) /\ Free \subseteq TableSids
  /\ None \notin TableSids /\ None \notin Record
  /\ Initially \in [TableSids -> Record \cup {None}]
  /\ {AutoPay, AutoReconnect} \subseteq BOOLEAN /\ Urls \subseteq {"free", "paid"}
  /\ Faults \subseteq {"network", "refusal", "activation", "loss", "crash"}
SessionBounds ==
  /\ UnpaidTerm \in Nat /\ PaidTerm \in Nat /\ PurgeAfter \in Nat
  /\ {MaxClock, MaxRequests, MaxPays, MaxCrashes} \subseteq Nat

VARIABLES
  server,      \* what the server has of each session, or None
  made,        \* sessions the server has made
  wallet,      \* how many payments are on their way, by session
  table,        \* the client's table
  deleted,     \* rows marked as deleted
  term,        \* when a session expires, by what the client was told or has stored last
  clock,
  refresh,     \* the thread that asks the server: what it does, of which session
  user,        \* the threads of requests: what each does, of which session
  auto,        \* the thread that connects
  connections, \* sessions with a connection
  pays,        \* Pay messages sent, by session
  requests, crashes

stock  == <<table, deleted, term>>
actors == <<refresh, user, auto>>
limits  == <<requests, crashes>>
table_vars    == <<server, made, wallet, stock, clock, actors, connections, pays, limits>>

Kinds  == {"free", "paid"}
Of(k)  == IF k = "free" THEN Free ELSE TableSids \ Free
Kind(s) == IF s \in Free THEN "free" ELSE "paid"

TableTypeOK ==
  /\ server \in [TableSids -> Record \cup {None}] /\ made \subseteq TableSids
  /\ wallet \in [TableSids -> 0..MaxPays]
  /\ table \in [TableSids -> Record \cup {None}] /\ deleted \subseteq TableSids
  /\ term \in [TableSids -> Nat]
  /\ clock \in 0..MaxClock
  /\ refresh \in [at : {"idle", "ask", "save", "dead"}, left : SUBSET TableSids,
                  sid : TableSids \cup {None}, data : Record \cup {None}]
  /\ user \in [Users -> [at : {"idle", "create", "answer"}, kind : Kinds, sid : TableSids \cup {None}]]
  /\ auto \in [at : {"start", "look", "save", "wait", "end"}, kind : Kinds,
               sid : TableSids \cup {None}, data : Record \cup {None}]
  /\ auto.at = "save" <=> auto.sid # None
  /\ connections \subseteq TableSids
  /\ pays \in [TableSids -> 0..MaxPays]
  /\ requests \in 0..MaxRequests /\ crashes \in 0..MaxCrashes
  /\ \A s \in TableSids : pays[s] > 0 => s \in made

Quiet   == [at |-> "idle", left |-> {}, sid |-> None, data |-> None]
Waiting == [at |-> "idle", kind |-> "free", sid |-> None]
Starting == [at |-> "start", kind |-> "free", sid |-> None, data |-> None]

TableInit ==
  /\ server = Initially /\ made = {s \in TableSids : Initially[s] # None}
  /\ wallet = [s \in TableSids |-> 0]
  /\ table = Initially /\ deleted = {}
  /\ term = [s \in TableSids |-> IF Initially[s] = None THEN 0 ELSE Initially[s].expires]
  /\ clock = 0
  /\ refresh = Quiet
  /\ user = [u \in Users |-> Waiting]
  /\ auto = Starting
  /\ connections = {}
  /\ pays = [s \in TableSids |-> 0]
  /\ requests = 0 /\ crashes = 0

Stored   == {s \in TableSids : table[s] # None} \ deleted
Fresh(r) == r.expires > clock

\* Session.save(): what has expired is not saved, and what is saved is not deleted.
SaveRow(s, r) ==
  IF Fresh(r)
  THEN /\ table' = [table EXCEPT ![s] = r] /\ deleted' = deleted \ {s}
       /\ term' = [term EXCEPT ![s] = r.expires]
  ELSE UNCHANGED stock

-------------------------------------------------------------------------------
(***************************************************************************)
(* The server, and the world.                                              *)
(***************************************************************************)

\* A session as the server makes it: a free one is active at once.
NewRecord(s) ==
  [paid |-> FALSE, active |-> s \in Free,
   expires |-> clock + (IF s \in Free THEN PaidTerm ELSE UnpaidTerm)]
Make(s) ==
  /\ s \notin made
  /\ made' = made \cup {s}
  /\ server' = [server EXCEPT ![s] = NewRecord(s)]

\* A payment is credited; the activation may fail, to be tried again later.
Confirm(s) ==
  /\ wallet[s] > 0
  /\ wallet' = [wallet EXCEPT ![s] = @ - 1]
  /\ \/ /\ server[s] # None /\ ~server[s].active
        /\ server' = [server EXCEPT ![s] = [paid |-> TRUE, active |-> TRUE,
                                            expires |-> clock + PaidTerm]]
     \/ /\ server[s] # None /\ ~server[s].active /\ "activation" \in Faults
        /\ server' = [server EXCEPT ![s].paid = TRUE]
     \/ /\ server[s] = None \/ (server[s] # None /\ server[s].active)
        /\ UNCHANGED server
  /\ UNCHANGED <<made, stock, clock, actors, connections, pays, limits>>

ActivateLater(s) ==
  /\ server[s] # None /\ server[s].paid /\ ~server[s].active
  /\ server' = [server EXCEPT ![s] = [paid |-> TRUE, active |-> TRUE, expires |-> clock + PaidTerm]]
  /\ UNCHANGED <<made, wallet, stock, clock, actors, connections, pays, limits>>

\* The server deletes what has expired, or loses a session.
Forget(s) ==
  /\ server[s] # None /\ (~Fresh(server[s]) \/ "loss" \in Faults)
  /\ server' = [server EXCEPT ![s] = None]
  /\ UNCHANGED <<made, wallet, stock, clock, actors, connections, pays, limits>>

\* The wallet refuses a payment.
Unpaid(s) ==
  /\ wallet[s] > 0
  /\ wallet' = [wallet EXCEPT ![s] = @ - 1]
  /\ UNCHANGED <<server, made, stock, clock, actors, connections, pays, limits>>

\* A connection ends by itself.
Drop(s) ==
  /\ s \in connections
  /\ connections' = connections \ {s}
  /\ UNCHANGED <<server, made, wallet, stock, clock, actors, pays, limits>>

Tick ==
  /\ clock < MaxClock
  /\ clock' = clock + 1
  /\ UNCHANGED <<server, made, wallet, stock, actors, connections, pays, limits>>

\* get_pay_msgs() to the wallet.
SendPay(s) ==
  /\ pays[s] < MaxPays
  /\ pays' = [pays EXCEPT ![s] = @ + 1]
  /\ wallet' = [wallet EXCEPT ![s] = @ + 1]

-------------------------------------------------------------------------------
(***************************************************************************)
(* refresh_status(): the clean-up, and then a question for every session   *)
(* that is not paid; half a minute lies between the answer and its use.    *)
(***************************************************************************)

\* Mutant: the sessions that are paid are asked about.
NotPaidPaid == {s \in Stored : table[s].paid}

NotPaid == {s \in Stored : ~table[s].paid}

\* What has expired is marked as deleted, and leaves the table when it has been so for long.
BeginRefresh ==
  /\ refresh.at = "idle"
  /\ LET gone   == deleted \cup {s \in TableSids : table[s] # None /\ ~Fresh(table[s])}
         purged == {s \in gone : table[s].expires + PurgeAfter <= clock} IN
       /\ table' = [s \in TableSids |-> IF s \in purged THEN None ELSE table[s]]
       /\ deleted' = gone \ purged
       /\ refresh' = [refresh EXCEPT !.at = "ask", !.left = NotPaid \ gone]
  /\ UNCHANGED <<server, made, wallet, term, clock, user, auto, connections, pays, limits>>

AskServer(s) ==
  /\ refresh.at = "ask" /\ s \in refresh.left
  /\ refresh' = [at |-> "save", left |-> refresh.left \ {s}, sid |-> s, data |-> server[s]]
  /\ UNCHANGED <<server, made, wallet, stock, clock, user, auto, connections, pays, limits>>

\* The server answers with an error: the next session is asked about.
AskRefused ==
  /\ "refusal" \in Faults
  /\ refresh.at = "ask"
  /\ \E s \in refresh.left : refresh' = [refresh EXCEPT !.left = @ \ {s}]
  /\ UNCHANGED <<server, made, wallet, stock, clock, user, auto, connections, pays, limits>>

\* The server is not reached: the exception ends the thread.
AskFails ==
  /\ "network" \in Faults
  /\ refresh.at = "ask" /\ refresh.left # {}
  /\ refresh' = [Quiet EXCEPT !.at = "dead"]
  /\ UNCHANGED <<server, made, wallet, stock, clock, user, auto, connections, pays, limits>>

\* Mutant: a session that the server does not know is removed, whatever it cost.
UseAnswerAny ==
  /\ refresh.at = "save"
  /\ IF refresh.data # None THEN SaveRow(refresh.sid, refresh.data)
     ELSE deleted' = deleted \cup {refresh.sid} /\ UNCHANGED <<table, term>>
  /\ refresh' = [refresh EXCEPT !.at = "ask", !.sid = None, !.data = None]
  /\ UNCHANGED <<server, made, wallet, clock, user, auto, connections, pays, limits>>

\* Of the sessions the server does not know only the free ones are removed.
UseAnswer ==
  /\ refresh.at = "save"
  /\ LET s == refresh.sid IN
       \/ refresh.data # None /\ SaveRow(s, refresh.data)
       \/ refresh.data = None /\ s \in Free /\ deleted' = deleted \cup {s} /\ UNCHANGED <<table, term>>
       \/ refresh.data = None /\ s \notin Free /\ UNCHANGED stock
  /\ refresh' = [refresh EXCEPT !.at = "ask", !.sid = None, !.data = None]
  /\ UNCHANGED <<server, made, wallet, clock, user, auto, connections, pays, limits>>

EndRefresh ==
  /\ refresh.at = "ask" /\ refresh.left = {}
  /\ refresh' = Quiet
  /\ UNCHANGED <<server, made, wallet, stock, clock, user, auto, connections, pays, limits>>

-------------------------------------------------------------------------------
(***************************************************************************)
(* The requests.                                                           *)
(***************************************************************************)
UserRequest(u) ==
  /\ user[u].at = "idle" /\ requests < MaxRequests
  /\ requests' = requests + 1

(***************************************************************************)
(* create_session(): a fresh session that is stored is the answer; when it *)
(* is not active, and automatic payment allows the days, it is paid (each  *)
(* time).  Otherwise the server is asked for a new one.                    *)
(***************************************************************************)
AskSession(u, k) ==
  /\ UserRequest(u)
  /\ LET fresh == {s \in Stored \cap Of(k) : Fresh(table[s])} IN
       \/ /\ fresh = {}
          /\ user' = [user EXCEPT ![u] = [at |-> "create", kind |-> k, sid |-> None]]
          /\ UNCHANGED <<wallet, pays>>
       \/ \E s \in fresh :
            /\ \/ ~table[s].active /\ ~table[s].paid /\ AutoPay /\ SendPay(s)
               \/ (table[s].active \/ table[s].paid \/ ~AutoPay) /\ UNCHANGED <<wallet, pays>>
            /\ UNCHANGED user
  /\ UNCHANGED <<server, made, stock, clock, refresh, auto, connections, crashes>>

CreateSession(u) ==
  /\ user[u].at = "create"
  /\ user' = [user EXCEPT ![u] = Waiting]
  /\ \E s \in Of(user[u].kind) : Make(s) /\ SaveRow(s, NewRecord(s))
  /\ UNCHANGED <<wallet, clock, refresh, auto, connections, pays, limits>>

\* The server refuses, or is not reached.
CreateFails(u) ==
  /\ user[u].at = "create"
  /\ user' = [user EXCEPT ![u] = Waiting]
  /\ UNCHANGED <<server, made, wallet, stock, clock, refresh, auto, connections, pays, limits>>

\* pay_session(): what is neither active nor paid is paid, before its expiry is looked at.
AskPay(u, s) ==
  /\ UserRequest(u)
  /\ s \in Stored /\ ~table[s].active /\ ~table[s].paid
  /\ SendPay(s)
  /\ user' = [user EXCEPT ![u] = [at |-> "answer", kind |-> Kind(s), sid |-> s]]
  /\ UNCHANGED <<server, made, stock, clock, refresh, auto, connections, crashes>>

(***************************************************************************)
(* The wait of pay_session() ends with its first round: the session is     *)
(* paid by now, or the comparison of a number with a list raises, and the  *)
(* payment stays sent although the answer is an error.                     *)
(***************************************************************************)
AnswerPay(u) ==
  /\ user[u].at = "answer"
  /\ user' = [user EXCEPT ![u] = Waiting]
  /\ UNCHANGED <<server, made, wallet, stock, clock, refresh, auto, connections, pays, limits>>

\* connect(): the session must be active; its expiry is not looked at.
AskConnect(u, s) ==
  /\ UserRequest(u)
  /\ s \in Stored /\ table[s].active
  /\ connections' = connections \cup {s}
  /\ UNCHANGED <<server, made, wallet, stock, clock, actors, pays, crashes>>

-------------------------------------------------------------------------------
(***************************************************************************)
(* auto_connect().                                                         *)
(***************************************************************************)
ToConnect(s) == connections' = connections \cup {s}

\* The first gate of the list, the next one, and the end of a round.
AutoGo(at, k) == auto' = [at |-> at, kind |-> k, sid |-> None, data |-> None]
EndRound      == AutoGo(IF AutoReconnect THEN "wait" ELSE "end", auto.kind)
FirstUrl ==
  \/ "free" \in Urls /\ AutoGo("look", "free")
  \/ Urls = {"paid"} /\ AutoGo("look", "paid")
  \/ Urls = {} /\ EndRound
NextUrl ==
  \/ auto.kind = "free" /\ "paid" \in Urls /\ AutoGo("look", "paid")
  \/ (auto.kind = "paid" \/ "paid" \notin Urls) /\ EndRound

(***************************************************************************)
(* Stored sessions are looked for by a parent that is null, but save()     *)
(* writes FALSE when there is none: none is found, and none connected.     *)
(***************************************************************************)
AutoStart ==
  /\ auto.at = "start"
  /\ FirstUrl
  /\ UNCHANGED <<server, made, wallet, stock, clock, refresh, user, connections, pays, limits>>

(***************************************************************************)
(* An active session is connected, and again in every round: the session   *)
(* itself, where its id is expected, matches no connection.                *)
(***************************************************************************)
AutoConnectActive ==
  /\ auto.at = "look"
  /\ \E s \in Stored \cap Of(auto.kind) : table[s].active /\ ToConnect(s)
  /\ NextUrl
  /\ UNCHANGED <<server, made, wallet, stock, clock, refresh, user, pays, limits>>

NoneActive == \A s \in Stored \cap Of(auto.kind) : ~table[s].active

\* A new session, paid before it is saved; one that has expired already is an error.
AutoCreate ==
  /\ auto.at = "look" /\ NoneActive
  /\ \E s \in Of(auto.kind) :
       /\ Make(s)
       /\ \/ /\ Fresh(NewRecord(s))
             /\ IF AutoPay THEN SendPay(s)
                ELSE UNCHANGED <<wallet, pays>>
             /\ auto' = [auto EXCEPT !.at = "save", !.sid = s, !.data = NewRecord(s)]
             /\ term' = [term EXCEPT ![s] = NewRecord(s).expires]
          \/ ~Fresh(NewRecord(s)) /\ NextUrl /\ UNCHANGED <<wallet, pays, term>>
  /\ UNCHANGED <<table, deleted, clock, refresh, user, connections, limits>>

\* Mutant: only an active session is saved.
AutoSaveActive ==
  /\ auto.at = "save"
  /\ IF auto.data.active THEN SaveRow(auto.sid, auto.data) ELSE UNCHANGED stock
  /\ ToConnect(auto.sid)
  /\ NextUrl
  /\ UNCHANGED <<server, made, wallet, clock, refresh, user, pays, limits>>

AutoSave ==
  /\ auto.at = "save"
  /\ SaveRow(auto.sid, auto.data)
  /\ ToConnect(auto.sid)
  /\ NextUrl
  /\ UNCHANGED <<server, made, wallet, clock, refresh, user, pays, limits>>

\* The server is not reached: the next gate, or the end of the thread.
AutoFails ==
  /\ auto.at = "look" /\ NoneActive
  /\ IF AutoReconnect THEN NextUrl ELSE AutoGo("end", auto.kind)
  /\ UNCHANGED <<server, made, wallet, stock, clock, refresh, user, connections, pays, limits>>

AutoAgain ==
  /\ auto.at = "wait" /\ Urls # {}
  /\ FirstUrl
  /\ UNCHANGED <<server, made, wallet, stock, clock, refresh, user, connections, pays, limits>>

\* The client is stopped at any moment, and started again.
Crash ==
  /\ "crash" \in Faults /\ crashes < MaxCrashes
  /\ crashes' = crashes + 1
  /\ refresh' = Quiet /\ user' = [u \in Users |-> Waiting] /\ auto' = Starting
  /\ connections' = {}
  /\ UNCHANGED <<server, made, wallet, stock, clock, pays, requests>>

-------------------------------------------------------------------------------
\* What the thread does by itself, and with the failures of the server.
RefreshWork == BeginRefresh \/ (\E s \in TableSids : AskServer(s)) \/ UseAnswer \/ EndRefresh
RefreshStep == RefreshWork \/ AskRefused \/ AskFails
UserStep(u) ==
  \/ \E k \in Kinds : AskSession(u, k)
  \/ CreateSession(u) \/ CreateFails(u) \/ AnswerPay(u)
  \/ \E s \in TableSids : AskPay(u, s) \/ AskConnect(u, s)
AutoStep ==
  \/ AutoStart \/ AutoConnectActive \/ AutoCreate \/ AutoSave \/ AutoFails \/ AutoAgain

TableNext ==
  \/ RefreshStep \/ (\E u \in Users : UserStep(u)) \/ AutoStep
  \/ \E s \in TableSids : Confirm(s) \/ ActivateLater(s) \/ Forget(s) \/ Unpaid(s) \/ Drop(s)
  \/ Tick \/ Crash

TableSpec == TableInit /\ [][TableNext]_table_vars

(***************************************************************************)
(* The two threads go on for ever, the server tries a failed activation    *)
(* again, and does not refuse every question about a session.              *)
(***************************************************************************)
TableFairSpec ==
  /\ TableSpec /\ WF_table_vars(RefreshWork) /\ WF_table_vars(AutoStep)
  /\ \A s \in TableSids : WF_table_vars(ActivateLater(s)) /\ SF_table_vars(AskServer(s))

-------------------------------------------------------------------------------
(***************************************************************************)
(* Properties.                                                             *)
(***************************************************************************)

(***************************************************************************)
(* A row is deleted only when it has expired or when the server no longer  *)
(* has the session: never because of an answer that other threads have     *)
(* overtaken in the two and a half minutes it takes to use it.             *)
(***************************************************************************)
DeletedForAReason ==
  \A s \in deleted : ~Fresh(table[s]) \/ (s \in Free /\ server[s] = None)

\* Sessions paid for, without a row although what the client was told of them is not over.
Unknown == {s \in TableSids : pays[s] > 0 /\ table[s] = None /\ term[s] > clock}

(***************************************************************************)
(* The client has the credentials of every session it has sent money for,  *)
(* until the term it knows of is over: the payment goes out before the     *)
(* session is saved, so that at most one session is lost in this way each  *)
(* time the client is stopped.                                             *)
(***************************************************************************)
PaidIsKnown == Cardinality(Unknown \ {auto.sid}) <= crashes

IsPaid(r) == r # None /\ r.paid
(***************************************************************************)
(* The client learns of every payment the server has credited, unless the  *)
(* session ends first on one of the two sides, or the server could not be  *)
(* reached: that ends the thread, and nobody asks again.                   *)
(***************************************************************************)
PaymentIsLearned ==
  \A s \in TableSids :
    ~<>[](s \in Stored \ deleted /\ IsPaid(server[s]) /\ ~IsPaid(table[s]) /\ refresh.at # "dead")

=============================================================================

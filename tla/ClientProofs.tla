----------------------------- MODULE ClientProofs -----------------------------
(***************************************************************************)
(* Theorems about the client: its table of sessions, its connections and   *)
(* their processes, and its end.                                           *)
(***************************************************************************)
EXTENDS ClientSessions, ClientProxy, ClientMain, FiniteSetTheorems, SequenceTheorems, TLAPS

-------------------------------------------------------------------------------
(***************************************************************************)
(* The table of sessions of the client.                                    *)
(***************************************************************************)

\* The sessions with a row, deleted or not.
Rows == {s \in TableSids : table[s] # None}

(***************************************************************************)
(* What every step relies on: rows are of sessions that were made, only    *)
(* rows are asked about and deleted, an answer "unknown" stays true, since *)
(* an id is given out once, and a session to be saved has no row as yet.   *)
(* What the client knows of a term is what its row says, or the session    *)
(* that is to be saved: a row may be purged, and save() may refuse a       *)
(* session, only when that term is over.                                   *)
(***************************************************************************)
RowInv ==
  /\ \A s \in TableSids : wallet[s] <= pays[s]
  /\ Rows \subseteq made /\ deleted \subseteq Rows /\ refresh.left \subseteq Rows
  /\ refresh.at = "save" => refresh.sid \in Rows
  /\ refresh.at = "save" /\ refresh.data = None => server[refresh.sid] = None
  /\ \A s \in Rows : term[s] = table[s].expires
  /\ auto.at = "save" =>
       auto.sid \in made \ Rows /\ auto.data \in Record /\ term[auto.sid] = auto.data.expires

TableInv == TableTypeOK /\ RowInv /\ DeletedForAReason /\ PaidIsKnown

\* What is assumed of the constants.
Given == SessionAssumption /\ SessionBounds

-------------------------------------------------------------------------------
\* A session the server makes has a record.
LEMMA NewIsRecord ==
  ASSUME Given, TableTypeOK, NEW s \in TableSids
  PROVE  NewRecord(s) \in Record
<1>1. clock \in Nat /\ PaidTerm \in Nat /\ UnpaidTerm \in Nat
  BY DEF Given, SessionBounds, TableTypeOK
<1> QED
  BY <1>1 DEF NewRecord, Record

\* save() keeps the table's type, adds no row but the one it saves, and deletes none.
LEMMA Saving ==
  ASSUME Given, TableTypeOK, RowInv, NEW s \in TableSids, NEW r \in Record, SaveRow(s, r)
  PROVE  /\ table' \in [TableSids -> Record \cup {None}]
         /\ deleted' \subseteq deleted
         /\ Rows' \subseteq Rows \cup {s} /\ Rows \subseteq Rows' /\ deleted' \subseteq Rows'
         /\ \A q \in deleted' : table'[q] = table[q] /\ table[q] # None
         /\ term' \in [TableSids -> Nat]
         /\ \A q \in Rows' : term'[q] = table'[q].expires
         /\ \A q \in TableSids : q # s => term'[q] = term[q]
         /\ Fresh(r) \/ term'[s] = term[s]
         /\ Fresh(r) => table'[s] # None
<1>1. /\ table \in [TableSids -> Record \cup {None}] /\ None \notin Record /\ r # None
      /\ term \in [TableSids -> Nat] /\ r.expires \in Nat
  BY DEF TableTypeOK, Given, SessionAssumption, Record
<1>2. deleted \subseteq Rows /\ \A q \in Rows : term[q] = table[q].expires
  BY DEF RowInv
<1>3. CASE Fresh(r)
  BY <1>1, <1>2, <1>3 DEF SaveRow, Rows
<1>4. CASE ~Fresh(r)
  BY <1>1, <1>2, <1>4 DEF SaveRow, Rows, stock
<1> QED
  BY <1>3, <1>4

\* The type invariant and RowInv hold at the start.
LEMMA TableStart ==
  ASSUME Given, TableInit
  PROVE  TableInv
<1>1. TableTypeOK
  <2>1. Quiet \in [at : {"idle", "ask", "save", "dead"}, left : SUBSET TableSids,
                   sid : TableSids \cup {None}, data : Record \cup {None}]
    BY DEF Quiet
  <2>2. Waiting \in [at : {"idle", "create", "answer"}, kind : Kinds, sid : TableSids \cup {None}]
    BY DEF Waiting, Kinds
  <2>3. /\ Starting \in [at : {"start", "look", "save", "wait", "end"}, kind : Kinds,
                         sid : TableSids \cup {None}, data : Record \cup {None}]
        /\ Starting.at # "save" /\ Starting.sid = None
    BY DEF Starting, Kinds
  <2>4. term \in [TableSids -> Nat]
    BY DEF TableInit, Given, SessionAssumption, Record
  <2> HIDE DEF Quiet, Waiting, Starting
  <2> QED
    BY <2>1, <2>2, <2>3, <2>4 DEF TableInit, TableTypeOK, Given, SessionAssumption, SessionBounds
<1>2. RowInv
  <2>1. \A s \in Rows : term[s] = table[s].expires
    BY DEF TableInit, Rows
  <2> QED
    BY <2>1 DEF TableInit, RowInv, Rows, Quiet, Starting
<1>3. DeletedForAReason
  BY DEF TableInit, DeletedForAReason
<1>4. PaidIsKnown
  <2>1. Unknown \ {auto.sid} = {}
    BY DEF TableInit, Unknown
  <2>2. crashes = 0
    BY DEF TableInit
  <2> QED
    BY <2>1, <2>2, FS_EmptySet DEF PaidIsKnown
<1> QED
  BY <1>1, <1>2, <1>3, <1>4 DEF TableInv

-------------------------------------------------------------------------------
(***************************************************************************)
(* Types.                                                                  *)
(***************************************************************************)
Asking == [at : {"idle", "ask", "save", "dead"}, left : SUBSET TableSids,
           sid : TableSids \cup {None}, data : Record \cup {None}]
Requesting == [at : {"idle", "create", "answer"}, kind : Kinds, sid : TableSids \cup {None}]
Connecting == [at : {"start", "look", "save", "wait", "end"}, kind : Kinds,
               sid : TableSids \cup {None}, data : Record \cup {None}]

\* The types of the server's side, of the rows, of the actors and of the bounds.
ServerType == /\ server \in [TableSids -> Record \cup {None}] /\ made \subseteq TableSids
              /\ clock \in 0..MaxClock
MoneyType  == /\ wallet \in [TableSids -> 0..MaxPays] /\ pays \in [TableSids -> 0..MaxPays]
              /\ \A s \in TableSids : pays[s] > 0 => s \in made
              /\ \A s \in TableSids : wallet[s] <= pays[s]
RowType    == /\ table \in [TableSids -> Record \cup {None}] /\ deleted \subseteq TableSids
              /\ term \in [TableSids -> Nat]
AutoType   == auto \in Connecting /\ (auto.at = "save" <=> auto.sid # None)
ActorType  == refresh \in Asking /\ user \in [Users -> Requesting] /\ AutoType
RestType   == connections \subseteq TableSids /\ requests \in 0..MaxRequests /\ crashes \in 0..MaxCrashes

\* The parts make up the type invariant.
LEMMA TypeParts ==
  TableTypeOK /\ RowInv =>
    ServerType /\ MoneyType /\ RowType /\ ActorType /\ RestType
BY DEF TableTypeOK, RowInv, ServerType, MoneyType, RowType, ActorType, AutoType, RestType,
       Asking, Requesting, Connecting

\* Also after a step.
LEMMA PartsType ==
  (ServerType /\ MoneyType /\ RowType /\ ActorType /\ RestType => TableTypeOK)'
BY DEF TableTypeOK, ServerType, MoneyType, RowType, ActorType, AutoType, RestType,
       Asking, Requesting, Connecting

\* Moving on to the next gate, or the next round, keeps the type.
LEMMA Going ==
  ASSUME Given, AutoType
  PROVE  /\ NextUrl => AutoType' /\ auto'.at # "save"
         /\ FirstUrl => AutoType' /\ auto'.at # "save"
         /\ AutoGo("end", auto.kind) => AutoType' /\ auto'.at # "save"
<1>1. ASSUME NEW at \in {"look", "wait", "end"}, NEW k \in Kinds, AutoGo(at, k)
      PROVE  AutoType' /\ auto'.at # "save"
  BY <1>1 DEF AutoGo, AutoType, Connecting
<1>2. auto.kind \in Kinds
  BY DEF AutoType, Connecting
<1>3. EndRound => AutoType' /\ auto'.at # "save"
  <2>1. CASE AutoReconnect
    BY <1>1, <1>2, <2>1 DEF EndRound
  <2>2. CASE ~AutoReconnect
    BY <1>1, <1>2, <2>2 DEF EndRound
  <2> QED
    BY <2>1, <2>2
<1>4. {"free", "paid"} \subseteq Kinds
  BY DEF Kinds
<1> QED
  BY <1>1, <1>2, <1>3, <1>4 DEF NextUrl, FirstUrl

\* A payment that is sent keeps the type of the counters.
LEMMA Paying ==
  ASSUME Given, ServerType, MoneyType, NEW s \in TableSids, SendPay(s), made \subseteq made', s \in made'
  PROVE  MoneyType'
BY DEF SendPay, MoneyType, Given, SessionBounds

\* The sessions that rows and requests are of.
LEMMA KindsOf == Given => \A k \in Kinds : Of(k) \subseteq TableSids
BY DEF Of, Kinds, Given, SessionAssumption

-------------------------------------------------------------------------------
(***************************************************************************)
(* What keeps the two properties.                                          *)
(***************************************************************************)

\* No new session is paid and without a row, but the one that is being saved.
LEMMA KnownKept ==
  ASSUME Given, TableInv, crashes' \in Nat, crashes' >= crashes,
         Unknown' \ {auto'.sid} \subseteq Unknown \ {auto.sid}
  PROVE  PaidIsKnown'
<1> DEFINE before == Unknown \ {auto.sid}
           after == Unknown' \ {auto'.sid}
<1>1. IsFiniteSet(before)
  BY FS_Subset DEF Unknown, Given, SessionAssumption
<1>2. IsFiniteSet(after) /\ Cardinality(after) <= Cardinality(before)
  BY <1>1, FS_Subset
<1>3. Cardinality(before) <= crashes /\ crashes \in Nat
  BY DEF TableInv, PaidIsKnown, Unknown, TableTypeOK
<1>4. Cardinality(before) \in Nat /\ Cardinality(after) \in Nat
  BY <1>1, <1>2, FS_CardinalityType
<1>5. Cardinality(after) <= crashes'
  BY <1>2, <1>3, <1>4
<1> QED
  BY <1>5 DEF PaidIsKnown, Unknown

\* A step that leaves the rows, the payments and the thread that connects alone.
LEMMA KnownSame ==
  ASSUME Given, TableInv, UNCHANGED <<pays, table, term, clock, auto, crashes>>
  PROVE  PaidIsKnown'
BY DEF TableInv, PaidIsKnown, Unknown

(***************************************************************************)
(* A deleted row keeps its reason while it stays as it is: time goes on,   *)
(* and the server does not get a session back that it has lost.            *)
(***************************************************************************)
LEMMA ReasonKept ==
  ASSUME Given, TableInv, clock' \in Nat, clock' >= clock,
         \A s \in deleted' : s \in deleted /\ table'[s] = table[s],
         \A s \in Rows : server[s] = None => server'[s] = None
  PROVE  DeletedForAReason'
<1> SUFFICES ASSUME NEW s \in deleted'
             PROVE  ~(Fresh(table[s]))' \/ (s \in Free /\ server'[s] = None)
  BY DEF DeletedForAReason
<1>1. /\ table[s] \in Record /\ s \in Rows /\ s \in deleted /\ table'[s] = table[s]
      /\ clock \in Nat
  BY DEF TableInv, RowInv, Rows, TableTypeOK
<1>2. table[s].expires \in Nat
  BY <1>1 DEF Record
<1>3. ~Fresh(table[s]) \/ (s \in Free /\ server[s] = None)
  BY <1>1 DEF TableInv, DeletedForAReason
<1> QED
  BY <1>1, <1>2, <1>3 DEF Fresh

-------------------------------------------------------------------------------
(***************************************************************************)
(* The steps of the server and of connections, and time.                   *)
(***************************************************************************)
LEMMA WorldKeeps ==
  ASSUME Given, TableInv, NEW s \in TableSids,
         Confirm(s) \/ ActivateLater(s) \/ Forget(s) \/ Unpaid(s) \/ Drop(s)
  PROVE  TableInv'
<1> USE DEF actors, limits
<1>0. ServerType /\ MoneyType /\ RowType /\ ActorType /\ RestType
  BY TypeParts DEF TableInv
<1>1. /\ [paid |-> TRUE, active |-> TRUE, expires |-> clock + PaidTerm] \in Record
      /\ server[s] # None => [server[s] EXCEPT !.paid = TRUE] \in Record
  <2>1. clock + PaidTerm \in Nat
    BY <1>0 DEF ServerType, Given, SessionBounds
  <2>2. server[s] \in Record \cup {None}
    BY <1>0 DEF ServerType
  <2> QED
    BY <2>1, <2>2 DEF Record
<1>2. /\ server' \in [TableSids -> Record \cup {None}]
      /\ \A q \in TableSids : server[q] = None => server'[q] = None
  <2> DEFINE r == [paid |-> TRUE, active |-> TRUE, expires |-> clock + PaidTerm]
             p == [server[s] EXCEPT !.paid = TRUE]
  <2>1. \/ UNCHANGED server
        \/ server[s] # None /\ server' = [server EXCEPT ![s] = r]
        \/ server[s] # None /\ server' = [server EXCEPT ![s] = p]
        \/ server' = [server EXCEPT ![s] = None]
    BY DEF Confirm, ActivateLater, Forget, Unpaid, Drop
  <2> HIDE DEF r, p
  <2> QED
    BY <1>0, <1>1, <2>1 DEF ServerType, r, p
<1>3. /\ UNCHANGED <<made, table, deleted, term, actors, pays, limits>>
      /\ connections' \subseteq connections
      /\ UNCHANGED clock /\ clock \in 0..MaxClock
  BY <1>0 DEF Confirm, ActivateLater, Forget, Unpaid, Drop, ServerType, stock
<1>4. /\ wallet' \in [TableSids -> 0..MaxPays]
      /\ \A q \in TableSids : wallet'[q] <= pays'[q]
  <2>1. UNCHANGED wallet \/ (wallet[s] > 0 /\ wallet' = [wallet EXCEPT ![s] = @ - 1])
    BY DEF Confirm, ActivateLater, Forget, Unpaid, Drop
  <2> QED
    BY <1>0, <1>3, <2>1 DEF MoneyType, Given, SessionBounds
<1>5. TableTypeOK'
  BY <1>0, <1>2, <1>3, <1>4, PartsType
     DEF ServerType, MoneyType, RowType, ActorType, AutoType, RestType
<1>6. RowInv'
  <2>1. refresh.at = "save" => refresh.sid \in TableSids
    BY DEF TableInv, RowInv, Rows
  <2> QED
    BY <1>2, <1>3, <1>4, <2>1 DEF TableInv, RowInv, Rows
<1>7. DeletedForAReason'
  <2>1. clock' \in Nat /\ clock' >= clock
    BY <1>3
  <2> QED
    BY <1>2, <1>3, <2>1, ReasonKept DEF Rows
<1>8. PaidIsKnown'
  BY <1>3, KnownSame
<1> QED
  BY <1>5, <1>6, <1>7, <1>8 DEF TableInv

\* Time ends terms, and begins none.
LEMMA TickKeeps ==
  ASSUME Given, TableInv, Tick
  PROVE  TableInv'
<1> USE DEF actors, limits
<1>0. ServerType /\ MoneyType /\ RowType /\ ActorType /\ RestType
  BY TypeParts DEF TableInv
<1>1. /\ UNCHANGED <<server, made, wallet, table, deleted, term, actors, connections, pays, limits>>
      /\ clock' \in 0..MaxClock /\ clock' \in Nat /\ clock' >= clock /\ clock \in Nat
  BY <1>0 DEF Tick, ServerType, Given, SessionBounds, stock
<1>2. TableTypeOK'
  BY <1>0, <1>1, PartsType DEF ServerType, MoneyType, RowType, ActorType, AutoType, RestType
<1>3. RowInv'
  BY <1>1 DEF TableInv, RowInv, Rows
<1>4. DeletedForAReason'
  BY <1>1, ReasonKept DEF TableInv
<1>5. PaidIsKnown'
  <2>1. Unknown' \subseteq Unknown
    BY <1>0, <1>1 DEF Unknown, RowType
  <2>2. crashes \in Nat
    BY <1>0 DEF RestType
  <2> QED
    BY <1>1, <2>1, <2>2, KnownKept
<1> QED
  BY <1>2, <1>3, <1>4, <1>5 DEF TableInv

-------------------------------------------------------------------------------
(***************************************************************************)
(* The thread that asks the server.                                        *)
(***************************************************************************)
LEMMA RefreshKeeps ==
  ASSUME Given, TableInv, RefreshStep
  PROVE  TableInv'
<1>0. ServerType /\ MoneyType /\ RowType /\ ActorType /\ RestType
  BY TypeParts DEF TableInv
<1>1. UNCHANGED <<server, made, wallet, clock, user, auto, connections, pays, limits>>
  BY DEF RefreshStep, RefreshWork, BeginRefresh, AskServer, AskRefused, AskFails, UseAnswer, EndRefresh
<1>2. ASSUME RowType', refresh' \in Asking
      PROVE  TableTypeOK'
  BY <1>0, <1>1, <1>2, PartsType
     DEF ServerType, MoneyType, RowType, ActorType, AutoType, RestType, limits
<1>3. clock' \in Nat /\ clock' >= clock
  BY <1>0, <1>1 DEF ServerType
<1>4. refresh.left \subseteq Rows /\ Rows \subseteq TableSids /\ deleted \subseteq Rows
  BY DEF TableInv, RowInv, Rows
<1>5. CASE BeginRefresh
  <2> DEFINE gone == deleted \cup {s \in TableSids : table[s] # None /\ ~Fresh(table[s])}
             purged == {s \in gone : table[s].expires + PurgeAfter <= clock}
  <2>1. /\ table' = [s \in TableSids |-> IF s \in purged THEN None ELSE table[s]]
        /\ deleted' = gone \ purged /\ UNCHANGED term
        /\ refresh' = [refresh EXCEPT !.at = "ask", !.left = NotPaid \ gone]
    BY <1>5 DEF BeginRefresh
  <2>2. gone \subseteq Rows /\ purged \subseteq gone /\ NotPaid \subseteq Rows
    BY <1>4 DEF NotPaid, Stored, Rows
  <2>3. \A s \in purged : term[s] <= clock
    <3> SUFFICES ASSUME NEW s \in purged
                 PROVE  term[s] <= clock
      OBVIOUS
    <3>1. s \in Rows /\ term[s] = table[s].expires /\ table[s].expires + PurgeAfter <= clock
      BY <2>2 DEF TableInv, RowInv
    <3>2. term[s] \in Nat /\ clock \in Nat /\ PurgeAfter \in Nat
      BY <1>0, <1>4, <3>1 DEF RowType, ServerType, Given, SessionBounds
    <3> HIDE DEF purged
    <3> QED
      BY <3>1, <3>2
  <2>4. \A s \in gone : ~Fresh(table[s]) \/ (s \in Free /\ server[s] = None)
    BY DEF TableInv, DeletedForAReason
  <2> HIDE DEF gone, purged
  <2>5. RowType' /\ refresh' \in Asking /\ refresh'.at = "ask" /\ refresh'.left = NotPaid \ gone
    <3>1. RowType'
      BY <1>0, <1>4, <2>1, <2>2 DEF RowType
    <3>2. refresh' \in Asking /\ refresh'.at = "ask" /\ refresh'.left = NotPaid \ gone
      BY <1>0, <1>4, <2>1, <2>2 DEF ActorType, Asking
    <3> QED
      BY <3>1, <3>2
  <2>6. /\ Rows' = Rows \ purged
        /\ \A s \in Rows' : s \in Rows /\ s \in TableSids /\ table'[s] = table[s]
    BY <1>0, <1>4, <2>1, <2>2 DEF Rows, RowType, Given, SessionAssumption
  <2>7. RowInv'
    <3>1. \A s \in Rows' : term'[s] = table'[s].expires
      BY <2>1, <2>6 DEF TableInv, RowInv
    <3> QED
      BY <1>1, <2>1, <2>2, <2>5, <2>6, <3>1 DEF TableInv, RowInv
  <2>8. DeletedForAReason'
    <3>1. \A s \in deleted' : s \in gone /\ table'[s] = table[s]
      BY <2>1, <2>2, <2>6
    <3> QED
      BY <1>1, <2>4, <3>1 DEF DeletedForAReason, Fresh
  <2>9. PaidIsKnown'
    <3>1. Unknown' \subseteq Unknown
      <4> SUFFICES ASSUME NEW s \in Unknown'
                   PROVE  s \in Unknown
        OBVIOUS
      <4>1. s \in TableSids /\ pays[s] > 0 /\ table'[s] = None /\ term[s] > clock
        BY <1>1, <2>1 DEF Unknown
      <4>2. term[s] \in Nat /\ clock \in Nat
        BY <1>0, <4>1 DEF RowType, ServerType
      <4>3. s \notin purged
        BY <2>3, <4>1, <4>2
      <4> QED
        BY <2>1, <4>1, <4>3 DEF Unknown
    <3>2. crashes \in Nat
      BY <1>0 DEF RestType
    <3> QED
      BY <1>1, <3>1, <3>2, KnownKept DEF limits
  <2> QED
    BY <1>2, <2>5, <2>7, <2>8, <2>9 DEF TableInv
<1>6. CASE (\E s \in TableSids : AskServer(s)) \/ AskRefused \/ AskFails \/ EndRefresh
  <2>1. UNCHANGED <<table, deleted, term>>
    BY <1>6 DEF AskServer, AskRefused, AskFails, EndRefresh, stock
  <2>2. /\ refresh' \in Asking /\ refresh'.left \subseteq refresh.left
        /\ refresh'.at = "save" => refresh'.sid \in Rows /\ refresh'.data = server[refresh'.sid]
    <3>1. CASE \E s \in TableSids : AskServer(s)
      BY <1>0, <1>4, <3>1 DEF AskServer, ActorType, Asking, ServerType
    <3>2. CASE AskRefused
      BY <1>0, <3>2 DEF AskRefused, ActorType, Asking
    <3>3. CASE AskFails \/ EndRefresh
      BY <1>0, <3>3 DEF AskFails, EndRefresh, Quiet, ActorType, Asking
    <3> QED
      BY <1>6, <3>1, <3>2, <3>3
  <2>3. RowType'
    BY <1>0, <2>1 DEF RowType
  <2>4. RowInv'
    BY <1>1, <2>1, <2>2 DEF TableInv, RowInv, Rows
  <2>5. DeletedForAReason'
    BY <1>1, <2>1 DEF TableInv, DeletedForAReason, Fresh
  <2>6. PaidIsKnown'
    BY <1>1, <2>1, KnownSame DEF limits
  <2> QED
    BY <1>2, <2>2, <2>3, <2>4, <2>5, <2>6 DEF TableInv
<1>7. CASE UseAnswer
  <2> DEFINE s == refresh.sid
  <2>1. /\ s \in Rows /\ refresh.data \in Record \cup {None}
        /\ refresh.data = None => server[s] = None
        /\ refresh' = [refresh EXCEPT !.at = "ask", !.sid = None, !.data = None]
        /\ refresh' \in Asking /\ refresh'.left = refresh.left /\ refresh'.at = "ask"
    BY <1>0, <1>7 DEF UseAnswer, TableInv, RowInv, ActorType, Asking
  <2>2. CASE refresh.data # None
    <3>1. SaveRow(s, refresh.data) /\ refresh.data \in Record /\ s \in TableSids
      BY <1>4, <1>7, <2>1, <2>2 DEF UseAnswer
    <3> HIDE DEF s
    <3>2. /\ table' \in [TableSids -> Record \cup {None}]
          /\ deleted' \subseteq deleted /\ deleted' \subseteq Rows'
          /\ Rows' = Rows /\ term' \in [TableSids -> Nat]
          /\ \A q \in deleted' : table'[q] = table[q]
          /\ \A q \in Rows' : term'[q] = table'[q].expires
          /\ \A q \in TableSids \ Rows : term'[q] = term[q]
      <4> DEFINE r == refresh.data
      <4>1. SaveRow(s, r) /\ r \in Record
        BY <3>1
      <4> HIDE DEF r
      <4>2. TableTypeOK /\ RowInv /\ s \in TableSids /\ s \in Rows
        BY <2>1, <3>1 DEF TableInv
      <4>3. /\ table' \in [TableSids -> Record \cup {None}]
            /\ deleted' \subseteq deleted /\ deleted' \subseteq Rows'
            /\ Rows' \subseteq Rows \cup {s} /\ Rows \subseteq Rows'
            /\ term' \in [TableSids -> Nat]
            /\ \A q \in deleted' : table'[q] = table[q]
            /\ \A q \in Rows' : term'[q] = table'[q].expires
            /\ \A q \in TableSids : q # s => term'[q] = term[q]
        BY <4>1, <4>2, Saving
      <4> QED
        BY <4>2, <4>3
    <3>3. RowType'
      BY <1>0, <3>2 DEF RowType
    <3>4. RowInv'
      BY <1>0, <1>1, <2>1, <3>2 DEF TableInv, RowInv, ServerType
    <3>5. DeletedForAReason'
      BY <1>1, <1>3, <3>2, ReasonKept
    <3>6. PaidIsKnown'
      <4>1. Unknown' = Unknown
        BY <1>1, <3>2 DEF Unknown, Rows
      <4>2. crashes \in Nat
        BY <1>0 DEF RestType
      <4> QED
        BY <1>1, <4>1, <4>2, KnownKept DEF limits
    <3> QED
      BY <1>2, <2>1, <3>3, <3>4, <3>5, <3>6 DEF TableInv
  <2>3. CASE refresh.data = None
    <3>1. /\ UNCHANGED <<table, term>>
          /\ deleted' = deleted \/ (deleted' = deleted \cup {s} /\ s \in Free)
      BY <1>7, <2>3 DEF UseAnswer, stock
    <3>2. deleted' \subseteq Rows /\ Rows' = Rows
      BY <1>4, <2>1, <3>1 DEF Rows
    <3>3. RowType'
      BY <1>0, <1>4, <3>1, <3>2 DEF RowType
    <3>4. RowInv'
      BY <1>1, <2>1, <3>1, <3>2 DEF TableInv, RowInv
    <3>5. DeletedForAReason'
      BY <1>1, <2>1, <2>3, <3>1 DEF TableInv, DeletedForAReason, Fresh
    <3>6. PaidIsKnown'
      BY <1>1, <3>1, KnownSame DEF limits
    <3> QED
      BY <1>2, <2>1, <3>3, <3>4, <3>5, <3>6 DEF TableInv
  <2> QED
    BY <2>2, <2>3
<1> QED
  BY <1>5, <1>6, <1>7 DEF RefreshStep, RefreshWork

-------------------------------------------------------------------------------
(***************************************************************************)
(* The requests of users.                                                  *)
(***************************************************************************)
LEMMA UserKeeps ==
  ASSUME Given, TableInv, NEW u \in Users, UserStep(u)
  PROVE  TableInv'
<1> USE DEF limits, stock
<1>0. ServerType /\ MoneyType /\ RowType /\ ActorType /\ RestType
  BY TypeParts DEF TableInv
<1>1. /\ UNCHANGED <<clock, refresh, auto, crashes>>
      /\ clock' \in Nat /\ clock' >= clock
      /\ Rows \subseteq made /\ Rows \subseteq TableSids /\ deleted \subseteq Rows
      /\ Waiting \in Requesting
  BY <1>0 DEF UserStep, AskSession, CreateSession, CreateFails, AnswerPay, AskPay,
              AskConnect, UserRequest, ServerType, TableInv, RowInv, Rows, Waiting, Requesting, Kinds,
              actors
<1>2. CASE \E s \in Rows : SendPay(s) /\ UNCHANGED <<server, made, stock>>
                           /\ user' \in [Users -> Requesting]
                           /\ UNCHANGED connections /\ requests' \in 0..MaxRequests
  <2>1. PICK s \in Rows : SendPay(s) /\ UNCHANGED <<server, made, stock>>
                          /\ user' \in [Users -> Requesting]
                          /\ UNCHANGED connections /\ requests' \in 0..MaxRequests
    BY <1>2
  <2>2. s \in TableSids /\ s \in made'
    BY <1>1, <2>1
  <2>3. MoneyType'
    BY <1>0, <2>1, <2>2, Paying
  <2>4. TableTypeOK'
    BY <1>0, <1>1, <2>1, <2>3, PartsType DEF ServerType, RowType, ActorType, AutoType, RestType
  <2>5. RowInv'
    BY <1>1, <2>1, <2>3 DEF TableInv, RowInv, Rows, Fresh, MoneyType
  <2>6. DeletedForAReason'
    BY <1>1, <2>1 DEF TableInv, DeletedForAReason, Fresh
  <2>7. PaidIsKnown'
    <3>1. Unknown' = Unknown
      BY <1>0, <1>1, <2>1, <2>2 DEF Unknown, SendPay, Rows, MoneyType
    <3>2. crashes \in Nat
      BY <1>0 DEF RestType
    <3> QED
      BY <1>1, <3>1, <3>2, KnownKept
  <2> QED
    BY <2>4, <2>5, <2>6, <2>7 DEF TableInv
<1>3. CASE /\ UNCHANGED <<server, made, wallet, pays, stock>>
           /\ user' \in [Users -> Requesting]
           /\ connections' \subseteq TableSids /\ requests' \in 0..MaxRequests
  <2>1. TableTypeOK'
    BY <1>0, <1>1, <1>3, PartsType
       DEF ServerType, MoneyType, RowType, ActorType, AutoType, RestType
  <2>2. RowInv'
    BY <1>1, <1>3 DEF TableInv, RowInv, Rows, Fresh
  <2>3. DeletedForAReason'
    BY <1>1, <1>3 DEF TableInv, DeletedForAReason, Fresh
  <2>4. PaidIsKnown'
    BY <1>1, <1>3, KnownSame
  <2> QED
    BY <2>1, <2>2, <2>3, <2>4 DEF TableInv
<1>4. UserRequest(u) => requests' \in 0..MaxRequests
  BY <1>0 DEF UserRequest, RestType, Given, SessionBounds
<1>5. Stored \subseteq Rows
  BY DEF Stored, Rows
<1>6. ASSUME NEW k \in Kinds, AskSession(u, k)
      PROVE  TableInv'
  <2>1. [at |-> "create", kind |-> k, sid |-> None] \in Requesting
    BY DEF Requesting
  <2>2. user' \in [Users -> Requesting]
    BY <1>0, <1>6, <2>1 DEF AskSession, ActorType
  <2>3. \/ \E s \in Stored : SendPay(s)
        \/ UNCHANGED <<wallet, pays>>
    BY <1>6 DEF AskSession
  <2> QED
    BY <1>0, <1>2, <1>3, <1>4, <1>5, <1>6, <2>2, <2>3 DEF AskSession, RestType
<1>7. ASSUME NEW s \in TableSids, AskPay(u, s)
      PROVE  TableInv'
  <2>1. [at |-> "answer", kind |-> Kind(s), sid |-> s] \in Requesting
    BY DEF Requesting, Kind, Kinds
  <2>2. user' \in [Users -> Requesting]
    BY <1>0, <1>7, <2>1 DEF AskPay, ActorType
  <2> QED
    BY <1>2, <1>4, <1>5, <1>7, <2>2 DEF AskPay
<1>8. CASE CreateFails(u) \/ AnswerPay(u) \/ \E s \in TableSids : AskConnect(u, s)
  <2>1. user' \in [Users -> Requesting]
    BY <1>0, <1>1, <1>8 DEF CreateFails, AnswerPay, AskConnect, ActorType, actors
  <2> QED
    BY <1>0, <1>3, <1>4, <1>8, <2>1 DEF CreateFails, AnswerPay, AskConnect, RestType, actors
<1>9. CASE CreateSession(u)
  <2>1. user[u] \in Requesting
    BY <1>0 DEF ActorType
  <2>2. user[u].kind \in Kinds
    BY <2>1 DEF Requesting
  <2>3. PICK s \in Of(user[u].kind) : Make(s) /\ SaveRow(s, NewRecord(s))
    BY <1>9 DEF CreateSession
  <2>4. s \in TableSids /\ NewRecord(s) \in Record
    <3>1. s \in TableSids
      BY <2>2, <2>3, KindsOf
    <3> QED
      BY <3>1, NewIsRecord DEF TableInv
  <2> HIDE DEF Requesting, Waiting
  <2>5. UNCHANGED <<wallet, connections, pays, requests>> /\ user' \in [Users -> Requesting]
    BY <1>0, <1>1, <1>9 DEF CreateSession, ActorType
  <2>6. /\ table' \in [TableSids -> Record \cup {None}]
        /\ deleted' \subseteq deleted /\ deleted' \subseteq Rows'
        /\ Rows' \subseteq Rows \cup {s} /\ Rows \subseteq Rows'
        /\ \A q \in deleted' : table'[q] = table[q]
        /\ term' \in [TableSids -> Nat]
        /\ \A q \in Rows' : term'[q] = table'[q].expires
        /\ \A q \in TableSids : q # s => term'[q] = term[q]
    BY <2>3, <2>4, Saving DEF TableInv
  <2>7. /\ made' = made \cup {s} /\ s \notin made
        /\ server' = [server EXCEPT ![s] = NewRecord(s)]
    BY <2>3 DEF Make
  <2>8. ServerType' /\ MoneyType' /\ RowType' /\ ActorType' /\ RestType'
    BY <1>0, <1>1, <2>4, <2>5, <2>6, <2>7
       DEF ServerType, MoneyType, RowType, ActorType, AutoType, RestType
  <2>9. \A q \in Rows : server'[q] = server[q]
    BY <1>0, <1>1, <2>7 DEF ServerType
  <2>10. RowInv'
    <3>1. auto.at = "save" => /\ auto.sid \in made \ Rows /\ auto.sid # s
                              /\ auto.sid \in TableSids /\ auto.data \in Record
                              /\ term[auto.sid] = auto.data.expires
      BY <1>0, <2>7 DEF TableInv, RowInv, ServerType
    <3>2. auto'.at = "save" => /\ auto'.sid \in made' \ Rows' /\ auto'.data \in Record
                               /\ term'[auto'.sid] = auto'.data.expires
      BY <1>1, <2>6, <2>7, <3>1
    <3> QED
      BY <1>1, <2>5, <2>6, <2>7, <2>9, <3>2 DEF TableInv, RowInv
  <2>11. DeletedForAReason'
    BY <1>1, <2>6, <2>9, ReasonKept
  <2>12. PaidIsKnown'
    <3>1. Unknown' \subseteq Unknown
      <4>1. ~(pays[s] > 0)
        BY <1>0, <2>4, <2>7 DEF MoneyType
      <4> QED
        BY <1>1, <2>5, <2>6, <4>1 DEF Unknown, Rows
    <3>2. crashes \in Nat
      BY <1>0 DEF RestType
    <3> QED
      BY <1>1, <3>1, <3>2, KnownKept
  <2> QED
    BY <2>8, <2>10, <2>11, <2>12, PartsType DEF TableInv
<1> QED
  BY <1>6, <1>7, <1>8, <1>9 DEF UserStep

-------------------------------------------------------------------------------
(***************************************************************************)
(* The thread that connects, and the end of the client.                    *)
(***************************************************************************)
LEMMA AutoKeeps ==
  ASSUME Given, TableInv, AutoStep
  PROVE  TableInv'
<1> USE DEF limits, stock
<1>0. ServerType /\ MoneyType /\ RowType /\ ActorType /\ RestType
  BY TypeParts DEF TableInv
<1>1. /\ UNCHANGED <<clock, refresh, user, requests, crashes>>
      /\ clock' \in Nat /\ clock' >= clock /\ crashes \in Nat
      /\ Rows \subseteq made /\ Rows \subseteq TableSids /\ deleted \subseteq Rows
  <2>1. UNCHANGED <<clock, refresh, user, requests, crashes>>
    <3>1. CASE AutoStart \/ AutoConnectActive
      BY <3>1 DEF AutoStart, AutoConnectActive
    <3>2. CASE AutoFails \/ AutoAgain
      BY <3>2 DEF AutoFails, AutoAgain
    <3>3. CASE AutoCreate
      BY <3>3, Zenon DEF AutoCreate
    <3>4. CASE AutoSave
      BY <3>4, Zenon DEF AutoSave
    <3> QED
      BY <3>1, <3>2, <3>3, <3>4 DEF AutoStep
  <2> QED
    BY <1>0, <2>1 DEF ServerType, RestType, TableInv, RowInv, Rows
<1>2. ASSUME UNCHANGED <<server, made, wallet, stock, pays>>, auto.at # "save",
             connections' \subseteq TableSids, AutoType', auto'.at # "save"
      PROVE  TableInv'
  <2>1. TableTypeOK'
    BY <1>0, <1>1, <1>2, PartsType
       DEF ServerType, MoneyType, RowType, ActorType, RestType
  <2>2. RowInv'
    BY <1>1, <1>2 DEF TableInv, RowInv, Rows
  <2>3. DeletedForAReason'
    BY <1>1, <1>2 DEF TableInv, DeletedForAReason, Fresh
  <2>4. Unknown' = Unknown /\ auto.sid = None /\ auto'.sid = None
    BY <1>0, <1>1, <1>2 DEF Unknown, ActorType, AutoType
  <2>5. PaidIsKnown'
    BY <1>1, <2>4, KnownKept
  <2> QED
    BY <2>1, <2>2, <2>3, <2>5 DEF TableInv
<1>3. CASE AutoStart \/ AutoConnectActive \/ AutoFails \/ AutoAgain
  <2>1. /\ UNCHANGED <<server, made, wallet, stock, pays>> /\ auto.at # "save"
        /\ NextUrl \/ FirstUrl \/ AutoGo("end", auto.kind)
    BY <1>3 DEF AutoStart, AutoConnectActive, AutoFails, AutoAgain
  <2>2. connections' \subseteq TableSids
    BY <1>0, <1>3 DEF AutoStart, AutoConnectActive, AutoFails, AutoAgain, ToConnect, Stored, RestType
  <2>3. AutoType' /\ auto'.at # "save"
    BY <1>0, <2>1, Going DEF ActorType
  <2> QED
    BY <1>2, <2>1, <2>2, <2>3
<1>4. CASE AutoCreate
  <2>1. auto.at = "look" /\ auto.sid = None /\ auto.kind \in Kinds /\ auto \in Connecting
    BY <1>0, <1>4 DEF AutoCreate, ActorType, AutoType, Connecting
  <2>2. PICK s \in Of(auto.kind) :
          /\ Make(s)
          /\ \/ /\ Fresh(NewRecord(s))
                /\ SendPay(s) \/ UNCHANGED <<wallet, pays>>
                /\ auto' = [auto EXCEPT !.at = "save", !.sid = s, !.data = NewRecord(s)]
                /\ term' = [term EXCEPT ![s] = NewRecord(s).expires]
             \/ NextUrl /\ UNCHANGED <<wallet, pays, term>>
    BY <1>4, Zenon DEF AutoCreate
  <2>3. s \in TableSids /\ NewRecord(s) \in Record
    <3>1. s \in TableSids
      BY <2>1, <2>2, KindsOf
    <3> QED
      BY <3>1, NewIsRecord DEF TableInv
  <2>4. /\ made' = made \cup {s} /\ s \notin made
        /\ server' = [server EXCEPT ![s] = NewRecord(s)]
        /\ UNCHANGED <<table, deleted, connections>>
    BY <1>4, <2>2 DEF AutoCreate, Make
  <2>5. /\ AutoType'
        /\ auto'.at = "save" => /\ auto'.sid = s /\ auto'.data = NewRecord(s)
                                /\ term' = [term EXCEPT ![s] = NewRecord(s).expires]
    <3>1. CASE NextUrl
      BY <1>0, <3>1, Going DEF ActorType
    <3>2. CASE /\ Fresh(NewRecord(s))
               /\ auto' = [auto EXCEPT !.at = "save", !.sid = s, !.data = NewRecord(s)]
               /\ term' = [term EXCEPT ![s] = NewRecord(s).expires]
      <4>1. s # None
        BY <2>3 DEF Given, SessionAssumption
      <4> QED
        BY <2>1, <2>3, <3>2, <4>1 DEF AutoType, Connecting
    <3> QED
      BY <2>2, <3>1, <3>2
  <2>6. MoneyType'
    <3>1. CASE SendPay(s)
      BY <1>0, <2>3, <2>4, <3>1, Paying
    <3>2. CASE UNCHANGED <<wallet, pays>>
      BY <1>0, <2>4, <3>2 DEF MoneyType
    <3> QED
      BY <2>2, <3>1, <3>2
  <2>7. /\ term' \in [TableSids -> Nat]
        /\ \A q \in TableSids : q # s => term'[q] = term[q]
    <3>1. NewRecord(s).expires \in Nat
      BY <2>3 DEF Record
    <3> QED
      BY <1>0, <2>2, <3>1 DEF RowType
  <2>8. ServerType' /\ RowType' /\ ActorType' /\ RestType'
    BY <1>0, <1>1, <2>3, <2>4, <2>5, <2>7 DEF ServerType, RowType, ActorType, RestType
  <2>9. \A q \in Rows : server'[q] = server[q]
    BY <1>0, <1>1, <2>4 DEF ServerType
  <2>10. RowInv'
    <3>1. Rows' = Rows /\ s \notin Rows
      BY <1>1, <2>4 DEF Rows
    <3>2. auto'.at = "save" => /\ auto'.sid \in made' \ Rows' /\ auto'.data \in Record
                               /\ term'[auto'.sid] = auto'.data.expires
      BY <1>0, <2>3, <2>4, <2>5, <3>1 DEF RowType
    <3>3. \A q \in Rows' : term'[q] = table'[q].expires
      BY <1>1, <2>4, <2>7, <3>1 DEF TableInv, RowInv
    <3> QED
      BY <1>1, <2>4, <2>6, <2>9, <3>1, <3>2, <3>3 DEF TableInv, RowInv, MoneyType
  <2>11. DeletedForAReason'
    BY <1>1, <2>4, <2>9, ReasonKept
  <2>12. PaidIsKnown'
    <3>1. CASE SendPay(s) /\ auto' = [auto EXCEPT !.at = "save", !.sid = s, !.data = NewRecord(s)]
      <4>1. auto'.sid = s
        BY <2>1, <3>1 DEF Connecting
      <4>2. \A q \in TableSids : pays'[q] > 0 /\ q # s => pays[q] > 0
        BY <1>0, <2>3, <3>1 DEF SendPay, MoneyType
      <4>3. Unknown' \ {auto'.sid} \subseteq Unknown \ {auto.sid}
        BY <1>1, <2>1, <2>4, <2>7, <4>1, <4>2 DEF Unknown, Given, SessionAssumption
      <4> QED
        BY <1>1, <4>3, KnownKept
    <3>2. CASE UNCHANGED <<wallet, pays>>
      <4>1. Unknown' \ {auto'.sid} \subseteq Unknown \ {auto.sid}
        <5>1. ~(pays[s] > 0)
          BY <1>0, <2>3, <2>4 DEF MoneyType
        <5> QED
          BY <1>1, <2>1, <2>4, <2>7, <3>2, <5>1 DEF Unknown, Given, SessionAssumption
      <4> QED
        BY <1>1, <4>1, KnownKept
    <3> QED
      BY <2>2, <3>1, <3>2
  <2> QED
    BY <2>6, <2>8, <2>10, <2>11, <2>12, PartsType DEF TableInv
<1>5. CASE AutoSave
  <2> DEFINE s == auto.sid
  <2>1. /\ auto.at = "save" /\ s \in made /\ auto.data \in Record /\ s \in TableSids
        /\ term[s] = auto.data.expires
        /\ SaveRow(s, auto.data) /\ NextUrl
        /\ UNCHANGED <<server, made, wallet, pays>> /\ connections' = connections \cup {s}
    BY <1>0, <1>5 DEF AutoSave, TableInv, RowInv, ServerType, ToConnect
  <2> HIDE DEF s
  <2>2. /\ table' \in [TableSids -> Record \cup {None}]
        /\ deleted' \subseteq deleted /\ deleted' \subseteq Rows'
        /\ Rows' \subseteq Rows \cup {s} /\ Rows \subseteq Rows'
        /\ \A q \in deleted' : table'[q] = table[q]
        /\ term' \in [TableSids -> Nat]
        /\ \A q \in Rows' : term'[q] = table'[q].expires
        /\ \A q \in TableSids : q # s => term'[q] = term[q]
        /\ Fresh(auto.data) \/ term'[s] = term[s]
        /\ Fresh(auto.data) => table'[s] # None
    BY <2>1, Saving DEF TableInv
  <2>3. AutoType' /\ auto'.at # "save" /\ auto'.sid = None
    <3>1. AutoType' /\ auto'.at # "save"
      BY <1>0, <2>1, Going DEF ActorType
    <3> QED
      BY <3>1 DEF AutoType
  <2>4. ServerType' /\ MoneyType' /\ RowType' /\ ActorType' /\ RestType'
    BY <1>0, <1>1, <2>1, <2>2, <2>3 DEF ServerType, MoneyType, RowType, ActorType, RestType
  <2>5. RowInv'
    BY <1>1, <2>1, <2>2, <2>3 DEF TableInv, RowInv
  <2>6. DeletedForAReason'
    BY <1>1, <2>1, <2>2, ReasonKept
  <2>7. PaidIsKnown'
    <3>1. s \notin Unknown'
      BY <1>1, <2>1, <2>2 DEF Unknown, Fresh
    <3>2. Unknown' \subseteq Unknown \cup {s}
      BY <1>1, <2>1, <2>2 DEF Unknown, Rows
    <3>3. Unknown' \ {auto'.sid} \subseteq Unknown \ {auto.sid}
      BY <3>1, <3>2 DEF s
    <3> QED
      BY <1>1, <3>3, KnownKept
  <2> QED
    BY <2>4, <2>5, <2>6, <2>7, PartsType DEF TableInv
<1> QED
  BY <1>3, <1>4, <1>5 DEF AutoStep

\* The client may end anywhere: one session at most is then paid, and not saved.
LEMMA CrashKeeps ==
  ASSUME Given, TableInv, Crash
  PROVE  TableInv'
<1>0. ServerType /\ MoneyType /\ RowType /\ ActorType /\ RestType
  BY TypeParts DEF TableInv
<1>1. Quiet \in Asking /\ Waiting \in Requesting /\ Starting \in Connecting
  BY DEF Quiet, Waiting, Starting, Asking, Requesting, Connecting, Kinds
<1>2. Quiet.left = {} /\ Quiet.at = "idle" /\ Starting.at = "start" /\ Starting.sid = None
  BY DEF Quiet, Starting
<1>3. /\ UNCHANGED <<server, made, wallet, table, deleted, term, clock, pays, requests>>
      /\ crashes' = crashes + 1 /\ crashes < MaxCrashes /\ connections' = {}
      /\ refresh' = Quiet /\ user' = [u \in Users |-> Waiting] /\ auto' = Starting
  BY DEF Crash, stock
<1> HIDE DEF Quiet, Waiting, Starting, Asking, Requesting, Connecting
<1>4. TableTypeOK'
  <2>1. AutoType'
    BY <1>1, <1>2, <1>3 DEF AutoType
  <2>2. RestType'
    BY <1>0, <1>3 DEF RestType, Given, SessionBounds
  <2> QED
    BY <1>0, <1>1, <1>3, <2>1, <2>2, PartsType DEF ServerType, MoneyType, RowType, ActorType
<1>5. RowInv'
  BY <1>2, <1>3 DEF TableInv, RowInv, Rows
<1>6. DeletedForAReason'
  BY <1>3 DEF TableInv, DeletedForAReason, Fresh
<1>7. PaidIsKnown'
  <2> DEFINE before == Unknown \ {auto.sid}
  <2>1. IsFiniteSet(before)
    BY FS_Subset DEF Unknown, Given, SessionAssumption
  <2>2. Cardinality(before) <= crashes /\ crashes \in Nat
    BY <1>0 DEF TableInv, PaidIsKnown, Unknown, RestType
  <2>3. /\ IsFiniteSet(before \cup {auto.sid})
        /\ Cardinality(before \cup {auto.sid}) \in {Cardinality(before), Cardinality(before) + 1}
        /\ Cardinality(before) \in Nat
    BY <2>1, FS_AddElement, FS_CardinalityType
  <2>4. Unknown' \ {auto'.sid} \subseteq before \cup {auto.sid}
    BY <1>3 DEF Unknown
  <2>5. Cardinality(Unknown' \ {auto'.sid}) <= Cardinality(before \cup {auto.sid})
    BY <2>3, <2>4, FS_Subset
  <2>6. Cardinality(Unknown' \ {auto'.sid}) \in Nat
    BY <2>3, <2>4, FS_Subset, FS_CardinalityType
  <2>7. Cardinality(Unknown' \ {auto'.sid}) <= crashes'
    <3> HIDE DEF before
    <3> QED
      BY <1>3, <2>2, <2>3, <2>5, <2>6
  <2> QED
    BY <2>7 DEF PaidIsKnown, Unknown
<1> QED
  BY <1>4, <1>5, <1>6, <1>7 DEF TableInv

\* Steps that change nothing.
LEMMA TableStutters ==
  ASSUME TableInv, UNCHANGED table_vars
  PROVE  TableInv'
BY DEF TableInv, TableTypeOK, RowInv, Rows, Fresh, DeletedForAReason, PaidIsKnown, Unknown,
       table_vars, stock, actors, limits

-------------------------------------------------------------------------------
(***************************************************************************)
(* The invariant holds whatever the server, the threads, the requests and  *)
(* crashes do to the table.                                                *)
(***************************************************************************)
THEOREM TableInvariant ==
  ASSUME SessionAssumption, SessionBounds
  PROVE  TableSpec => []TableInv
<1> USE DEF Given
<1>1. TableInit => TableInv
  BY TableStart
<1>2. TableInv /\ [TableNext]_table_vars => TableInv'
  BY WorldKeeps, TickKeeps, RefreshKeeps, UserKeeps, AutoKeeps, CrashKeeps, TableStutters DEF TableNext
<1> QED
  BY <1>1, <1>2, PTL DEF TableSpec

(***************************************************************************)
(* A row of the client is never deleted but for its end, on the client's   *)
(* clock, or the loss of a free session by the server.                     *)
(***************************************************************************)
THEOREM RowsGoForAReason ==
  ASSUME SessionAssumption, SessionBounds
  PROVE  TableSpec => []DeletedForAReason
<1>1. TableInv => DeletedForAReason
  BY DEF TableInv
<1> QED
  BY <1>1, TableInvariant, PTL

(***************************************************************************)
(* The client knows what it has paid for until the term it was told of is  *)
(* over, although rows are purged and save() refuses what has expired, but *)
(* for at most one session for each time that it was stopped.              *)
(***************************************************************************)
THEOREM PaidSessionsAreKnown ==
  ASSUME SessionAssumption, SessionBounds
  PROVE  TableSpec => []PaidIsKnown
<1>1. TableInv => PaidIsKnown
  BY DEF TableInv
<1> QED
  BY <1>1, TableInvariant, PTL

-------------------------------------------------------------------------------
(***************************************************************************)
(* The connections of the client.                                          *)
(***************************************************************************)

ProxyGiven == GateAssumption /\ ProxyBounds

WorkStep == [op : {"start"}, arg : SpaceSids] \cup [op : {"add", "kill", "drop"}, arg : Ids]

\* A gate behind ssh: a connection without a process of its own.
Child(c) == c \in DOMAIN conn_born /\ conn_born[c].parent # None
\* The messages of the bus tell of such gates.
TellsOfChildren(q) == \A i \in DOMAIN q : q[i].type = "Info" => Child(q[i].id)
\* Whatever runs for the gate was given up by the health check.
OnlyGivenUp(g) == \A c \in Ids : conn_proc[c] = "running" /\ GateOf(c) = g => c \in givenUp

LifeInv ==
  /\ conn_born \in Seq(Birth) /\ Len(conn_born) <= MaxIds
  /\ kids \in [Ids -> SUBSET Ids] /\ \A c \in Ids : \A k \in kids[c] : Child(k)
ProcInv ==
  /\ conn_proc \in [Ids -> {"none", "running", "exit0", "dead"}]
  /\ \A c \in Ids : conn_proc[c] # "none" => c \in DOMAIN conn_born /\ conn_born[c].parent = None
BusInv ==
  /\ queue \in Seq(Message) /\ TellsOfChildren(queue)
  /\ myqueue \in Seq(Message) /\ TellsOfChildren(myqueue)
\* The connection to be made again is one that was made.
LostInv == phase = "reconnect" => lost \in DOMAIN conn_born
(***************************************************************************)
(* A start is the last thing the main thread has to do, and there is no    *)
(* process for its gate then that anyone still knows of; what it removes   *)
(* from the list does not run.                                             *)
(***************************************************************************)
WorkInv ==
  /\ work \in Seq(WorkStep)
  /\ \A i \in DOMAIN work :
       /\ work[i].op = "start" => i = Len(work) /\ OnlyGivenUp(SidGate[work[i].arg])
       /\ work[i].op = "drop" => conn_proc[work[i].arg] # "running"

ProxyInv ==
  /\ LifeInv /\ ProcInv /\ BusInv /\ LostInv /\ WorkInv /\ conn_list \in Seq(Ids)
  /\ NoStrayProcess /\ OneProcessPerGate

-------------------------------------------------------------------------------
(***************************************************************************)
(* Facts about sequences and sets.                                         *)
(***************************************************************************)

\* A row of a finite set is a sequence of its elements.
LEMMA RowOf ==
  ASSUME NEW S, IsFiniteSet(S), NEW q \in Orders(S)
  PROVE  q \in Seq(S) /\ Len(q) = Cardinality(S) /\ Cardinality(S) \in Nat /\ ToSet(q) = S
<1>1. Cardinality(S) \in Nat
  BY FS_CardinalityType
<1>2. q \in [1..Cardinality(S) -> S] /\ {q[i] : i \in DOMAIN q} = S
  BY DEF Orders
<1>3. q \in Seq(S) /\ Len(q) = Cardinality(S)
  BY <1>1, <1>2
<1> QED
  BY <1>1, <1>2, <1>3 DEF ToSet

\* Taking connections out of the list takes out those, and no other.
LEMMA TakenOut ==
  ASSUME ProxyGiven, conn_list \in Seq(Ids), NEW S, NEW l \in Without(S)
  PROVE  l \in Seq(Ids) /\ ToSet(l) = Listed \ S
<1>1. Listed \subseteq Ids
  BY DEF Listed, ToSet
<1>2. IsFiniteSet(Ids)
  BY FS_Interval DEF Ids, ProxyGiven, ProxyBounds
<1>3. IsFiniteSet(Listed \ S)
  BY <1>1, <1>2, FS_Subset
<1>4. l \in Orders(Listed \ S)
  BY DEF Without
<1>5. l \in Seq(Listed \ S) /\ ToSet(l) = Listed \ S
  BY <1>3, <1>4, RowOf
<1> QED
  BY <1>1, <1>5

\* What is appended is in the list, besides what was.
LEMMA Listing ==
  ASSUME NEW l \in Seq(Ids), NEW c \in Ids
  PROVE  Append(l, c) \in Seq(Ids) /\ ToSet(Append(l, c)) = ToSet(l) \cup {c}
<1>1. /\ Append(l, c) \in Seq(Ids) /\ Len(Append(l, c)) = Len(l) + 1
      /\ Append(l, c)[Len(l) + 1] = c /\ \A i \in 1..Len(l) : Append(l, c)[i] = l[i]
  OBVIOUS
<1>2. ToSet(Append(l, c)) \subseteq ToSet(l) \cup {c}
  BY <1>1 DEF ToSet
<1>3. c \in ToSet(Append(l, c))
  BY <1>1 DEF ToSet
<1>4. ToSet(l) \subseteq ToSet(Append(l, c))
  BY <1>1 DEF ToSet
<1> QED
  BY <1>1, <1>2, <1>3, <1>4

\* Putting a step in the place of the first.
LEMMA NewHead ==
  ASSUME NEW w \in Seq(WorkStep), w # <<>>, NEW x \in WorkStep
  PROVE  LET v == <<x>> \o Tail(w)
         IN  /\ v \in Seq(WorkStep) /\ Len(v) = Len(w) /\ v[1] = x /\ v # <<>>
             /\ \A i \in 2..Len(w) : v[i] = w[i]
<1>1. <<x>> \in Seq(WorkStep) /\ Len(<<x>>) = 1 /\ <<x>>[1] = x
  OBVIOUS
<1>2. Tail(w) \in Seq(WorkStep) /\ Len(Tail(w)) = Len(w) - 1 /\ Len(w) \in Nat \ {0}
  BY EmptySeq
<1>3. \A i \in 1..Len(w) - 1 : Tail(w)[i] = w[i + 1]
  OBVIOUS
<1> DEFINE v == <<x>> \o Tail(w)
<1>4. v \in Seq(WorkStep) /\ Len(v) = Len(w)
  BY <1>1, <1>2, ConcatProperties
<1>5. \A i \in 1..Len(w) : v[i] = IF i <= 1 THEN <<x>>[i] ELSE Tail(w)[i - 1]
  BY <1>1, <1>2, ConcatProperties
<1>6. v[1] = x
  BY <1>1, <1>2, <1>5
<1>7. ASSUME NEW i \in 2..Len(w)
      PROVE  v[i] = w[i]
  <2>1. v[i] = Tail(w)[i - 1] /\ i - 1 \in 1..Len(w) - 1
    BY <1>2, <1>5, <1>7
  <2> QED
    BY <1>3, <2>1
<1> QED
  BY <1>2, <1>4, <1>6, <1>7

\* Two sequences in a row.
LEMMA InARow ==
  ASSUME NEW S, NEW a \in Seq(S), NEW b \in Seq(S)
  PROVE  /\ a \o b \in Seq(S) /\ Len(a \o b) = Len(a) + Len(b)
         /\ \A i \in 1..Len(a) : (a \o b)[i] = a[i]
         /\ \A i \in 1..Len(b) : (a \o b)[Len(a) + i] = b[i]
<1>1. /\ a \o b \in Seq(S) /\ Len(a \o b) = Len(a) + Len(b)
      /\ \A i \in 1..Len(a) + Len(b) : (a \o b)[i] = IF i <= Len(a) THEN a[i] ELSE b[i - Len(a)]
  BY ConcatProperties
<1>2. Len(a) \in Nat /\ Len(b) \in Nat
  OBVIOUS
<1>3. \A i \in 1..Len(a) : (a \o b)[i] = a[i]
  BY <1>1, <1>2
<1>4. ASSUME NEW i \in 1..Len(b)
      PROVE  (a \o b)[Len(a) + i] = b[i]
  <2>1. Len(a) + i \in 1..Len(a) + Len(b) /\ ~(Len(a) + i <= Len(a)) /\ Len(a) + i - Len(a) = i
    BY <1>2
  <2> QED
    BY <1>1, <2>1
<1> QED
  BY <1>1, <1>3, <1>4

\* What is between two of them.
LEMMA Between ==
  ASSUME NEW S, NEW a \in Seq(S), NEW x \in S, NEW b \in Seq(S)
  PROVE  LET t == a \o <<x>> \o b
         IN  /\ t \in Seq(S) /\ Len(t) = Len(a) + 1 + Len(b)
             /\ \A i \in 1..Len(a) : t[i] = a[i]
             /\ t[Len(a) + 1] = x
             /\ \A i \in 1..Len(b) : t[Len(a) + 1 + i] = b[i]
<1> DEFINE u == <<x>>
           v == a \o u
<1>1. u \in Seq(S) /\ Len(u) = 1 /\ u[1] = x
  OBVIOUS
<1> HIDE DEF u
<1>2. /\ v \in Seq(S) /\ Len(v) = Len(a) + 1 /\ v[Len(a) + 1] = x
      /\ \A i \in 1..Len(a) : v[i] = a[i]
  <2>1. /\ a \o u \in Seq(S) /\ Len(a \o u) = Len(a) + Len(u)
        /\ \A i \in 1..Len(a) : (a \o u)[i] = a[i]
        /\ \A i \in 1..Len(u) : (a \o u)[Len(a) + i] = u[i]
    <3>1. u \in Seq(S)
      BY <1>1
    <3> QED
      BY <3>1, InARow
  <2> QED
    BY <1>1, <2>1
<1> HIDE DEF v
<1> DEFINE t == v \o b
<1>3. /\ t \in Seq(S) /\ Len(t) = Len(v) + Len(b)
      /\ \A i \in 1..Len(v) : t[i] = v[i]
      /\ \A i \in 1..Len(b) : t[Len(v) + i] = b[i]
  <2>1. v \in Seq(S)
    BY <1>2
  <2> QED
    BY <2>1, InARow
<1> HIDE DEF t
<1>4. Len(a) \in Nat
  OBVIOUS
<1>5. /\ t \in Seq(S) /\ Len(t) = Len(a) + 1 + Len(b)
      /\ \A i \in 1..Len(a) : t[i] = a[i]
      /\ t[Len(a) + 1] = x
      /\ \A i \in 1..Len(b) : t[Len(a) + 1 + i] = b[i]
  BY <1>2, <1>3, <1>4
<1> QED
  BY <1>5 DEF t, v, u

\* What the main thread does to disconnect is to kill processes.
LEMMA StepsKill ==
  ASSUME ProxyGiven, LifeInv, NEW c \in Ids, NEW w \in DisconnectSteps(c)
  PROVE  w \in Seq(WorkStep) /\ \A i \in DOMAIN w : w[i].op = "kill"
<1>1. CASE w = <<>>
  BY <1>1
<1>2. ASSUME w # <<>>
      PROVE  w \in Seq(WorkStep) /\ \A i \in DOMAIN w : w[i].op = "kill"
  <2>0. PICK K : /\ K \subseteq (IF c \in Listed THEN kids[c] ELSE {})
                 /\ \E q \in Orders(K) :
                      w = [i \in 1..Len(q) + 1 |-> KillOf(IF i <= Len(q) THEN q[i] ELSE c)]
    BY <1>2 DEF DisconnectSteps
  <2>1. PICK q \in Orders(K) :
          w = [i \in 1..Len(q) + 1 |-> KillOf(IF i <= Len(q) THEN q[i] ELSE c)]
    BY <2>0
  <2>2. K \subseteq Ids /\ IsFiniteSet(K)
    <3>1. IsFiniteSet(Ids)
      BY FS_Interval DEF Ids, ProxyGiven, ProxyBounds
    <3>2. K \subseteq Ids
      BY <2>0 DEF LifeInv
    <3> QED
      BY <3>1, <3>2, FS_Subset
  <2>3. q \in Seq(K) /\ Len(q) \in Nat
    BY <2>2, RowOf
  <2>4. ASSUME NEW i \in 1..Len(q) + 1
        PROVE  w[i] \in WorkStep /\ w[i].op = "kill"
    <3>1. (IF i <= Len(q) THEN q[i] ELSE c) \in Ids
      BY <2>2, <2>3
    <3> QED
      BY <2>1, <3>1 DEF KillOf, WorkStep
  <2>5. w \in [1..Len(q) + 1 -> WorkStep]
    BY <2>1, <2>4
  <2> QED
    BY <2>3, <2>4, <2>5
<1> QED
  BY <1>1, <1>2

\* That the children stay children, when connections are made.
LEMMA StillChildren ==
  ASSUME DOMAIN conn_born \subseteq DOMAIN conn_born',
         \A c \in DOMAIN conn_born : conn_born'[c] = conn_born[c]
  PROVE  /\ \A c : Child(c) => Child(c)'
         /\ \A q : TellsOfChildren(q) => TellsOfChildren(q)'
BY DEF Child, TellsOfChildren

-------------------------------------------------------------------------------
(***************************************************************************)
(* A step that starts nothing, and takes no running process off the list   *)
(* but for giving it up.                                                   *)
(***************************************************************************)
LEMMA Calm ==
  ASSUME ProxyGiven, ProxyInv, UNCHANGED life, BusInv', LostInv', conn_list' \in Seq(Ids),
         UNCHANGED work,
         conn_proc' \in [Ids -> {"none", "running", "exit0", "dead"}],
         \A c \in Ids : /\ conn_proc'[c] = "running" => conn_proc[c] = "running"
                        /\ conn_proc[c] = "none" <=> conn_proc'[c] = "none",
         givenUp \subseteq givenUp',
         \A c \in Ids : conn_proc'[c] = "running" /\ c \in Listed => c \in Listed' \cup givenUp'
  PROVE  ProxyInv'
<1> USE DEF life
<1>1. LifeInv'
  BY DEF ProxyInv, LifeInv, Child
<1>2. ProcInv'
  BY DEF ProxyInv, ProcInv
<1>3. WorkInv'
  <2>1. \A g : OnlyGivenUp(g) => OnlyGivenUp(g)'
    BY DEF OnlyGivenUp, GateOf
  <2>2. \A i \in DOMAIN work : work[i].op = "drop" => work[i].arg \in Ids
    BY DEF ProxyInv, WorkInv, WorkStep
  <2> QED
    BY <2>1, <2>2 DEF ProxyInv, WorkInv
<1>4. NoStrayProcess'
  BY DEF ProxyInv, NoStrayProcess
<1>5. OneProcessPerGate'
  BY DEF ProxyInv, OneProcessPerGate, GateOf
<1> QED
  BY <1>1, <1>2, <1>3, <1>4, <1>5 DEF ProxyInv

\* The bus, when a message is added that tells of no child, or is passed on, or is read.
LEMMA Sending ==
  ASSUME ProxyInv, UNCHANGED life,
         NEW m \in Message, m.type # "Info",
         \/ queue' = Append(queue, m) /\ UNCHANGED myqueue
         \/ myqueue' = Append(myqueue, m) /\ UNCHANGED queue
  PROVE  BusInv'
<1>1. \A q \in Seq(Message) : TellsOfChildren(q) =>
        Append(q, m) \in Seq(Message) /\ TellsOfChildren(Append(q, m))'
  BY DEF TellsOfChildren, Child, life
<1>2. \A q \in Seq(Message) : TellsOfChildren(q) => TellsOfChildren(q)'
  BY DEF TellsOfChildren, Child, life
<1> QED
  BY <1>1, <1>2 DEF ProxyInv, BusInv, TellsOfChildren

\* The main loop passes the first message of its queue on.
LEMMA PassingOn ==
  ASSUME ProxyInv, UNCHANGED life, Route
  PROVE  BusInv'
<1>1. queue \in Seq(Message) /\ queue # <<>> /\ Head(queue) \in Message
  BY DEF ProxyInv, BusInv, Route
<1>2. Head(queue).type = "Info" => Child(Head(queue).id)
  BY <1>1 DEF ProxyInv, BusInv, TellsOfChildren
<1>3. TellsOfChildren(Tail(queue)) /\ Tail(queue) \in Seq(Message)
  BY <1>1 DEF ProxyInv, BusInv, TellsOfChildren
<1>4. TellsOfChildren(Append(myqueue, Head(queue))) /\ Append(myqueue, Head(queue)) \in Seq(Message)
  BY <1>1, <1>2 DEF ProxyInv, BusInv, TellsOfChildren
<1> QED
  BY <1>3, <1>4 DEF BusInv, Route, TellsOfChildren, Child, life

\* A message is read, and what it tells of is a child.
LEMMA Reading ==
  ASSUME ProxyInv, UNCHANGED <<conn_born, queue>>, myqueue # <<>>, myqueue' = Tail(myqueue)
  PROVE  /\ BusInv'
         /\ Head(myqueue).type = "Info" => Child(Head(myqueue).id)
<1>1. TellsOfChildren(Tail(myqueue)) /\ Tail(myqueue) \in Seq(Message)
  BY DEF ProxyInv, BusInv, TellsOfChildren
<1> QED
  BY <1>1 DEF ProxyInv, BusInv, TellsOfChildren, Child

\* A bus that stays as it is.
LEMMA SameBus ==
  ASSUME ProxyInv, UNCHANGED life, UNCHANGED bus
  PROVE  BusInv'
BY DEF ProxyInv, BusInv, TellsOfChildren, Child, life, bus

-------------------------------------------------------------------------------
(***************************************************************************)
(* The user, the sessions, and processes that end.                         *)
(***************************************************************************)
LEMMA UserKeepsProxy ==
  ASSUME ProxyGiven, ProxyInv,
         \/ \E s \in SpaceSids : AskOpen(s) \/ SessionChanges(s)
         \/ \E c \in Ids : AskClose(c) \/ ProcessEnds(c) \/ Age(c)
         \/ Route
  PROVE  ProxyInv'
<1>1. /\ UNCHANGED <<life, conn_list, work, givenUp>>
      /\ conn_list \in Seq(Ids)
  BY DEF AskOpen, SessionChanges, AskClose, ProcessEnds, Age, Route, lists, ProxyInv
<1>4. LostInv'
  BY <1>1 DEF ProxyInv, LostInv, life, thread, AskOpen, SessionChanges, AskClose, ProcessEnds, Age, Route
<1>2. BusInv'
  <2>1. CASE \E s \in SpaceSids : AskOpen(s)
    <3>1. PICK s \in SpaceSids : queue' = Append(queue, OpenMsg(s)) /\ UNCHANGED myqueue
      BY <2>1 DEF AskOpen
    <3>2. OpenMsg(s) \in Message /\ OpenMsg(s).type # "Info"
      BY DEF OpenMsg, Message
    <3> QED
      BY <1>1, <3>1, <3>2, Sending
  <2>2. CASE \E c \in Ids : AskClose(c)
    <3>1. PICK c \in Ids : queue' = Append(queue, CloseMsg(c)) /\ UNCHANGED myqueue
      BY <2>2 DEF AskClose
    <3>2. CloseMsg(c) \in Message /\ CloseMsg(c).type # "Info"
      BY DEF CloseMsg, Message
    <3> QED
      BY <1>1, <3>1, <3>2, Sending
  <2>3. CASE Route
    BY <1>1, <2>3, PassingOn
  <2>4. CASE \/ \E s \in SpaceSids : SessionChanges(s)
             \/ \E c \in Ids : ProcessEnds(c) \/ Age(c)
    <3>1. UNCHANGED bus
      BY <2>4 DEF SessionChanges, ProcessEnds, Age
    <3> QED
      BY <1>1, <3>1, SameBus
  <2> QED
    BY <2>1, <2>2, <2>3, <2>4
<1>3. /\ conn_proc' \in [Ids -> {"none", "running", "exit0", "dead"}]
      /\ \A c \in Ids : /\ conn_proc'[c] = "running" => conn_proc[c] = "running"
                        /\ conn_proc[c] = "none" <=> conn_proc'[c] = "none"
  <2>1. \/ UNCHANGED conn_proc
        \/ \E c \in Ids : \E how \in {"exit0", "dead"} :
             conn_proc[c] = "running" /\ conn_proc' = [conn_proc EXCEPT ![c] = how]
    BY DEF AskOpen, SessionChanges, AskClose, ProcessEnds, Age, Route
  <2> QED
    BY <2>1 DEF ProxyInv, ProcInv
<1> QED
  BY <1>1, <1>2, <1>3, <1>4, Calm DEF Listed

-------------------------------------------------------------------------------
(***************************************************************************)
(* The thread of refresh_connections().                                    *)
(***************************************************************************)
LEMMA ThreadKeeps ==
  ASSUME ProxyGiven, ProxyInv, ThreadStep
  PROVE  ProxyInv'
<1>1. /\ UNCHANGED <<life, conn_proc, work>>
      /\ conn_proc \in [Ids -> {"none", "running", "exit0", "dead"}]
      /\ conn_list \in Seq(Ids)
  BY DEF ThreadStep, BeginScan, LookAlive, LookEnded, Reconnect, ReconnectNew, CheckGood, CheckBad,
         CheckRaises, EndCheck, ProxyInv, ProcInv
<1>0. LostInv'
  <2>1. DOMAIN conn_born' = DOMAIN conn_born
    BY <1>1 DEF life
  <2>2. phase' = "reconnect" => (phase = "reconnect" /\ lost' = lost) \/ lost' \in DOMAIN conn_born
    <3>1. CASE BeginScan \/ CheckGood \/ CheckBad \/ CheckRaises \/ EndCheck
      BY <3>1 DEF BeginScan, CheckGood, CheckBad, CheckRaises, EndCheck
    <3>2. CASE (\E c \in Ids : LookAlive(c)) \/ Reconnect \/ ReconnectNew
      BY <3>2 DEF LookAlive, Reconnect, ReconnectNew, Looked
    <3>3. ASSUME NEW c \in Ids, LookEnded(c)
          PROVE  phase' = "reconnect" => lost' \in DOMAIN conn_born
      BY <3>3 DEF LookEnded, Looked, ProxyInv, ProcInv
    <3> QED
      BY <3>1, <3>2, <3>3 DEF ThreadStep
  <2> QED
    BY <2>1, <2>2 DEF LostInv, ProxyInv
<1>2. ASSUME BusInv', UNCHANGED <<conn_list, givenUp>>
      PROVE  ProxyInv'
  BY <1>0, <1>1, <1>2, Calm DEF Listed
<1>3. CASE BeginScan \/ (\E c \in Ids : LookAlive(c)) \/ CheckGood \/ CheckRaises \/ EndCheck
  <2>1. UNCHANGED <<bus, conn_list, givenUp>>
    BY <1>3 DEF BeginScan, LookAlive, CheckGood, CheckRaises, EndCheck, lists
  <2> QED
    BY <1>1, <1>2, <2>1, SameBus
<1>4. CASE Reconnect \/ ReconnectNew
  <2>1. UNCHANGED <<queue, conn_list, givenUp>>
    BY <1>4 DEF Reconnect, ReconnectNew, lists
  <2>2. CASE UNCHANGED myqueue
    BY <1>1, <1>2, <2>1, <2>2, SameBus DEF bus
  <2>3. ASSUME NEW s \in SpaceSids, myqueue' = Append(myqueue, OpenMsg(s))
        PROVE  ProxyInv'
    <3>1. OpenMsg(s) \in Message /\ OpenMsg(s).type # "Info"
      BY DEF OpenMsg, Message
    <3> QED
      BY <1>1, <1>2, <2>1, <2>3, <3>1, Sending
  <2>4. CASE Reconnect
    <3>1. conn_born \in Seq(Birth) /\ lost \in DOMAIN conn_born
      BY <2>4 DEF Reconnect, ProxyInv, LifeInv, LostInv
    <3>2. conn_born[lost] \in Birth
      BY <3>1
    <3>3. conn_born[lost].sid \in SpaceSids
      BY <3>2 DEF Birth
    <3> QED
      BY <2>3, <2>4, <3>3 DEF Reconnect
  <2> QED
    BY <1>4, <2>2, <2>3, <2>4 DEF ReconnectNew
<1>5. ASSUME NEW c \in Ids, LookEnded(c)
      PROVE  ProxyInv'
  <2> DEFINE S == IF c \in Listed THEN kids[c] \cup {c} ELSE {}
  <2>1. /\ UNCHANGED <<bus, givenUp>> /\ conn_list' \in Without(S) /\ conn_proc[c] = "dead"
    BY <1>5 DEF LookEnded
  <2>2. \A d \in S : d \in Ids => conn_proc[d] # "running"
    BY <2>1 DEF ProxyInv, LifeInv, ProcInv, Child
  <2>3. conn_list' \in Seq(Ids) /\ Listed' = Listed \ S
    BY <1>1, <2>1, TakenOut DEF Listed
  <2>4. BusInv'
    BY <1>1, <2>1, SameBus
  <2> QED
    BY <1>0, <1>1, <2>1, <2>2, <2>3, <2>4, Calm
<1>6. CASE CheckBad
  <2> DEFINE c == conn_list[cursor]
  <2>1. UNCHANGED bus /\ conn_list' \in Without({c}) /\ givenUp' = givenUp \cup {c}
    BY <1>6 DEF CheckBad
  <2>2. conn_list' \in Seq(Ids) /\ Listed' = Listed \ {c}
    <3> HIDE DEF c
    <3> QED
      BY <1>1, <2>1, TakenOut DEF Listed
  <2>3. BusInv'
    BY <1>1, <2>1, SameBus
  <2> QED
    BY <1>0, <1>1, <2>1, <2>2, <2>3, Calm
<1> QED
  BY <1>3, <1>4, <1>5, <1>6 DEF ThreadStep

-------------------------------------------------------------------------------
(***************************************************************************)
(* The main thread.                                                        *)
(***************************************************************************)

\* The steps that leave connections and processes as they are, and have other work.
LEMMA OtherWork ==
  ASSUME ProxyGiven, ProxyInv, UNCHANGED <<life, thread, conn_proc, givenUp>>, BusInv',
         WorkInv', conn_list' \in Seq(Ids), NoStrayProcess'
  PROVE  ProxyInv'
<1> USE DEF life, thread
<1>1. LifeInv' /\ ProcInv' /\ LostInv'
  BY DEF ProxyInv, LifeInv, ProcInv, LostInv, Child
<1>2. OneProcessPerGate'
  BY DEF ProxyInv, OneProcessPerGate, GateOf
<1> QED
  BY <1>1, <1>2 DEF ProxyInv

\* A message is read when there is nothing to do: then no process waits for its connection.
LEMMA AllListed ==
  ASSUME ProxyInv, work = <<>>, NEW c \in Ids, conn_proc[c] = "running"
  PROVE  c \in Listed \cup givenUp
BY DEF ProxyInv, NoStrayProcess

\* A start is planned only when nothing listed is of its gate.
LEMMA ReadConnectKeeps ==
  ASSUME ProxyGiven, ProxyInv, ReadConnect
  PROVE  ProxyInv'
<1>1. PICK m \in [type : {"Connect"}, sid : SpaceSids] :
        /\ Reads(m)
        /\ \/ work' = <<>>
           \/ /\ ~Connected(SidGate[m.sid])
              /\ \E steps \in ClosingSteps(m) : work' = Append(steps, StartOf(m.sid))
        /\ UNCHANGED <<life, lists, conn_proc, queue, thread, givenUp>>
  BY DEF ReadConnect
<1>2. /\ work = <<>> /\ myqueue # <<>> /\ myqueue' = Tail(myqueue)
      /\ UNCHANGED <<life, conn_born, queue, conn_list>>
      /\ m.type = "Connect" /\ m.sid \in SpaceSids
  BY <1>1 DEF Reads, life, lists
<1>3. BusInv'
  BY <1>2, Reading
<1>4. NoStrayProcess'
  BY <1>1, <1>2, AllListed DEF NoStrayProcess, Listed
<1>5. CASE work' = <<>>
  BY <1>1, <1>2, <1>3, <1>4, <1>5, OtherWork DEF WorkInv, ProxyInv
<1>6. ASSUME ~Connected(SidGate[m.sid]), NEW steps \in ClosingSteps(m),
             work' = Append(steps, StartOf(m.sid))
      PROVE  ProxyInv'
  <2>1. steps \in Seq(WorkStep) /\ \A i \in DOMAIN steps : steps[i].op = "kill"
    <3>1. CASE steps = <<>>
      BY <3>1
    <3>2. CASE steps # <<>>
      <4>1. PICK c \in ToClose(m) : steps \in DisconnectSteps(c)
        BY <1>6, <3>2 DEF ClosingSteps
      <4>2. c \in Ids
        BY <1>2, <4>1 DEF ToClose, FirstOf, ProxyInv
      <4> QED
        BY <4>1, <4>2, StepsKill DEF ProxyInv
    <3> QED
      BY <3>1, <3>2
  <2>2. StartOf(m.sid) \in WorkStep /\ StartOf(m.sid).op = "start" /\ StartOf(m.sid).arg = m.sid
    BY <1>2 DEF StartOf, WorkStep
  <2> HIDE DEF WorkStep
  <2>3. /\ work' \in Seq(WorkStep) /\ Len(work') = Len(steps) + 1
        /\ work'[Len(work')] = StartOf(m.sid)
        /\ \A i \in 1..Len(steps) : work'[i].op = "kill"
    BY <1>6, <2>1, <2>2
  <2>4. OnlyGivenUp(SidGate[m.sid])'
    <3> SUFFICES ASSUME NEW c \in Ids, conn_proc[c] = "running", GateOf(c) = SidGate[m.sid]
                 PROVE  c \in givenUp
      BY <1>1, <1>2 DEF OnlyGivenUp, GateOf
    <3>1. c \in Listed \cup givenUp
      BY <1>2, AllListed
    <3> QED
      BY <1>6, <3>1 DEF Connected
  <2>5. WorkInv'
    <3> SUFFICES ASSUME NEW i \in DOMAIN work'
                 PROVE  /\ work'[i].op = "start" => i = Len(work') /\ OnlyGivenUp(SidGate[work[i].arg])'
                        /\ work'[i].op # "drop"
      BY <2>3 DEF WorkInv, OnlyGivenUp, GateOf
    <3>1. CASE i = Len(work')
      BY <2>2, <2>3, <2>4, <3>1
    <3>2. CASE i \in 1..Len(steps)
      BY <2>3, <3>2
    <3> QED
      BY <2>1, <2>3, <3>1, <3>2
  <2> QED
    BY <1>1, <1>2, <1>3, <1>4, <2>5, OtherWork DEF ProxyInv
<1> QED
  BY <1>1, <1>5, <1>6

\* A disconnection becomes steps that kill.
LEMMA ReadDisconnectKeeps ==
  ASSUME ProxyGiven, ProxyInv, ReadDisconnect
  PROVE  ProxyInv'
<1>1. PICK m \in [type : {"Disconnect"}, id : Ids] :
        /\ Reads(m) /\ work' \in DisconnectSteps(m.id)
        /\ UNCHANGED <<life, lists, conn_proc, queue, thread, givenUp>>
  BY DEF ReadDisconnect
<1>2. /\ work = <<>> /\ myqueue # <<>> /\ myqueue' = Tail(myqueue)
      /\ UNCHANGED <<life, conn_born, queue, conn_list>> /\ m.id \in Ids
  BY <1>1 DEF Reads, life, lists
<1>3. BusInv'
  BY <1>2, Reading
<1>4. NoStrayProcess'
  BY <1>1, <1>2, AllListed DEF NoStrayProcess, Listed
<1>5. work' \in Seq(WorkStep) /\ \A i \in DOMAIN work' : work'[i].op = "kill"
  BY <1>1, <1>2, StepsKill DEF ProxyInv
<1>6. WorkInv'
  BY <1>5 DEF WorkInv
<1> QED
  BY <1>1, <1>2, <1>3, <1>4, <1>6, OtherWork DEF ProxyInv

\* A gate behind ssh is listed.
LEMMA ReadInfoKeeps ==
  ASSUME ProxyGiven, ProxyInv, ReadInfo
  PROVE  ProxyInv'
<1>1. PICK m \in [type : {"Info"}, id : Ids] :
        /\ Reads(m)
        /\ LET parent == conn_born[m.id].parent IN
             kids' = IF parent \in Listed THEN [kids EXCEPT ![parent] = @ \cup {m.id}] ELSE kids
        /\ conn_list' = Append(conn_list, m.id)
        /\ UNCHANGED <<conn_born, conn_proc, queue, work, thread, givenUp>>
  BY DEF ReadInfo
<1>2. /\ work = <<>> /\ myqueue # <<>> /\ myqueue' = Tail(myqueue) /\ Head(myqueue) = m
      /\ UNCHANGED <<conn_born, queue>> /\ m.id \in Ids /\ m.type = "Info"
  BY <1>1 DEF Reads
<1>3. BusInv' /\ Child(m.id)
  BY <1>2, Reading
<1>4. LifeInv'
  <2>1. /\ kids' \in [Ids -> SUBSET Ids]
        /\ \A c \in Ids : kids'[c] \subseteq kids[c] \cup {m.id}
    BY <1>1, <1>2 DEF ProxyInv, LifeInv
  <2> QED
    BY <1>2, <1>3, <2>1 DEF ProxyInv, LifeInv, Child
<1>5. conn_list' \in Seq(Ids) /\ Listed \subseteq Listed'
  BY <1>1, <1>2, Listing DEF ProxyInv, Listed
<1>6. ProcInv' /\ WorkInv' /\ LostInv'
  BY <1>1 DEF ProxyInv, ProcInv, WorkInv, LostInv, OnlyGivenUp, GateOf, thread
<1>7. NoStrayProcess' /\ OneProcessPerGate'
  BY <1>1, <1>5 DEF ProxyInv, NoStrayProcess, OneProcessPerGate, GateOf
<1> QED
  BY <1>3, <1>4, <1>5, <1>6, <1>7 DEF ProxyInv

\* An exception ends all processes.
LEMMA RaisingKeeps ==
  ASSUME ProxyGiven, ProxyInv, MainRaises
  PROVE  ProxyInv'
<1>1. /\ UNCHANGED <<life, conn_born, queue, conn_list, work, thread, givenUp>>
      /\ myqueue # <<>> /\ myqueue' = Tail(myqueue)
      /\ conn_proc' = [c \in Ids |-> IF conn_proc[c] = "running" THEN "dead" ELSE conn_proc[c]]
  BY DEF MainRaises, life, lists
<1>2. BusInv'
  BY <1>1, Reading
<1>3. LostInv'
  BY <1>1 DEF ProxyInv, LostInv, thread
<1>4. /\ conn_proc' \in [Ids -> {"none", "running", "exit0", "dead"}]
      /\ \A c \in Ids : /\ conn_proc'[c] # "running"
                        /\ conn_proc[c] = "none" <=> conn_proc'[c] = "none"
  BY <1>1 DEF ProxyInv, ProcInv
<1> QED
  BY <1>1, <1>2, <1>3, <1>4, Calm DEF ProxyInv

\* The first step is done, and the rest of the work is as good as it was.
LEMMA RestOfWork ==
  ASSUME ProxyGiven, ProxyInv, UNCHANGED <<life, conn_proc, givenUp>>, work # <<>>, work' = Tail(work)
  PROVE  WorkInv'
<1>1. /\ Tail(work) \in Seq(WorkStep) /\ Len(Tail(work)) = Len(work) - 1
      /\ \A i \in 1..Len(work) - 1 : Tail(work)[i] = work[i + 1]
  BY DEF ProxyInv, WorkInv
<1>2. \A g : OnlyGivenUp(g) => OnlyGivenUp(g)'
  BY DEF OnlyGivenUp, GateOf, life
<1>3. ASSUME NEW i \in DOMAIN work'
      PROVE  /\ work'[i].op = "start" => i = Len(work') /\ OnlyGivenUp(SidGate[work[i].arg])'
             /\ work'[i].op = "drop" => conn_proc'[work'[i].arg] # "running"
  <2>1. i + 1 \in DOMAIN work /\ work'[i] = work[i + 1] /\ Len(work) \in Nat
    BY <1>1, <1>3 DEF ProxyInv, WorkInv
  <2> QED
    BY <1>1, <1>2, <2>1 DEF ProxyInv, WorkInv
<1> QED
  BY <1>1, <1>3 DEF WorkInv

\* The first step of the work is one of them.
LEMMA FirstStep ==
  ASSUME ProxyInv, work # <<>>
  PROVE  /\ Head(work) = work[1] /\ 1 \in DOMAIN work /\ Head(work) \in WorkStep
         /\ Head(work).op = "start" => Head(work).arg \in SpaceSids
         /\ Head(work).op # "start" => Head(work).arg \in Ids
<1>1. Head(work) = work[1] /\ 1 \in DOMAIN work /\ Head(work) \in WorkStep
  BY DEF ProxyInv, WorkInv
<1> QED
  BY <1>1 DEF WorkStep

\* A connection is added or removed, or not started.
LEMMA ListKeeps ==
  ASSUME ProxyGiven, ProxyInv, NotStarted \/ AddConnection \/ DropConnection
  PROVE  ProxyInv'
<1>1. UNCHANGED <<life, thread, conn_proc, givenUp, bus>> /\ work # <<>> /\ work' = Tail(work)
  BY DEF NotStarted, AddConnection, DropConnection
<1>2. BusInv' /\ WorkInv'
  BY <1>1, SameBus, RestOfWork
<1>3. CASE NotStarted
  <2>1. UNCHANGED conn_list /\ Head(work).op = "start"
    BY <1>3 DEF NotStarted, lists
  <2>2. NoStrayProcess'
    BY <1>1, <2>1 DEF ProxyInv, NoStrayProcess, Listed, AddOf
  <2> QED
    BY <1>1, <1>2, <2>1, <2>2, OtherWork DEF ProxyInv
<1>4. CASE AddConnection
  <2>1. conn_list' = Append(conn_list, Head(work).arg) /\ Head(work).op = "add"
    BY <1>4 DEF AddConnection
  <2>2. conn_list' \in Seq(Ids) /\ Listed' = Listed \cup {Head(work).arg}
    BY <1>1, <2>1, FirstStep, Listing DEF ProxyInv, Listed
  <2>3. NoStrayProcess'
    BY <1>1, <2>2 DEF ProxyInv, NoStrayProcess, AddOf
  <2> QED
    BY <1>1, <1>2, <2>2, <2>3, OtherWork
<1>5. CASE DropConnection
  <2>1. conn_list' \in Without({Head(work).arg}) /\ Head(work).op = "drop"
    BY <1>5 DEF DropConnection
  <2>2. conn_list' \in Seq(Ids) /\ Listed' = Listed \ {Head(work).arg}
    BY <2>1, TakenOut DEF ProxyInv, Listed
  <2>3. conn_proc[Head(work).arg] # "running"
    BY <1>1, <2>1, FirstStep DEF ProxyInv, WorkInv
  <2>4. NoStrayProcess'
    BY <1>1, <2>1, <2>2, <2>3 DEF ProxyInv, NoStrayProcess, AddOf
  <2> QED
    BY <1>1, <1>2, <2>2, <2>4, OtherWork
<1> QED
  BY <1>3, <1>4, <1>5

\* A process is killed before its connection is removed.
LEMMA KillKeeps ==
  ASSUME ProxyGiven, ProxyInv, KillProcess
  PROVE  ProxyInv'
<1> DEFINE c == Head(work).arg
<1>1. /\ UNCHANGED <<life, thread, givenUp, bus, conn_list>> /\ work # <<>> /\ Head(work).op = "kill"
      /\ conn_proc' = IF conn_proc[c] = "running" THEN [conn_proc EXCEPT ![c] = "dead"] ELSE conn_proc
      /\ work' = <<DropOf(c)>> \o Tail(work)
  BY DEF KillProcess, lists
<1>2. c \in Ids
  BY <1>1, FirstStep
<1>3. DropOf(c) \in WorkStep /\ DropOf(c).op = "drop" /\ DropOf(c).arg = c
  BY <1>2 DEF DropOf, WorkStep
<1> HIDE DEF c
<1>4. /\ conn_proc' \in [Ids -> {"none", "running", "exit0", "dead"}]
      /\ conn_proc'[c] # "running"
      /\ \A d \in Ids : /\ conn_proc'[d] = "running" => conn_proc[d] = "running"
                        /\ conn_proc[d] = "none" <=> conn_proc'[d] = "none"
  BY <1>1, <1>2 DEF ProxyInv, ProcInv
<1>5. /\ work' \in Seq(WorkStep) /\ Len(work') = Len(work) /\ work'[1] = DropOf(c) /\ work' # <<>>
      /\ \A i \in 2..Len(work) : work'[i] = work[i]
  <2> HIDE DEF WorkStep
  <2> QED
    BY <1>1, <1>3, NewHead DEF ProxyInv, WorkInv
<1>6. WorkInv'
  <2>1. \A g : OnlyGivenUp(g) => OnlyGivenUp(g)'
    BY <1>1, <1>4 DEF OnlyGivenUp, GateOf, life
  <2>2. ASSUME NEW i \in DOMAIN work'
        PROVE  /\ work'[i].op = "start" => i = Len(work') /\ OnlyGivenUp(SidGate[work[i].arg])'
               /\ work'[i].op = "drop" => conn_proc'[work'[i].arg] # "running"
    <3>1. CASE i = 1
      BY <1>3, <1>4, <1>5, <3>1
    <3>2. CASE i # 1
      <4>1. i \in 2..Len(work) /\ i \in DOMAIN work /\ work'[i] = work[i]
        BY <1>5, <2>2, <3>2 DEF ProxyInv, WorkInv
      <4>2. work[i] \in WorkStep
        BY <4>1 DEF ProxyInv, WorkInv
      <4>3. work[i].op = "drop" => work[i].arg \in Ids
        BY <4>2 DEF WorkStep
      <4> QED
        BY <1>4, <1>5, <2>1, <4>1, <4>3 DEF ProxyInv, WorkInv
    <3> QED
      BY <3>1, <3>2
  <2> QED
    BY <1>5, <2>2 DEF WorkInv
<1>7. BusInv'
  BY <1>1, SameBus
<1>8. LifeInv' /\ ProcInv' /\ LostInv' /\ conn_list' \in Seq(Ids)
  BY <1>1, <1>4 DEF ProxyInv, LifeInv, ProcInv, LostInv, Child, life, thread
<1>9. NoStrayProcess'
  <2>1. \A d \in Ids : Head(work) # AddOf(d)
    BY <1>1 DEF AddOf
  <2> QED
    BY <1>1, <1>4, <2>1 DEF ProxyInv, NoStrayProcess, Listed
<1>10. OneProcessPerGate'
  BY <1>1, <1>4 DEF ProxyInv, OneProcessPerGate, GateOf, life
<1> QED
  BY <1>6, <1>7, <1>8, <1>9, <1>10 DEF ProxyInv

\* A connection id to gate g is made, with n gates behind it.
NewBorn(id, n, g) ==
  /\ id \in Ids /\ id + n <= MaxIds /\ DOMAIN conn_born = 1..id - 1
  /\ conn_born' \in Seq(Birth) /\ DOMAIN conn_born' = 1..id + n /\ Len(conn_born') = id + n
  /\ \A c \in DOMAIN conn_born : conn_born'[c] = conn_born[c]
  /\ conn_born'[id].gate = g /\ conn_born'[id].parent = None
  /\ \A i \in 1..n : conn_born'[id + i].parent # None
\* The n connections after id are told of.
NewTold(id, n) ==
  /\ queue' \in Seq(Message) /\ Len(queue') = Len(queue) + n
  /\ \A i \in 1..Len(queue) : queue'[i] = queue[i]
  /\ \A i \in 1..n : queue'[Len(queue) + i] = InfoMsg(id + i)

\* What a start does: a connection is made, and the gates behind it are told of.
LEMMA Started ==
  ASSUME ProxyGiven, ProxyInv, StartProcess
  PROVE  LET id == Len(conn_born) + 1
             g  == SidGate[Head(work).arg]
         IN  /\ work # <<>> /\ Head(work).op = "start" /\ id \in Ids
             /\ procs' = procs \cup {id}
             /\ conn_proc' = [conn_proc EXCEPT ![id] = "running"]
             /\ work' = <<AddOf(id)>> \o Tail(work)
             /\ UNCHANGED <<kids, conn_list, myqueue, thread, givenUp>>
             /\ \E n \in Nat : NewBorn(id, n, g) /\ NewTold(id, n)
<1> DEFINE s  == Head(work).arg
           g  == SidGate[s]
           id == Len(conn_born) + 1
           born(gate, parent) == [gate |-> gate, sid |-> s, parent |-> parent,
                                  active |-> sess[s] = "active"]
<1>1. /\ work # <<>> /\ Head(work).op = "start" /\ Room(g)
      /\ procs' = procs \cup {id}
      /\ conn_proc' = [conn_proc EXCEPT ![id] = "running"]
      /\ work' = <<AddOf(id)>> \o Tail(work)
      /\ UNCHANGED <<kids, conn_list, myqueue, thread, givenUp>>
  BY DEF StartProcess
<1>2. PICK subs \in Orders(Subgates[g]) :
        /\ conn_born' = conn_born \o <<born(g, None)>> \o [i \in DOMAIN subs |-> born(subs[i], id)]
        /\ queue' = queue \o [i \in DOMAIN subs |-> InfoMsg(id + i)]
  BY DEF StartProcess
<1>3. /\ s \in SpaceSids /\ g \in Gates /\ Subgates[g] \subseteq Gates /\ IsFiniteSet(Subgates[g])
      /\ conn_born \in Seq(Birth) /\ MaxIds \in Nat
  <2>1. s \in SpaceSids
    BY <1>1, FirstStep
  <2>2. g \in Gates /\ Subgates[g] \subseteq Gates /\ IsFiniteSet(Gates)
    BY <2>1 DEF ProxyGiven, GateAssumption
  <2> QED
    BY <2>1, <2>2, FS_Subset DEF ProxyInv, LifeInv, ProxyGiven, ProxyBounds
<1> HIDE DEF s, g
<1>4. subs \in Seq(Gates) /\ Len(subs) \in Nat /\ id + Len(subs) <= MaxIds /\ id \in Nat /\ id \in Ids
  <2>1. subs \in Seq(Subgates[g]) /\ Len(subs) = Cardinality(Subgates[g])
    BY <1>2, <1>3, RowOf
  <2> QED
    BY <1>1, <1>3, <2>1 DEF Room, Ids
<1>5. ASSUME NEW i \in DOMAIN subs
      PROVE  /\ id + i \in Ids /\ subs[i] \in Gates
             /\ born(subs[i], id) \in Birth /\ born(subs[i], id).parent = id
             /\ InfoMsg(id + i) \in Message /\ InfoMsg(id + i).id = id + i
  <2>1. DOMAIN subs = 1..Len(subs)
    BY <1>4
  <2>2. id + i \in Ids /\ subs[i] \in Gates
    BY <1>3, <1>4, <1>5, <2>1 DEF Ids
  <2> QED
    BY <1>3, <1>4, <2>2 DEF Birth, InfoMsg, Message
<1>6. born(g, None) \in Birth /\ born(g, None).parent = None /\ born(g, None).gate = g
  BY <1>3 DEF Birth
<1> DEFINE others == [i \in DOMAIN subs |-> born(subs[i], id)]
           tells == [i \in DOMAIN subs |-> InfoMsg(id + i)]
           mine == born(g, None)
<1>7. /\ others \in Seq(Birth) /\ Len(others) = Len(subs)
      /\ \A i \in 1..Len(subs) : others[i].parent = id
      /\ tells \in Seq(Message) /\ Len(tells) = Len(subs)
      /\ \A i \in 1..Len(subs) : tells[i] = InfoMsg(id + i)
  <2> HIDE DEF born
  <2>1. DOMAIN subs = 1..Len(subs)
    BY <1>4
  <2>3. others \in [1..Len(subs) -> Birth] /\ tells \in [1..Len(subs) -> Message]
    BY <1>5, <2>1
  <2>4. \A i \in 1..Len(subs) : others[i].parent = id /\ tells[i] = InfoMsg(id + i)
    BY <1>5, <2>1
  <2> QED
    BY <1>4, <2>3, <2>4
<1> HIDE DEF born, others, tells, mine
<1>8. /\ conn_born' \in Seq(Birth) /\ Len(conn_born') = id + Len(subs)
      /\ \A c \in 1..Len(conn_born) : conn_born'[c] = conn_born[c]
      /\ conn_born'[id] = mine
      /\ \A i \in 1..Len(subs) : conn_born'[id + i] = others[i]
  <2>1. conn_born' = conn_born \o <<mine>> \o others
    BY <1>2 DEF mine, others
  <2>2. mine \in Birth
    BY <1>6 DEF mine
  <2>3. LET t == conn_born \o <<mine>> \o others
        IN  /\ t \in Seq(Birth) /\ Len(t) = Len(conn_born) + 1 + Len(others)
            /\ \A i \in 1..Len(conn_born) : t[i] = conn_born[i]
            /\ t[Len(conn_born) + 1] = mine
            /\ \A i \in 1..Len(others) : t[Len(conn_born) + 1 + i] = others[i]
    <3>1. others \in Seq(Birth) /\ conn_born \in Seq(Birth)
      BY <1>3, <1>7
    <3> QED
      BY <2>2, <3>1, Between
  <2> QED
    BY <1>7, <2>1, <2>3
<1>9. /\ queue' \in Seq(Message) /\ Len(queue') = Len(queue) + Len(subs)
      /\ \A i \in 1..Len(queue) : queue'[i] = queue[i]
      /\ \A i \in 1..Len(subs) : queue'[Len(queue) + i] = tells[i]
  <2>1. queue' = queue \o tells /\ queue \in Seq(Message)
    BY <1>2 DEF tells, ProxyInv, BusInv
  <2>2. /\ queue \o tells \in Seq(Message) /\ Len(queue \o tells) = Len(queue) + Len(tells)
        /\ \A i \in 1..Len(queue) : (queue \o tells)[i] = queue[i]
        /\ \A i \in 1..Len(tells) : (queue \o tells)[Len(queue) + i] = tells[i]
    <3>1. tells \in Seq(Message)
      BY <1>7
    <3> QED
      BY <2>1, <3>1, InARow
  <2> QED
    BY <1>7, <2>1, <2>2
<1>10. NewBorn(id, Len(subs), g)
  <2>1. DOMAIN conn_born = 1..id - 1 /\ DOMAIN conn_born' = 1..id + Len(subs) /\ Len(conn_born) \in Nat
    BY <1>3, <1>4, <1>8
  <2>2. ASSUME NEW i \in 1..Len(subs)
        PROVE  id + i \in DOMAIN conn_born' /\ conn_born'[id + i].parent # None
    <3>1. id + i \in DOMAIN conn_born' /\ conn_born'[id + i] = others[i]
      BY <1>4, <1>8, <2>1
    <3>2. others[i].parent = id /\ id # None
      BY <1>4, <1>7 DEF Ids, ProxyGiven, ProxyBounds
    <3> QED
      BY <3>1, <3>2
  <2>3. conn_born'[id].gate = g /\ conn_born'[id].parent = None
    BY <1>6, <1>8 DEF mine
  <2> QED
    BY <1>4, <1>8, <2>1, <2>2, <2>3 DEF NewBorn
<1>11. NewTold(id, Len(subs))
  BY <1>7, <1>9 DEF NewTold
<1> QED
  BY <1>1, <1>4, <1>10, <1>11 DEF s, g

(***************************************************************************)
(* A process is started, the only one for its gate that was not given up,  *)
(* with the gates behind it.                                               *)
(***************************************************************************)
LEMMA StartKeeps ==
  ASSUME ProxyGiven, ProxyInv, StartProcess
  PROVE  ProxyInv'
<1> DEFINE s  == Head(work).arg
           g  == SidGate[s]
           id == Len(conn_born) + 1
<1>1. /\ work # <<>> /\ Head(work).op = "start"
      /\ procs' = procs \cup {id}
      /\ conn_proc' = [conn_proc EXCEPT ![id] = "running"]
      /\ work' = <<AddOf(id)>> \o Tail(work)
      /\ UNCHANGED <<kids, conn_list, myqueue, thread, givenUp>>
  BY Started
<1>2. PICK n \in Nat : NewBorn(id, n, g) /\ NewTold(id, n)
  BY Started
<1> HIDE DEF s, g, id
<1>4. id \in Ids /\ id \in Nat /\ id + n <= MaxIds /\ Len(conn_born') = id + n
  BY <1>2 DEF NewBorn, Ids
<1>9. /\ DOMAIN conn_born = 1..id - 1 /\ DOMAIN conn_born' = 1..id + n
      /\ \A c \in DOMAIN conn_born : c \in DOMAIN conn_born' /\ conn_born'[c] = conn_born[c] /\ c # id
      /\ id \in DOMAIN conn_born' /\ conn_born'[id].parent = None /\ conn_born'[id].gate = g
      /\ \A i \in 1..n : id + i \in DOMAIN conn_born' /\ conn_born'[id + i].parent # None
  <2>1. id \in 1..id + n /\ \A c \in 1..id - 1 : c \in 1..id + n /\ c # id
    BY <1>4, <1>2 DEF Ids
  <2>2. \A i \in 1..n : id + i \in 1..id + n
    BY <1>4, <1>2 DEF Ids
  <2> QED
    BY <1>2, <2>1, <2>2 DEF NewBorn
<1>10. \A c : Child(c) => Child(c)'
  BY <1>9 DEF Child
<1>11. LifeInv'
  BY <1>1, <1>2, <1>4, <1>10 DEF ProxyInv, LifeInv, NewBorn
<1>12. ProcInv'
  BY <1>1, <1>4, <1>9 DEF ProxyInv, ProcInv
<1>13. BusInv'
  <2>2. ASSUME NEW i \in DOMAIN queue', queue'[i].type = "Info"
        PROVE  Child(queue[i].id)'
    <3>0. queue \in Seq(Message) /\ Len(queue) \in Nat /\ i \in 1..Len(queue) + n
      BY <1>2, <2>2 DEF ProxyInv, BusInv, NewTold
    <3>1. CASE i \in 1..Len(queue)
      <4>2. queue'[i] = queue[i]
        BY <1>2, <3>1 DEF NewTold
      <4>1. Child(queue[i].id)
        BY <2>2, <3>0, <3>1, <4>2 DEF ProxyInv, BusInv, TellsOfChildren
      <4> QED
        BY <1>10, <4>1, <4>2 DEF Child
    <3>2. CASE i \notin 1..Len(queue)
      <4>1. PICK k \in 1..n : i = Len(queue) + k
        <5>1. i - Len(queue) \in 1..n /\ i = Len(queue) + (i - Len(queue))
          BY <3>0, <3>2
        <5> QED
          BY <5>1
      <4>2. queue'[i].id = id + k
        <5>1. queue'[i] = InfoMsg(id + k)
          BY <1>2, <4>1 DEF NewTold
        <5> QED
          BY <5>1 DEF InfoMsg
      <4> QED
        BY <1>9, <4>2 DEF Child
    <3> QED
      BY <3>1, <3>2
  <2>3. TellsOfChildren(queue)'
    BY <2>2 DEF TellsOfChildren
  <2>4. TellsOfChildren(myqueue)'
    BY <1>1, <1>10 DEF ProxyInv, BusInv, TellsOfChildren
  <2> QED
    BY <1>1, <1>2, <2>3, <2>4 DEF ProxyInv, BusInv, NewTold
<1>14. LostInv' /\ conn_list' \in Seq(Ids)
  BY <1>1, <1>9 DEF ProxyInv, LostInv, thread
<1>15. /\ work = <<Head(work)>> /\ Len(work) = 1 /\ OnlyGivenUp(g)
  <2>1. Head(work) = work[1] /\ 1 \in DOMAIN work
    BY <1>1, FirstStep
  <2> QED
    BY <1>1, <2>1 DEF ProxyInv, WorkInv, s, g
<1>16. /\ work' \in Seq(WorkStep) /\ Len(work') = 1 /\ work'[1] = AddOf(id) /\ work' # <<>>
       /\ AddOf(id).op = "add" /\ Head(work') = AddOf(id)
  <2>1. AddOf(id) \in WorkStep /\ AddOf(id).op = "add"
    BY <1>4 DEF AddOf, WorkStep
  <2> HIDE DEF WorkStep
  <2>2. work' \in Seq(WorkStep) /\ Len(work') = 1 /\ work'[1] = AddOf(id) /\ work' # <<>>
    BY <1>1, <1>15, <2>1, NewHead DEF ProxyInv, WorkInv
  <2> QED
    BY <2>1, <2>2
<1>17. WorkInv'
  <2>1. \A i \in DOMAIN work' : work'[i].op = "add"
    BY <1>16
  <2> QED
    BY <1>16, <2>1 DEF WorkInv
<1>18. ASSUME NEW c \in Ids, conn_proc'[c] = "running", c # id
       PROVE  conn_proc[c] = "running" /\ c \in DOMAIN conn_born /\ GateOf(c)' = GateOf(c)
  <2>1. conn_proc[c] = "running"
    BY <1>1, <1>4, <1>18 DEF ProxyInv, ProcInv
  <2> QED
    BY <1>9, <2>1 DEF ProxyInv, ProcInv, GateOf
<1>19. NoStrayProcess'
  <2> SUFFICES ASSUME NEW c \in Ids, conn_proc'[c] = "running"
               PROVE  c \in Listed' \cup givenUp' \/ (work' # <<>> /\ Head(work') = AddOf(c))
    BY DEF NoStrayProcess
  <2>1. CASE c = id
    BY <1>16, <2>1
  <2>2. CASE c # id
    <3>1. conn_proc[c] = "running"
      BY <1>18, <2>2
    <3>2. ~(Head(work) = AddOf(c))
      BY <1>1 DEF AddOf
    <3> QED
      BY <1>1, <3>1, <3>2 DEF ProxyInv, NoStrayProcess, Listed
  <2> QED
    BY <2>1, <2>2
<1>20. OneProcessPerGate'
  <2>0. conn_born'[id].gate = g
    BY <1>9
  <2>1. ASSUME NEW c \in Ids, conn_proc'[c] = "running", c # id, conn_born'[c].gate = conn_born'[id].gate
        PROVE  c \in givenUp'
    <3>1. conn_born[c].gate = g /\ conn_proc[c] = "running"
      BY <1>18, <2>0, <2>1 DEF GateOf
    <3> QED
      BY <1>1, <1>15, <3>1 DEF OnlyGivenUp, GateOf
  <2>2. ASSUME NEW c \in Ids, NEW d \in Ids, c # d, c # id, d # id,
               conn_proc'[c] = "running", conn_proc'[d] = "running",
               conn_born'[c].gate = conn_born'[d].gate
        PROVE  {c, d} \cap givenUp' # {}
    BY <1>1, <1>18, <2>2 DEF ProxyInv, OneProcessPerGate, GateOf
  <2> QED
    BY <2>1, <2>2 DEF OneProcessPerGate, GateOf
<1> QED
  BY <1>11, <1>12, <1>13, <1>14, <1>17, <1>19, <1>20 DEF ProxyInv

-------------------------------------------------------------------------------
(***************************************************************************)
(* The invariant holds, whatever the two threads, the user and the         *)
(* processes do, in any order.                                             *)
(***************************************************************************)
THEOREM ProxyInvariant ==
  ASSUME GateAssumption, ProxyBounds
  PROVE  ProxySpec => []ProxyInv
<1> USE DEF ProxyGiven
<1>1. ProxyInit => ProxyInv
  <2> SUFFICES ASSUME ProxyInit
               PROVE  ProxyInv
    OBVIOUS
  <2>1. LifeInv /\ ProcInv /\ BusInv /\ LostInv /\ WorkInv /\ conn_list \in Seq(Ids)
    <3>1. /\ conn_born = <<>> /\ queue = <<>> /\ myqueue = <<>> /\ work = <<>> /\ conn_list = <<>>
          /\ kids = [c \in Ids |-> {}] /\ conn_proc = [c \in Ids |-> "none"] /\ phase = "scan"
      BY DEF ProxyInit
    <3>2. \A S : <<>> \in Seq(S)
      BY EmptySeq
    <3>3. LifeInv
      BY <3>1, <3>2 DEF LifeInv, ProxyBounds
    <3>4. ProcInv
      BY <3>1 DEF ProcInv
    <3>5. BusInv /\ LostInv /\ WorkInv
      BY <3>1, <3>2 DEF BusInv, TellsOfChildren, LostInv, WorkInv
    <3> QED
      BY <3>1, <3>2, <3>3, <3>4, <3>5
  <2>2. NoStrayProcess /\ OneProcessPerGate
    BY DEF ProxyInit, NoStrayProcess, OneProcessPerGate
  <2> QED
    BY <2>1, <2>2 DEF ProxyInv
<1>2. ProxyInv /\ [ProxyNext]_conn_vars => ProxyInv'
  <2> SUFFICES ASSUME ProxyInv, [ProxyNext]_conn_vars
               PROVE  ProxyInv'
    OBVIOUS
  <2>1. CASE UNCHANGED conn_vars
    BY <2>1, SameBus, Calm
       DEF conn_vars, lists, thread, ProxyInv, LostInv, life, Listed, ProcInv
  <2>2. CASE MainStep
    BY <2>2, ReadConnectKeeps, ReadDisconnectKeeps, ReadInfoKeeps, RaisingKeeps, StartKeeps,
       ListKeeps, KillKeeps DEF MainStep
  <2> QED
    BY <2>1, <2>2, UserKeepsProxy, ThreadKeeps DEF ProxyNext
<1> QED
  BY <1>1, <1>2, PTL DEF ProxySpec

(***************************************************************************)
(* No process runs that the user could not close: a theorem for any number *)
(* of gates, connections and requests.                                     *)
(***************************************************************************)
THEOREM ProcessesAreListed ==
  ASSUME GateAssumption, ProxyBounds
  PROVE  ProxySpec => []NoStrayProcess
<1>1. ProxyInv => NoStrayProcess
  BY DEF ProxyInv
<1> QED
  BY <1>1, ProxyInvariant, PTL

(***************************************************************************)
(* There are no two processes for a gate's port, unless the health check   *)
(* has lost one of them.                                                   *)
(***************************************************************************)
THEOREM PortsAreFree ==
  ASSUME GateAssumption, ProxyBounds
  PROVE  ProxySpec => []OneProcessPerGate
<1>1. ProxyInv => OneProcessPerGate
  BY DEF ProxyInv
<1> QED
  BY <1>1, ProxyInvariant, PTL

-------------------------------------------------------------------------------
(***************************************************************************)
(* A connection is listed once.  The main loop's queue and the proxy's     *)
(* announce a connection once, and only before it is listed.               *)
(***************************************************************************)
InfoIn(q, c) == \E i \in DOMAIN q : q[i].type = "Info" /\ q[i].id = c
OnceIn(q) ==
  \A i, j \in DOMAIN q : q[i].type = "Info" /\ q[j].type = "Info" /\ q[i].id = q[j].id => i = j
Announced(c) == InfoIn(queue, c) \/ InfoIn(myqueue, c)

BusOnce ==
  OnceIn(queue) /\ OnceIn(myqueue) /\ \A c : ~(InfoIn(queue, c) /\ InfoIn(myqueue, c))
OnceInv ==
  /\ IsInjective(conn_list) /\ Listed \subseteq DOMAIN conn_born
  /\ BusOnce /\ \A c \in Listed : ~Announced(c)
  /\ \A i \in DOMAIN work : work[i].op = "add" =>
       /\ Len(work) = 1 /\ work[i].arg \notin Listed
       /\ work[i].arg \in DOMAIN conn_born /\ conn_born[work[i].arg].parent = None

\* What stays in the list stays there once.
LEMMA LeftOnce ==
  ASSUME ProxyGiven, conn_list \in Seq(Ids), NEW S, NEW l \in Without(S)
  PROVE  IsInjective(l)
<1> DEFINE T == Listed \ S
           n == Cardinality(T)
<1>1. IsFiniteSet(T)
  <2>1. T \subseteq Ids
    BY DEF Listed, ToSet
  <2>2. IsFiniteSet(Ids)
    BY FS_Interval DEF Ids, ProxyGiven, ProxyBounds
  <2> QED
    BY <2>1, <2>2, FS_Subset
<1>2. l \in [1..n -> T] /\ {l[i] : i \in DOMAIN l} = T
  BY DEF Without, Orders
<1> HIDE DEF T
<1>3. n \in Nat /\ IsFiniteSet(1..n) /\ Cardinality(1..n) = n
  <2>1. n \in Nat
    BY <1>1, FS_CardinalityType
  <2> HIDE DEF n
  <2> QED
    BY <2>1, FS_Interval
<1>4. l \in Surjection(1..n, T)
  BY <1>2 DEF Surjection
<1>5. l \in Injection(1..n, T)
  <2>1. Cardinality(1..n) = Cardinality(T)
    BY <1>3
  <2> HIDE DEF n
  <2> QED
    BY <1>3, <1>4, <2>1, FS_SurjSameCardinalityImpliesInj
<1> QED
  BY <1>5 DEF Injection

\* So it is no longer than there are connections.
LEMMA ShortList ==
  ASSUME ProxyGiven, conn_list \in Seq(Ids), IsInjective(conn_list)
  PROVE  Len(conn_list) \in 0..MaxIds
<1> DEFINE n == Len(conn_list)
<1>1. n \in Nat /\ MaxIds \in Nat /\ conn_list \in [1..n -> Ids] /\ DOMAIN conn_list = 1..n
  BY DEF ProxyGiven, ProxyBounds
<1> HIDE DEF n
<1>2. IsFiniteSet(1..n) /\ Cardinality(1..n) = n /\ IsFiniteSet(Ids) /\ Cardinality(Ids) = MaxIds
  BY <1>1, FS_Interval DEF Ids
<1>3. ~(MaxIds < n)
  <2> SUFFICES ASSUME MaxIds < n PROVE FALSE
    OBVIOUS
  <2>1. PICK x, y \in 1..n : x # y /\ conn_list[x] = conn_list[y]
    BY <1>1, <1>2, FS_PigeonHole
  <2> QED
    BY <1>1, <2>1 DEF IsInjective
<1> QED
  BY <1>1, <1>3 DEF n

\* What a message at the end of a queue announces, and what is announced without the first.
LEMMA OnceAppend ==
  ASSUME NEW q \in Seq(Message), NEW m \in Message, OnceIn(q), m.type = "Info" => ~InfoIn(q, m.id)
  PROVE  /\ OnceIn(Append(q, m))
         /\ \A c : InfoIn(Append(q, m), c) => InfoIn(q, c) \/ (m.type = "Info" /\ m.id = c)
<1> DEFINE r == Append(q, m)
<1>1. /\ DOMAIN r = 1..Len(q) + 1 /\ DOMAIN q = 1..Len(q) /\ Len(q) \in Nat
      /\ r[Len(q) + 1] = m /\ \A i \in 1..Len(q) : r[i] = q[i]
  OBVIOUS
<1> HIDE DEF r
<1>2. \A i \in DOMAIN r : i \in DOMAIN q \/ i = Len(q) + 1
  BY <1>1
<1>3. \A i \in DOMAIN q : m.type = "Info" => ~(q[i].type = "Info" /\ q[i].id = m.id)
  BY DEF InfoIn
<1>4. OnceIn(r)
  BY <1>1, <1>2, <1>3 DEF OnceIn
<1>5. \A c : InfoIn(r, c) => InfoIn(q, c) \/ (m.type = "Info" /\ m.id = c)
  BY <1>1, <1>2 DEF InfoIn
<1> QED
  BY <1>4, <1>5 DEF r

\* The rest of a queue announces what the queue did, without the first message.
LEMMA OnceTail ==
  ASSUME NEW q \in Seq(Message), q # <<>>, OnceIn(q)
  PROVE  /\ OnceIn(Tail(q))
         /\ \A c : InfoIn(Tail(q), c) => InfoIn(q, c) /\ ~(Head(q).type = "Info" /\ Head(q).id = c)
         /\ Head(q).type = "Info" => InfoIn(q, Head(q).id)
<1> DEFINE r == Tail(q)
<1>1. /\ Len(q) \in Nat \ {0} /\ DOMAIN q = 1..Len(q) /\ DOMAIN r = 1..Len(q) - 1
      /\ Head(q) = q[1] /\ \A i \in 1..Len(q) - 1 : r[i] = q[i + 1]
  BY EmptySeq
<1> HIDE DEF r
<1>2. \A i \in DOMAIN r : i + 1 \in DOMAIN q /\ r[i] = q[i + 1] /\ i + 1 # 1
  BY <1>1
<1>3. OnceIn(r)
  <2> SUFFICES ASSUME NEW i \in DOMAIN r, NEW j \in DOMAIN r,
                      r[i].type = "Info", r[j].type = "Info", r[i].id = r[j].id
               PROVE  i = j
    BY DEF OnceIn
  <2>1. i + 1 = j + 1
    BY <1>2 DEF OnceIn
  <2> QED
    BY <1>1, <2>1
<1>4. 1 \in DOMAIN q
  BY <1>1
<1>5. ASSUME NEW c, InfoIn(r, c)
      PROVE  InfoIn(q, c) /\ ~(Head(q).type = "Info" /\ Head(q).id = c)
  <2>1. PICK i \in DOMAIN r : r[i].type = "Info" /\ r[i].id = c
    BY <1>5 DEF InfoIn
  <2> QED
    BY <1>1, <1>2, <1>4, <2>1 DEF InfoIn, OnceIn
<1>6. Head(q).type = "Info" => InfoIn(q, Head(q).id)
  BY <1>1, <1>4 DEF InfoIn
<1> QED
  BY <1>3, <1>5, <1>6 DEF r

\* A message that announces nothing is sent, one is passed on, or read.
LEMMA BusSent ==
  ASSUME ProxyInv, BusOnce, NEW m \in Message, m.type # "Info",
         \/ queue' = Append(queue, m) /\ UNCHANGED myqueue
         \/ myqueue' = Append(myqueue, m) /\ UNCHANGED queue
  PROVE  BusOnce' /\ \A c : Announced(c)' => Announced(c)
<1>1. queue \in Seq(Message) /\ myqueue \in Seq(Message) /\ OnceIn(queue) /\ OnceIn(myqueue)
  BY DEF ProxyInv, BusInv, BusOnce
<1>2. /\ OnceIn(queue)' /\ OnceIn(myqueue)'
      /\ \A c : InfoIn(queue, c)' => InfoIn(queue, c)
      /\ \A c : InfoIn(myqueue, c)' => InfoIn(myqueue, c)
  <2>1. CASE queue' = Append(queue, m) /\ UNCHANGED myqueue
    BY <1>1, <2>1, OnceAppend DEF OnceIn, InfoIn
  <2>2. CASE myqueue' = Append(myqueue, m) /\ UNCHANGED queue
    BY <1>1, <2>2, OnceAppend DEF OnceIn, InfoIn
  <2> QED
    BY <2>1, <2>2
<1> QED
  BY <1>2 DEF BusOnce, Announced

\* What is passed on was announced in the one queue, and is now in the other.
LEMMA BusRouted ==
  ASSUME ProxyInv, BusOnce, Route
  PROVE  BusOnce' /\ \A c : Announced(c)' => Announced(c)
<1> DEFINE m == Head(queue)
<1>1. /\ queue \in Seq(Message) /\ myqueue \in Seq(Message) /\ OnceIn(queue) /\ OnceIn(myqueue)
      /\ queue # <<>> /\ queue' = Tail(queue) /\ myqueue' = Append(myqueue, m)
  BY DEF ProxyInv, BusInv, BusOnce, Route
<1>2. m \in Message
  BY <1>1
<1>3. /\ OnceIn(Tail(queue))
      /\ m.type = "Info" => InfoIn(queue, m.id)
      /\ \A c : InfoIn(Tail(queue), c) => InfoIn(queue, c) /\ ~(m.type = "Info" /\ m.id = c)
  BY <1>1, OnceTail
<1> HIDE DEF m
<1>4. m.type = "Info" => ~InfoIn(myqueue, m.id)
  BY <1>3 DEF BusOnce
<1>5. /\ OnceIn(Append(myqueue, m))
      /\ \A c : InfoIn(Append(myqueue, m), c) => InfoIn(myqueue, c) \/ (m.type = "Info" /\ m.id = c)
  BY <1>1, <1>2, <1>4, OnceAppend
<1>6. /\ OnceIn(queue)' /\ OnceIn(myqueue)'
      /\ \A c : InfoIn(queue, c)' => InfoIn(queue, c) /\ ~(m.type = "Info" /\ m.id = c)
      /\ \A c : InfoIn(myqueue, c)' => InfoIn(myqueue, c) \/ (m.type = "Info" /\ m.id = c)
  BY <1>1, <1>3, <1>5 DEF OnceIn, InfoIn
<1> QED
  BY <1>3, <1>6 DEF BusOnce, Announced

\* What is read is not announced any more.
LEMMA BusRead ==
  ASSUME ProxyInv, BusOnce, UNCHANGED queue, myqueue # <<>>, myqueue' = Tail(myqueue)
  PROVE  /\ BusOnce' /\ \A c : Announced(c)' => Announced(c)
         /\ Head(myqueue).type = "Info" =>
              Announced(Head(myqueue).id) /\ \A c : Announced(c)' => c # Head(myqueue).id
<1> DEFINE m == Head(myqueue)
<1>1. myqueue \in Seq(Message) /\ OnceIn(myqueue)
  BY DEF ProxyInv, BusInv, BusOnce
<1>2. /\ OnceIn(Tail(myqueue))
      /\ m.type = "Info" => InfoIn(myqueue, m.id)
      /\ \A c : InfoIn(Tail(myqueue), c) => InfoIn(myqueue, c) /\ ~(m.type = "Info" /\ m.id = c)
  BY <1>1, OnceTail
<1> HIDE DEF m
<1>3. /\ OnceIn(queue)' /\ OnceIn(myqueue)'
      /\ \A c : InfoIn(queue, c)' => InfoIn(queue, c)
      /\ \A c : InfoIn(myqueue, c)' => InfoIn(myqueue, c) /\ ~(m.type = "Info" /\ m.id = c)
  BY <1>2 DEF OnceIn, InfoIn, BusOnce
<1>4. BusOnce' /\ \A c : Announced(c)' => Announced(c)
  BY <1>3 DEF BusOnce, Announced
<1>5. m.type = "Info" => Announced(m.id) /\ \A c : Announced(c)' => c # m.id
  BY <1>2, <1>3 DEF BusOnce, Announced
<1> QED
  BY <1>4, <1>5 DEF m

\* A connection that is not in the list may be appended.
LEMMA ListedOnce ==
  ASSUME NEW l \in Seq(Ids), IsInjective(l), NEW c \in Ids, c \notin ToSet(l)
  PROVE  IsInjective(Append(l, c)) /\ ToSet(Append(l, c)) = ToSet(l) \cup {c}
<1> DEFINE r == Append(l, c)
<1>1. /\ DOMAIN r = 1..Len(l) + 1 /\ DOMAIN l = 1..Len(l) /\ Len(l) \in Nat
      /\ r[Len(l) + 1] = c /\ \A i \in 1..Len(l) : r[i] = l[i]
  OBVIOUS
<1>2. ToSet(r) = ToSet(l) \cup {c}
  BY Listing
<1> HIDE DEF r
<1>3. \A i \in DOMAIN r : i \in DOMAIN l \/ i = Len(l) + 1
  BY <1>1
<1>4. \A i \in DOMAIN l : l[i] # c
  BY DEF ToSet
<1> QED
  BY <1>1, <1>2, <1>3, <1>4 DEF IsInjective, r

\* What is announced is a gate behind ssh.
LEMMA AnnouncedIsChild ==
  ASSUME ProxyInv, NEW c, Announced(c)
  PROVE  Child(c)
BY DEF ProxyInv, BusInv, TellsOfChildren, Announced, InfoIn

-------------------------------------------------------------------------------
\* A step that makes no connection and lists none.
LEMMA OnceQuiet ==
  ASSUME ProxyGiven, ProxyInv, OnceInv, UNCHANGED conn_born,
         BusOnce', \A c : Announced(c)' => Announced(c),
         conn_list' = conn_list \/ \E S : conn_list' \in Without(S),
         \A i \in DOMAIN work' : work'[i].op = "add" => work' = work
  PROVE  OnceInv'
<1>1. conn_list \in Seq(Ids)
  BY DEF ProxyInv
<1>2. IsInjective(conn_list)' /\ Listed' \subseteq Listed
  <2>1. CASE conn_list' = conn_list
    BY <2>1 DEF OnceInv, Listed, IsInjective
  <2>2. ASSUME NEW S, conn_list' \in Without(S)
        PROVE  IsInjective(conn_list)' /\ Listed' \subseteq Listed
    <3>1. IsInjective(conn_list') /\ ToSet(conn_list') = Listed \ S
      BY <1>1, <2>2, LeftOnce, TakenOut
    <3> QED
      BY <3>1 DEF Listed, IsInjective
  <2> QED
    BY <2>1, <2>2
<1>3. \A i \in DOMAIN work' : work'[i].op = "add" =>
        /\ Len(work') = 1 /\ work'[i].arg \notin Listed'
        /\ work'[i].arg \in DOMAIN conn_born' /\ conn_born'[work'[i].arg].parent = None
  BY <1>2 DEF OnceInv
<1> QED
  BY <1>2, <1>3 DEF OnceInv

\* What stays unread is as before.
LEMMA BusSame ==
  ASSUME BusOnce, UNCHANGED bus
  PROVE  BusOnce' /\ \A c : Announced(c)' => Announced(c)
BY DEF BusOnce, Announced, OnceIn, InfoIn, bus

\* The user's requests, the sessions and processes that end.
LEMMA UserOnce ==
  ASSUME ProxyGiven, ProxyInv, OnceInv,
         \/ \E s \in SpaceSids : AskOpen(s) \/ SessionChanges(s)
         \/ \E c \in Ids : AskClose(c) \/ ProcessEnds(c) \/ Age(c)
         \/ Route
  PROVE  OnceInv'
<1>1. UNCHANGED <<conn_born, conn_list, work>> /\ BusOnce
  BY DEF AskOpen, SessionChanges, AskClose, ProcessEnds, Age, Route, lists, life, OnceInv
<1>2. BusOnce' /\ \A c : Announced(c)' => Announced(c)
  <2>1. ASSUME NEW s \in SpaceSids, AskOpen(s)
        PROVE  BusOnce' /\ \A c : Announced(c)' => Announced(c)
    <3>1. queue' = Append(queue, OpenMsg(s)) /\ UNCHANGED myqueue
      BY <2>1 DEF AskOpen
    <3>2. OpenMsg(s) \in Message /\ OpenMsg(s).type # "Info"
      BY DEF OpenMsg, Message
    <3> QED
      BY <1>1, <3>1, <3>2, BusSent
  <2>2. ASSUME NEW d \in Ids, AskClose(d)
        PROVE  BusOnce' /\ \A c : Announced(c)' => Announced(c)
    <3>1. queue' = Append(queue, CloseMsg(d)) /\ UNCHANGED myqueue
      BY <2>2 DEF AskClose
    <3>2. CloseMsg(d) \in Message /\ CloseMsg(d).type # "Info"
      BY DEF CloseMsg, Message
    <3> QED
      BY <1>1, <3>1, <3>2, BusSent
  <2>3. CASE Route
    BY <1>1, <2>3, BusRouted
  <2>4. CASE \/ \E s \in SpaceSids : SessionChanges(s)
             \/ \E c \in Ids : ProcessEnds(c) \/ Age(c)
    <3>1. UNCHANGED bus
      BY <2>4 DEF SessionChanges, ProcessEnds, Age
    <3> QED
      BY <1>1, <3>1, BusSame
  <2> QED
    BY <2>1, <2>2, <2>3, <2>4
<1> QED
  BY <1>1, <1>2, OnceQuiet

\* The thread of refresh_connections() takes connections out, and asks for some again.
LEMMA ThreadOnce ==
  ASSUME ProxyGiven, ProxyInv, OnceInv, ThreadStep
  PROVE  OnceInv'
<1>1. UNCHANGED <<conn_born, work>> /\ BusOnce
  BY DEF ThreadStep, BeginScan, LookAlive, LookEnded, Reconnect, ReconnectNew, CheckGood, CheckBad,
         CheckRaises, EndCheck, life, OnceInv
<1>2. conn_list' = conn_list \/ \E S : conn_list' \in Without(S)
  BY DEF ThreadStep, BeginScan, LookAlive, LookEnded, Reconnect, ReconnectNew, CheckGood, CheckBad,
         CheckRaises, EndCheck, lists
<1>3. UNCHANGED bus \/ \E s \in SpaceSids : myqueue' = Append(myqueue, OpenMsg(s)) /\ UNCHANGED queue
  <2>1. CASE Reconnect
    <3>1. conn_born \in Seq(Birth) /\ lost \in DOMAIN conn_born
      BY <2>1 DEF Reconnect, ProxyInv, LifeInv, LostInv
    <3>2. conn_born[lost] \in Birth
      BY <3>1
    <3>3. conn_born[lost].sid \in SpaceSids
      BY <3>2 DEF Birth
    <3> QED
      BY <2>1, <3>3 DEF Reconnect
  <2>2. CASE ReconnectNew
    BY <2>2 DEF ReconnectNew, bus
  <2> QED
    BY <2>1, <2>2 DEF ThreadStep, BeginScan, LookAlive, LookEnded, CheckGood, CheckBad,
                      CheckRaises, EndCheck
<1>4. BusOnce' /\ \A c : Announced(c)' => Announced(c)
  <2>1. ASSUME NEW s \in SpaceSids, myqueue' = Append(myqueue, OpenMsg(s)), UNCHANGED queue
        PROVE  BusOnce' /\ \A c : Announced(c)' => Announced(c)
    <3>1. OpenMsg(s) \in Message /\ OpenMsg(s).type # "Info"
      BY DEF OpenMsg, Message
    <3> QED
      BY <1>1, <2>1, <3>1, BusSent
  <2> QED
    BY <1>1, <1>3, <2>1, BusSame
<1> QED
  BY <1>1, <1>2, <1>4, OnceQuiet

\* What is read is listed, or becomes work that lists nothing.
LEMMA ReadOnce ==
  ASSUME ProxyGiven, ProxyInv, OnceInv, ReadConnect \/ ReadDisconnect \/ ReadInfo \/ MainRaises
  PROVE  OnceInv'
<1>1. /\ UNCHANGED <<conn_born, queue>> /\ work = <<>> /\ BusOnce
      /\ myqueue # <<>> /\ myqueue' = Tail(myqueue)
  BY DEF ReadConnect, ReadDisconnect, ReadInfo, MainRaises, Reads, life, OnceInv
<1>2. BusOnce' /\ \A c : Announced(c)' => Announced(c)
  BY <1>1, BusRead
<1>3. CASE ReadConnect
  <2>1. UNCHANGED conn_list
    BY <1>3 DEF ReadConnect, lists
  <2>2. PICK m \in [type : {"Connect"}, sid : SpaceSids] :
          work' = <<>> \/ \E steps \in ClosingSteps(m) : work' = Append(steps, StartOf(m.sid))
    BY <1>3 DEF ReadConnect
  <2>3. ASSUME NEW steps \in ClosingSteps(m), work' = Append(steps, StartOf(m.sid))
        PROVE  \A i \in DOMAIN work' : work'[i].op # "add"
    <3>1. steps \in Seq(WorkStep) /\ \A i \in DOMAIN steps : steps[i].op = "kill"
      <4>1. CASE steps = <<>>
        BY <4>1
      <4>2. CASE steps # <<>>
        <5>1. PICK c \in ToClose(m) : steps \in DisconnectSteps(c)
          BY <2>3, <4>2 DEF ClosingSteps
        <5>2. c \in Ids
          BY <5>1 DEF ToClose, FirstOf, ProxyInv
        <5> QED
          BY <5>1, <5>2, StepsKill DEF ProxyInv
      <4> QED
        BY <4>1, <4>2
    <3>2. /\ DOMAIN work' = 1..Len(steps) + 1 /\ Len(steps) \in Nat
          /\ work'[Len(steps) + 1] = StartOf(m.sid)
          /\ \A i \in 1..Len(steps) : work'[i] = steps[i]
      BY <2>3, <3>1
    <3>3. StartOf(m.sid).op = "start"
      BY DEF StartOf
    <3> QED
      BY <3>1, <3>2, <3>3
  <2>4. \A i \in DOMAIN work' : work'[i].op # "add"
    BY <2>2, <2>3
  <2> QED
    BY <1>1, <1>2, <2>1, <2>4, OnceQuiet
<1>4. CASE ReadDisconnect
  <2>1. PICK m \in [type : {"Disconnect"}, id : Ids] : work' \in DisconnectSteps(m.id)
    BY <1>4 DEF ReadDisconnect
  <2>2. \A i \in DOMAIN work' : work'[i].op = "kill"
    BY <2>1, StepsKill DEF ProxyInv
  <2>3. UNCHANGED conn_list
    BY <1>4 DEF ReadDisconnect, lists
  <2> QED
    BY <1>1, <1>2, <2>2, <2>3, OnceQuiet
<1>5. CASE MainRaises
  <2>1. UNCHANGED <<conn_list, work>>
    BY <1>5 DEF MainRaises, lists
  <2> QED
    BY <1>1, <1>2, <2>1, OnceQuiet
<1>6. CASE ReadInfo
  <2>1. PICK m \in [type : {"Info"}, id : Ids] :
          m = Head(myqueue) /\ conn_list' = Append(conn_list, m.id) /\ work' = work
    BY <1>6 DEF ReadInfo, Reads
  <2>2. m.id \in Ids /\ m.type = "Info"
    BY <2>1
  <2>3. Child(m.id) /\ Announced(m.id) /\ \A c : Announced(c)' => c # m.id
    BY <1>1, <2>1, <2>2, Reading, BusRead
  <2>4. m.id \notin Listed
    BY <2>3 DEF OnceInv
  <2>5. IsInjective(conn_list)' /\ Listed' = Listed \cup {m.id}
    BY <2>1, <2>2, <2>4, ListedOnce DEF ProxyInv, OnceInv, Listed, IsInjective
  <2>6. \A i \in DOMAIN work' : FALSE
    BY <1>1, <2>1
  <2> QED
    BY <1>1, <1>2, <2>3, <2>5, <2>6 DEF OnceInv, Child
<1> QED
  BY <1>3, <1>4, <1>5, <1>6

\* Done, or killed: nothing more to list than before.
LEMMA WorkOnce ==
  ASSUME ProxyGiven, ProxyInv, OnceInv, NotStarted \/ DropConnection \/ KillProcess \/ AddConnection
  PROVE  OnceInv'
<1>1. UNCHANGED <<conn_born, bus>> /\ work # <<>> /\ work \in Seq(WorkStep)
  BY DEF NotStarted, DropConnection, KillProcess, AddConnection, life, ProxyInv, WorkInv
<1>2. BusOnce' /\ \A c : Announced(c)' => Announced(c)
  BY <1>1, BusSame DEF OnceInv
<1>3. /\ Len(Tail(work)) = Len(work) - 1 /\ Len(work) \in Nat \ {0}
      /\ DOMAIN Tail(work) = 1..Len(work) - 1 /\ DOMAIN work = 1..Len(work)
      /\ \A i \in 1..Len(work) - 1 : Tail(work)[i] = work[i + 1]
  BY <1>1, EmptySeq
<1>4. \A i \in DOMAIN Tail(work) : Tail(work)[i].op # "add"
  <2> SUFFICES ASSUME NEW i \in DOMAIN Tail(work), Tail(work)[i].op = "add" PROVE FALSE
    OBVIOUS
  <2>1. i + 1 \in DOMAIN work /\ work[i + 1].op = "add" /\ Len(work) >= 2
    BY <1>3
  <2> QED
    BY <1>3, <2>1 DEF OnceInv
<1>5. CASE NotStarted \/ DropConnection
  <2>1. /\ work' = Tail(work)
        /\ conn_list' = conn_list \/ \E S : conn_list' \in Without(S)
    BY <1>5 DEF NotStarted, DropConnection, lists
  <2> QED
    BY <1>1, <1>2, <1>4, <2>1, OnceQuiet
<1>6. CASE KillProcess
  <2> DEFINE c == Head(work).arg
  <2>1. UNCHANGED conn_list /\ work' = <<DropOf(c)>> \o Tail(work) /\ Head(work).op = "kill"
    BY <1>6 DEF KillProcess, lists
  <2>2. DropOf(c) \in WorkStep /\ DropOf(c).op = "drop"
    BY <1>1, <2>1, FirstStep DEF DropOf, WorkStep
  <2> HIDE DEF c, WorkStep
  <2>3. /\ work' \in Seq(WorkStep) /\ Len(work') = Len(work) /\ work'[1] = DropOf(c)
        /\ \A i \in 2..Len(work) : work'[i] = work[i]
    BY <1>1, <2>1, <2>2, NewHead
  <2>4. ASSUME NEW i \in DOMAIN work', work'[i].op = "add"
        PROVE  FALSE
    <3>1. i # 1 /\ i \in 1..Len(work)
      BY <1>3, <2>2, <2>3, <2>4
    <3>2. i \in 2..Len(work) /\ i \in DOMAIN work /\ work[i].op = "add"
      BY <1>3, <2>3, <2>4, <3>1
    <3>3. Len(work) = 1
      BY <3>2 DEF OnceInv
    <3> QED
      BY <3>2, <3>3
  <2> QED
    BY <1>1, <1>2, <2>1, <2>4, OnceQuiet
<1>7. CASE AddConnection
  <2> DEFINE c == Head(work).arg
  <2>1. conn_list' = Append(conn_list, c) /\ Head(work).op = "add" /\ work' = Tail(work)
    BY <1>7 DEF AddConnection
  <2>2. c \in Ids /\ Head(work) = work[1] /\ 1 \in DOMAIN work
    BY <1>1, <2>1, FirstStep
  <2>3. c \notin Listed /\ c \in DOMAIN conn_born /\ conn_born[c].parent = None
    BY <2>1, <2>2 DEF OnceInv
  <2> HIDE DEF c
  <2>4. IsInjective(conn_list)' /\ Listed' = Listed \cup {c}
    BY <2>1, <2>2, <2>3, ListedOnce DEF ProxyInv, OnceInv, Listed, IsInjective
  <2>5. ~Announced(c)
    BY <2>3, AnnouncedIsChild DEF Child
  <2> QED
    BY <1>1, <1>2, <1>4, <2>1, <2>3, <2>4, <2>5 DEF OnceInv
<1> QED
  BY <1>5, <1>6, <1>7

\* A start announces new connections, and is going to list another new one.
LEMMA StartOnce ==
  ASSUME ProxyGiven, ProxyInv, OnceInv, StartProcess
  PROVE  OnceInv'
<1> DEFINE id == Len(conn_born) + 1
           g  == SidGate[Head(work).arg]
<1>1. /\ work # <<>> /\ Head(work).op = "start" /\ id \in Ids
      /\ work' = <<AddOf(id)>> \o Tail(work) /\ UNCHANGED <<conn_list, myqueue>>
  BY Started
<1>2. PICK n \in Nat : NewBorn(id, n, g) /\ NewTold(id, n)
  BY Started
<1> HIDE DEF id, g
<1>3. /\ id \in Nat /\ DOMAIN conn_born = 1..id - 1 /\ DOMAIN conn_born' = 1..id + n
      /\ conn_born'[id].parent = None
  BY <1>1, <1>2 DEF NewBorn, Ids
<1>4. \A c : Announced(c) => c \in 1..id - 1
  BY <1>3, AnnouncedIsChild DEF Child
<1>5. /\ queue \in Seq(Message) /\ Len(queue) \in Nat
      /\ DOMAIN queue' = 1..Len(queue) + n /\ DOMAIN queue = 1..Len(queue)
      /\ \A i \in 1..Len(queue) : queue'[i] = queue[i]
      /\ \A i \in 1..n : queue'[Len(queue) + i] = InfoMsg(id + i)
  <2>1. queue \in Seq(Message) /\ queue' \in Seq(Message) /\ Len(queue') = Len(queue) + n
    BY <1>2 DEF ProxyInv, BusInv, NewTold
  <2>2. /\ Len(queue) \in Nat /\ DOMAIN queue = 1..Len(queue)
        /\ DOMAIN queue' = 1..Len(queue')
    BY <2>1
  <2> QED
    BY <1>2, <2>1, <2>2 DEF NewTold
<1>6. ASSUME NEW i \in DOMAIN queue', queue'[i].type = "Info"
      PROVE  \/ i \in DOMAIN queue /\ queue'[i] = queue[i] /\ queue'[i].id \in 1..id - 1
             \/ i \notin DOMAIN queue /\ queue'[i].id = id + (i - Len(queue)) /\ queue'[i].id > id
  <2>1. CASE i \in DOMAIN queue
    <3>1. queue'[i] = queue[i]
      BY <1>5, <2>1
    <3>2. Announced(queue[i].id)
      BY <1>6, <2>1, <3>1 DEF Announced, InfoIn
    <3> QED
      BY <1>4, <2>1, <3>1, <3>2
  <2>2. CASE i \notin DOMAIN queue
    <3>1. i - Len(queue) \in 1..n /\ i = Len(queue) + (i - Len(queue))
      BY <1>5, <1>6, <2>2
    <3>2. queue'[i] = InfoMsg(id + (i - Len(queue)))
      BY <1>5, <3>1
    <3>3. queue'[i].id = id + (i - Len(queue))
      BY <3>2 DEF InfoMsg
    <3> QED
      BY <1>3, <2>2, <3>1, <3>3
  <2> QED
    BY <2>1, <2>2
<1>7. OnceIn(queue)'
  <2> SUFFICES ASSUME NEW i \in DOMAIN queue', NEW j \in DOMAIN queue', queue'[i].type = "Info",
                      queue'[j].type = "Info", queue'[i].id = queue'[j].id
               PROVE  i = j
    BY DEF OnceIn
  <2>1. i \in Nat /\ j \in Nat
    BY <1>5
  <2>2. CASE i \in DOMAIN queue
    <3>1. j \in DOMAIN queue /\ queue'[j] = queue[j] /\ queue'[i] = queue[i]
      BY <1>3, <1>6, <2>2
    <3> QED
      BY <2>2, <3>1 DEF OnceInv, BusOnce, OnceIn
  <2>3. CASE i \notin DOMAIN queue
    <3>1. queue'[i].id = id + (i - Len(queue)) /\ queue'[i].id > id
      BY <1>6, <2>3
    <3>2. j \notin DOMAIN queue /\ queue'[j].id = id + (j - Len(queue))
      <4>1. ~(queue'[j].id \in 1..id - 1)
        BY <1>3, <3>1
      <4> QED
        BY <1>6, <4>1
    <3>3. id + (i - Len(queue)) = id + (j - Len(queue))
      BY <3>1, <3>2
    <3>4. \A a, b, L \in Nat : id + (a - L) = id + (b - L) => a = b
      BY <1>3
    <3> QED
      BY <1>5, <2>1, <3>3, <3>4
  <2> QED
    BY <2>2, <2>3
<1>8. \A c : InfoIn(queue, c)' => InfoIn(queue, c) \/ (c \in Nat /\ c > id)
  <2> SUFFICES ASSUME NEW i \in DOMAIN queue', queue'[i].type = "Info"
               PROVE  InfoIn(queue, queue'[i].id) \/ (queue'[i].id \in Nat /\ queue'[i].id > id)
    BY DEF InfoIn
  <2>1. CASE i \in DOMAIN queue
    BY <1>6, <2>1 DEF InfoIn
  <2>2. CASE i \notin DOMAIN queue
    <3>1. queue'[i].id = id + (i - Len(queue)) /\ queue'[i].id > id
      BY <1>6, <2>2
    <3>2. i \in 1..Len(queue) + n
      BY <1>5
    <3>3. i - Len(queue) \in Nat
      BY <1>5, <2>2, <3>2
    <3> QED
      BY <1>3, <3>1, <3>3
  <2> QED
    BY <2>1, <2>2
<1>9. \A c : ~(c \in 1..id - 1 /\ c > id) /\ (c \in 1..id - 1 => c \in 1..id + n)
  BY <1>3
<1>10. BusOnce'
  <2>1. OnceIn(myqueue)' /\ \A c : InfoIn(myqueue, c)' => InfoIn(myqueue, c)
    BY <1>1 DEF OnceInv, BusOnce, OnceIn, InfoIn
  <2> QED
    BY <1>4, <1>7, <1>8, <1>9, <2>1 DEF OnceInv, BusOnce, Announced
<1>11. IsInjective(conn_list)' /\ Listed' = Listed /\ Listed \subseteq 1..id - 1
  BY <1>1, <1>3 DEF OnceInv, Listed, IsInjective
<1>12. \A c \in Listed' : ~Announced(c)'
  <2>1. \A c : Announced(c)' => Announced(c) \/ c > id
    BY <1>1, <1>8 DEF Announced, InfoIn
  <2> QED
    BY <1>9, <1>11, <2>1 DEF OnceInv
<1>13. \A i \in DOMAIN work' : Len(work') = 1 /\ work'[i].arg = id
  <2>1. work \in Seq(WorkStep) /\ Head(work) = work[1] /\ 1 \in DOMAIN work
    BY <1>1, FirstStep DEF ProxyInv, WorkInv
  <2>2. Len(work) = 1
    BY <1>1, <2>1 DEF ProxyInv, WorkInv
  <2>3. AddOf(id) \in WorkStep /\ AddOf(id).arg = id
    BY <1>1 DEF AddOf, WorkStep
  <2> HIDE DEF WorkStep
  <2>4. work' \in Seq(WorkStep) /\ Len(work') = 1 /\ work'[1] = AddOf(id)
    BY <1>1, <2>1, <2>2, <2>3, NewHead
  <2> QED
    BY <2>3, <2>4
<1>14. id \notin Listed' /\ id \in DOMAIN conn_born'
  <2>1. id \notin 1..id - 1 /\ id \in 1..id + n
    BY <1>1, <1>3 DEF Ids
  <2> QED
    BY <1>3, <1>11, <2>1
<1> QED
  BY <1>3, <1>9, <1>10, <1>11, <1>12, <1>13, <1>14 DEF OnceInv

-------------------------------------------------------------------------------
(***************************************************************************)
(* The other types: who has a parent has no process of its own.            *)
(***************************************************************************)
ProxyRest ==
  /\ sess \in [SpaceSids -> {"new", "inactive", "active", "gone"}]
  /\ \A c \in DOMAIN conn_born : conn_born[c].parent # None <=> conn_proc[c] = "none"
  /\ phase \in {"scan", "reconnect", "check", "died"} /\ cursor \in 1..MaxIds + 1
  /\ old \subseteq Ids /\ procs \subseteq Ids /\ todo \subseteq Ids /\ givenUp \subseteq Ids
  /\ lost \in Ids \cup {None}
  /\ up \in BOOLEAN /\ asks \in 0..MaxAsks /\ deaths \in 0..MaxDeaths

\* The user, the sessions, and processes that end.
LEMMA UserTyped ==
  ASSUME ProxyGiven, ProxyInv, ProxyRest,
         \/ \E s \in SpaceSids : AskOpen(s) \/ SessionChanges(s)
         \/ \E c \in Ids : AskClose(c) \/ ProcessEnds(c) \/ Age(c)
         \/ Route
  PROVE  ProxyRest'
<1>1. /\ UNCHANGED <<conn_born, phase, cursor, procs, todo, givenUp, lost, up>>
      /\ MaxAsks \in Nat /\ MaxDeaths \in Nat
  BY DEF AskOpen, SessionChanges, AskClose, ProcessEnds, Age, Route, lists, life, thread, conn_bounds,
         ProxyGiven, ProxyBounds
<1>2. asks' \in 0..MaxAsks /\ deaths' \in 0..MaxDeaths
  <2>1. /\ UNCHANGED asks \/ (asks < MaxAsks /\ asks' = asks + 1)
        /\ UNCHANGED deaths \/ (deaths < MaxDeaths /\ deaths' = deaths + 1)
    BY DEF AskOpen, SessionChanges, AskClose, ProcessEnds, Age, Route, conn_bounds
  <2> QED
    BY <1>1, <2>1 DEF ProxyRest
<1>3. sess' \in [SpaceSids -> {"new", "inactive", "active", "gone"}]
  BY DEF AskOpen, SessionChanges, AskClose, ProcessEnds, Age, Route, ProxyRest
<1>4. old' \subseteq Ids
  <2>1. DOMAIN conn_born \subseteq Ids
    BY DEF ProxyInv, LifeInv, ProxyGiven, ProxyBounds, Ids
  <2> QED
    BY <2>1 DEF AskOpen, SessionChanges, AskClose, ProcessEnds, Age, Route, ProxyRest
<1>5. \A c \in Ids : conn_proc'[c] = "none" <=> conn_proc[c] = "none"
  <2>1. \/ UNCHANGED conn_proc
        \/ \E c \in Ids : \E how \in {"exit0", "dead"} :
             conn_proc[c] = "running" /\ conn_proc' = [conn_proc EXCEPT ![c] = how]
    BY DEF AskOpen, SessionChanges, AskClose, ProcessEnds, Age, Route
  <2> QED
    BY <2>1 DEF ProxyInv, ProcInv
<1>6. DOMAIN conn_born \subseteq Ids
  BY DEF ProxyInv, LifeInv, ProxyGiven, ProxyBounds, Ids
<1> QED
  BY <1>1, <1>2, <1>3, <1>4, <1>5, <1>6 DEF ProxyRest

\* The main thread, which gives a process to the connections without a parent.
LEMMA MainTyped ==
  ASSUME ProxyGiven, ProxyInv, ProxyRest, MainStep
  PROVE  ProxyRest'
<1>1. UNCHANGED <<sess, phase, cursor, old, todo, givenUp, lost, asks, deaths>>
  BY DEF MainStep, ReadConnect, ReadDisconnect, ReadInfo, MainRaises, StartProcess, NotStarted,
         AddConnection, KillProcess, DropConnection, thread, conn_bounds
<1>2. up' \in BOOLEAN
  BY DEF MainStep, ReadConnect, ReadDisconnect, ReadInfo, MainRaises, StartProcess, NotStarted,
         AddConnection, KillProcess, DropConnection, conn_bounds, ProxyRest
<1>3. DOMAIN conn_born \subseteq Ids
  BY DEF ProxyInv, LifeInv, ProxyGiven, ProxyBounds, Ids
<1>4. CASE ~StartProcess
  <2>1. UNCHANGED <<conn_born, procs>>
    BY <1>4 DEF MainStep, ReadConnect, ReadDisconnect, ReadInfo, MainRaises, NotStarted,
                AddConnection, KillProcess, DropConnection, life, lists
  <2>2. \A c \in Ids : conn_proc'[c] = "none" <=> conn_proc[c] = "none"
    <3>1. CASE MainRaises
      BY <3>1 DEF MainRaises, ProxyInv, ProcInv
    <3>2. CASE KillProcess
      <4> DEFINE k == Head(work).arg
      <4>1. conn_proc' = IF conn_proc[k] = "running" THEN [conn_proc EXCEPT ![k] = "dead"] ELSE conn_proc
        BY <3>2 DEF KillProcess
      <4> HIDE DEF k
      <4> QED
        BY <4>1 DEF ProxyInv, ProcInv
    <3>3. CASE ~MainRaises /\ ~KillProcess
      <4>1. UNCHANGED conn_proc
        BY <1>4, <3>3 DEF MainStep, ReadConnect, ReadDisconnect, ReadInfo, NotStarted,
                          AddConnection, DropConnection
      <4> QED
        BY <4>1
    <3> QED
      BY <3>1, <3>2, <3>3
  <2> QED
    BY <1>1, <1>2, <1>3, <2>1, <2>2 DEF ProxyRest
<1>5. CASE StartProcess
  <2> DEFINE id == Len(conn_born) + 1
             g  == SidGate[Head(work).arg]
  <2>1. /\ id \in Ids /\ procs' = procs \cup {id}
        /\ conn_proc' = [conn_proc EXCEPT ![id] = "running"]
    BY <1>5, Started
  <2>2. PICK n \in Nat : NewBorn(id, n, g)
    BY <1>5, Started
  <2> HIDE DEF id, g
  <2>3. ASSUME NEW c \in DOMAIN conn_born'
        PROVE  conn_born'[c].parent # None <=> conn_proc'[c] = "none"
    <3>1. /\ id \in Nat /\ id + n <= MaxIds /\ MaxIds \in Nat /\ c \in 1..id + n /\ c \in Ids
          /\ DOMAIN conn_born = 1..id - 1
      BY <2>1, <2>2, <2>3 DEF NewBorn, Ids, ProxyGiven, ProxyBounds
    <3>2. CASE c \in 1..id - 1
      <4>1. c # id /\ conn_born'[c] = conn_born[c]
        BY <2>2, <3>1, <3>2 DEF NewBorn
      <4> QED
        BY <2>1, <3>1, <3>2, <4>1 DEF ProxyRest, ProxyInv, ProcInv
    <3>3. CASE c = id
      BY <2>1, <2>2, <3>1, <3>3 DEF ProxyInv, ProcInv, NewBorn
    <3>4. CASE c > id
      <4>1. c - id \in 1..n /\ c = id + (c - id)
        BY <3>1, <3>4
      <4>2. conn_born'[c].parent # None
        BY <2>2, <4>1 DEF NewBorn
      <4>3. conn_proc[c] = "none" /\ c # id
        BY <3>1, <3>4 DEF ProxyInv, ProcInv
      <4> QED
        BY <2>1, <3>1, <4>2, <4>3 DEF ProxyInv, ProcInv
    <3> QED
      BY <3>1, <3>2, <3>3, <3>4
  <2> QED
    BY <1>1, <1>2, <2>1, <2>3 DEF ProxyRest
<1> QED
  BY <1>4, <1>5

\* The other thread, whose place is in the list or just behind it.
LEMMA ThreadTyped ==
  ASSUME ProxyGiven, ProxyInv, OnceInv, ProxyRest, ThreadStep
  PROVE  ProxyRest'
<1>1. UNCHANGED <<conn_born, conn_proc, old, up, asks, deaths>>
  BY DEF ThreadStep, BeginScan, LookAlive, LookEnded, Reconnect, ReconnectNew, CheckGood, CheckBad,
         CheckRaises, EndCheck, life, conn_bounds
<1>2. sess' \in [SpaceSids -> {"new", "inactive", "active", "gone"}]
  BY DEF ThreadStep, BeginScan, LookAlive, LookEnded, Reconnect, ReconnectNew, CheckGood, CheckBad,
         CheckRaises, EndCheck, ProxyRest
<1>3. cursor' \in 1..MaxIds + 1
  <2>1. Len(conn_list) \in 0..MaxIds /\ MaxIds \in Nat
    BY ShortList DEF ProxyInv, OnceInv, ProxyGiven, ProxyBounds
  <2>2. \/ cursor' \in {1, cursor}
        \/ cursor <= Len(conn_list) /\ cursor' = cursor + 1
    BY DEF ThreadStep, BeginScan, LookAlive, LookEnded, Reconnect, ReconnectNew, CheckGood, CheckBad,
           CheckRaises, EndCheck, Passed
  <2> QED
    BY <2>1, <2>2 DEF ProxyRest
<1>4. phase' \in {"scan", "reconnect", "check", "died"}
  BY DEF ThreadStep, BeginScan, LookAlive, LookEnded, Reconnect, ReconnectNew, CheckGood, CheckBad,
         CheckRaises, EndCheck, Looked, ProxyRest
<1>5. procs' \subseteq procs /\ todo' \subseteq todo \cup procs /\ lost' \in Ids \cup {None}
  BY DEF ThreadStep, BeginScan, LookAlive, LookEnded, Reconnect, ReconnectNew, CheckGood, CheckBad,
         CheckRaises, EndCheck, Looked, lists, ProxyRest
<1>6. givenUp' \subseteq Ids
  <2>1. CASE CheckBad
    <3>1. cursor \in DOMAIN conn_list /\ conn_list \in Seq(Ids)
      BY <2>1 DEF CheckBad, ProxyInv, ProxyRest
    <3>2. conn_list[cursor] \in Ids
      BY <3>1
    <3> QED
      BY <2>1, <3>2 DEF CheckBad, ProxyRest
  <2> QED
    BY <2>1 DEF ThreadStep, BeginScan, LookAlive, LookEnded, Reconnect, ReconnectNew, CheckGood,
                CheckRaises, EndCheck, ProxyRest
<1> QED
  BY <1>1, <1>2, <1>3, <1>4, <1>5, <1>6 DEF ProxyRest

\* All of them together.
ListedInv == ProxyInv /\ OnceInv /\ ProxyRest

\* Nothing is listed or announced in the beginning.
LEMMA ListedStart == ASSUME ProxyGiven, ProxyInit PROVE OnceInv /\ ProxyRest
<1>1. /\ conn_born = <<>> /\ queue = <<>> /\ myqueue = <<>> /\ work = <<>> /\ conn_list = <<>>
      /\ sess \in [SpaceSids -> {"new", "inactive", "active"}]
  BY DEF ProxyInit
<1>2. OnceInv
  BY <1>1 DEF OnceInv, BusOnce, OnceIn, InfoIn, Announced, Listed, ToSet, IsInjective
<1>3. ProxyRest
  BY <1>1 DEF ProxyInit, ProxyRest, ProxyGiven, ProxyBounds
<1> QED
  BY <1>2, <1>3

\* Every step keeps it.
LEMMA ListedStep ==
  ASSUME ProxyGiven, ListedInv, [ProxyNext]_conn_vars
  PROVE  OnceInv' /\ ProxyRest'
<1> USE DEF ListedInv
<1>1. CASE UNCHANGED conn_vars
  <2>1. UNCHANGED <<conn_born, conn_list, work, conn_proc>> /\ UNCHANGED bus
    BY <1>1 DEF conn_vars, life, lists
  <2>2. OnceInv'
    BY <2>1, BusSame, OnceQuiet DEF OnceInv
  <2>3. ProxyRest'
    BY <1>1 DEF conn_vars, life, lists, thread, conn_bounds, ProxyRest
  <2> QED
    BY <2>2, <2>3
<1>2. CASE MainStep
  BY <1>2, ReadOnce, WorkOnce, StartOnce, MainTyped DEF MainStep
<1>3. CASE ThreadStep
  BY <1>3, ThreadOnce, ThreadTyped
<1> QED
  BY <1>1, <1>2, <1>3, UserOnce, UserTyped DEF ProxyNext

(***************************************************************************)
(* A connection is in the list once, whichever of the two threads adds it  *)
(* and takes others out, and the variables keep their types: the thread of *)
(* the health check stays within the list it runs through.                 *)
(***************************************************************************)
THEOREM ProxyTypeCorrect ==
  ASSUME GateAssumption, ProxyBounds
  PROVE  ProxySpec => []ProxyTypeOK
<1> USE DEF ProxyGiven
<1>1. ProxyInit => OnceInv /\ ProxyRest
  BY ListedStart
<1>2. ProxyInv /\ OnceInv /\ ProxyRest /\ [ProxyNext]_conn_vars => (OnceInv /\ ProxyRest)'
  BY ListedStep DEF ListedInv
<1>3. ProxyInv /\ OnceInv /\ ProxyRest => ProxyTypeOK
  <2> SUFFICES ASSUME ProxyInv, OnceInv, ProxyRest PROVE ProxyTypeOK
    OBVIOUS
  <2>1. WorkStep = [op : {"start"}, arg : SpaceSids] \cup [op : {"add", "kill", "drop"}, arg : Ids]
    BY DEF WorkStep
  <2> QED
    BY <2>1 DEF ProxyInv, LifeInv, ProcInv, BusInv, WorkInv, OnceInv, ProxyRest, ProxyTypeOK
<1> QED
  BY <1>1, <1>2, <1>3, ProxyInvariant, PTL DEF ProxySpec

-------------------------------------------------------------------------------
(***************************************************************************)
(* The end of the client.                                                  *)
(***************************************************************************)

\* What a child reads from its queue is a message for it, and the rest stay messages.
LEMMA TakenFromInbox ==
  ASSUME MainTypeOK, NEW c \in Children, inbox[c] # <<>>,
         inbox' = [inbox EXCEPT ![c] = Tail(@)]
  PROVE  /\ DOMAIN inbox' = Children
         /\ Head(inbox[c]) \in MainMessage /\ Head(inbox[c]).to \in {c, "all"}
         /\ \A d \in Children : inbox'[d] \in Seq({n \in MainMessage : n.to \in {d, "all"}})
<1> DEFINE For(d) == {n \in MainMessage : n.to \in {d, "all"}}
<1>1. inbox[c] \in Seq(For(c)) /\ inbox[c] # <<>>
  BY DEF MainTypeOK
<1>2. Head(inbox[c]) \in For(c) /\ Tail(inbox[c]) \in Seq(For(c))
  BY <1>1
<1> QED
  BY <1>2 DEF MainTypeOK

\* Main puts into each queue messages for that child.
LEMMA PutInInboxes ==
  ASSUME MainTypeOK, NEW ms, PutIn(ms),
         \A c \in Children : ms[c] \in Seq({n \in MainMessage : n.to \in {c, "all"}})
  PROVE  /\ DOMAIN inbox' = Children
         /\ \A c \in Children : inbox'[c] \in Seq({n \in MainMessage : n.to \in {c, "all"}})
<1>1. DOMAIN inbox' = Children /\ \A c \in Children : inbox'[c] = inbox[c] \o ms[c]
  BY DEF PutIn
<1>2. ASSUME NEW c \in Children
      PROVE  inbox'[c] \in Seq({n \in MainMessage : n.to \in {c, "all"}})
  <2> DEFINE F == {n \in MainMessage : n.to \in {c, "all"}}
  <2>1. inbox[c] \in Seq(F) /\ ms[c] \in Seq(F)
    BY DEF MainTypeOK
  <2> HIDE DEF F
  <2>2. inbox[c] \o ms[c] \in Seq(F)
    BY <2>1
  <2> QED
    BY <1>1, <2>2 DEF F
<1> QED
  BY <1>1, <1>2

\* The queue of main holds messages.
LEMMA PutInQueue ==
  ASSUME MainTypeOK, NEW m \in MainMessage, Put(m)
  PROVE  main_queue' \in Seq(MainMessage)
BY DEF MainTypeOK, Put

\* The children, and the messages of main.
LEMMA Family ==
  /\ {"proxy", "wallet", "daemon", "http"} \subseteq Children
  /\ Children \subseteq {"proxy", "wallet", "daemon", "http", "gui"}
  /\ Exit \in MainMessage /\ Exit.to = "all"
  /\ [to |-> "wallet", do |-> "pay"] \in MainMessage
  /\ [to |-> "all", do |-> "paid"] \in MainMessage
  /\ \A c \in MainConns : /\ [to |-> "proxy", do |-> "connect", conn |-> c] \in MainMessage
                          /\ [to |-> "proxy", do |-> "disconnect", conn |-> c] \in MainMessage
BY DEF Children, MainMessage, Exit

\* Short queues.
LEMMA ShortQueues ==
  ASSUME NEW S
  PROVE  <<>> \in Seq(S) /\ \A m \in S : <<m>> \in Seq(S)
OBVIOUS

\* What the two invariants say holds at first.
LEMMA ClientMainInitial ==
  ASSUME ClientMainAssumption PROVE MainInit => MainTypeOK /\ EndsClean
<1> SUFFICES ASSUME MainInit
              PROVE  MainTypeOK /\ EndsClean
  OBVIOUS
<1>1. child \in [Children -> {"opening", "serves", "failed", "ending", "gone"}]
  BY DEF MainInit
<1>2. rpc \in BOOLEAN /\ main_auto \in BOOLEAN /\ exit \in BOOLEAN
  BY DEF MainInit, ClientMainAssumption
<1>3. DOMAIN inbox = Children /\ main_queue \in Seq(MainMessage)
  BY DEF MainInit
<1>4. \A c \in Children : inbox[c] \in Seq({m \in MainMessage : m.to \in {c, "all"}})
  BY DEF MainInit
<1>5. main_requests \in 0..MaxMsgs /\ forced = {} /\ main_conns = {} /\ main = "loop"
  BY DEF MainInit, ClientMainAssumption
<1>6. child["proxy"] # "gone" /\ child["wallet"] # "gone"
  BY Family DEF MainInit
<1> QED
  BY <1>1, <1>2, <1>3, <1>4, <1>5, <1>6 DEF MainTypeOK, EndsClean

\* The queues stay as they are: a step of a child, or of nobody.
LEMMA ChildSteps ==
  ASSUME MainTypeOK, EndsClean, UNCHANGED <<main, main_queue, inbox, exit, main_requests>>,
         child' \in [Children -> {"opening", "serves", "failed", "ending", "gone"}],
         main_conns' \subseteq main_conns, rpc' = rpc \/ rpc' = FALSE, main_auto' \in BOOLEAN,
         forced \subseteq forced', forced' \subseteq Children,
         child'["proxy"] = "gone" /\ "proxy" \notin forced' =>
           child["proxy"] = "gone" \/ main_conns' = {},
         child'["wallet"] = "gone" /\ "wallet" \notin forced' =>
           child["wallet"] = "gone" \/ ~rpc'
  PROVE  MainTypeOK' /\ EndsClean'
<1>1. rpc' \in BOOLEAN
  <2>1. CASE rpc' = rpc
    BY <2>1 DEF MainTypeOK
  <2>2. CASE rpc' = FALSE
    BY <2>2
  <2> QED
    BY <2>1, <2>2
<1>2. MainTypeOK'
  BY <1>1 DEF MainTypeOK
<1>3. child'["proxy"] = "gone" /\ "proxy" \notin forced' => main_conns' = {}
  BY DEF EndsClean
<1>4. child'["wallet"] = "gone" /\ "wallet" \notin forced' => ~rpc'
  <2>1. CASE rpc' = rpc
    BY <2>1 DEF EndsClean
  <2>2. CASE rpc' = FALSE
    BY <2>2
  <2> QED
    BY <2>1, <2>2
<1> QED
  BY <1>2, <1>3, <1>4 DEF EndsClean

\* Main routes a message, or tells the children to end.
LEMMA MainPuts ==
  ASSUME MainTypeOK, EndsClean, NEW ms, PutIn(ms),
         \A c \in Children : ms[c] \in Seq({n \in MainMessage : n.to \in {c, "all"}}),
         main' \in {"loop", "last", "stop", "join"}, main_queue' \in Seq(MainMessage),
         UNCHANGED <<child, main_work, main_auto, exit, main_requests, forced>>
  PROVE  MainTypeOK' /\ EndsClean'
<1>1. /\ DOMAIN inbox' = Children
      /\ \A c \in Children : inbox'[c] \in Seq({n \in MainMessage : n.to \in {c, "all"}})
  BY PutInInboxes
<1> QED
  BY <1>1 DEF MainTypeOK, EndsClean, main_work

\* Every step keeps the two invariants.
LEMMA ClientMainKeeps ==
  ASSUME ClientMainAssumption, MainTypeOK, EndsClean, [MainNext]_main_vars
  PROVE  MainTypeOK' /\ EndsClean'
<1>1. CASE UNCHANGED main_vars
  BY <1>1 DEF main_vars, main_work, MainTypeOK, EndsClean
<1>2. CASE MainRequest
  <2>1. main_queue' \in Seq(MainMessage)
    BY <1>2, PutInQueue, Family DEF MainRequest
  <2>2. main_requests' \in 0..MaxMsgs
    BY <1>2 DEF MainRequest, MainTypeOK, ClientMainAssumption
  <2> QED
    BY <1>2, <2>1, <2>2 DEF MainRequest, main_work, MainTypeOK, EndsClean
<1>3. CASE MainRoute
  <2> DEFINE m  == Head(main_queue)
              ms == IF m.to = "all" THEN ToAll(m)
                    ELSE [c \in Children |-> IF c = m.to /\ (c = "wallet" => RunWallet)
                                             THEN <<m>> ELSE <<>>]
  <2>1. m \in MainMessage /\ main_queue' \in Seq(MainMessage)
    BY <1>3 DEF MainRoute, MainTypeOK
  <2>2. ASSUME NEW c \in Children
        PROVE  ms[c] \in Seq({n \in MainMessage : n.to \in {c, "all"}})
    <3>1. ms[c] = <<>> \/ (ms[c] = <<m>> /\ m.to \in {c, "all"})
      BY DEF ToAll
    <3> QED
      BY <2>1, <3>1, ShortQueues
  <2>3. PutIn(ms) /\ main' \in {"loop", "last", "stop", "join"}
    BY <1>3 DEF MainRoute
  <2> HIDE DEF m, ms
  <2> QED
    BY <1>3, <2>1, <2>2, <2>3, MainPuts DEF MainRoute
<1>4. CASE NoneLast \/ Join \/ Killed \/ Done \/ AutoEnds
  <2>1. main' \in {"loop", "last", "stop", "join", "kill", "auto", "done"}
    BY <1>4 DEF NoneLast, Join, Killed, Done, AutoEnds, MainTypeOK
  <2>2. main_auto' \in BOOLEAN /\ exit' \in BOOLEAN
    BY <1>4, Zenon DEF NoneLast, Join, Killed, Done, AutoEnds, MainTypeOK
  <2>3. UNCHANGED <<child, main_queue, inbox, main_conns, rpc, main_requests, forced>>
    BY <1>4 DEF NoneLast, Join, Killed, Done, AutoEnds, main_work
  <2> QED
    BY <2>1, <2>2, <2>3 DEF MainTypeOK, EndsClean
<1>5. CASE Notice
  <2> DEFINE ms == [c \in Children |-> IF c \in {"gui", "wallet", "daemon"} THEN <<Exit>> ELSE <<>>]
  <2>1. \A c \in Children : ms[c] \in Seq({n \in MainMessage : n.to \in {c, "all"}})
    BY Family, ShortQueues
  <2>2. PutIn(ms) /\ main' \in {"loop", "last", "stop", "join"}
    BY <1>5 DEF Notice
  <2> HIDE DEF ms
  <2> QED
    BY <1>5, <2>1, <2>2, MainPuts DEF Notice, MainTypeOK
<1>6. CASE Stop
  <2>1. Cardinality(main_conns) \in Nat
    BY FS_Subset, FS_CardinalityType DEF MainTypeOK, ClientMainAssumption
  <2>2. PICK order \in [1..Cardinality(main_conns) -> main_conns] :
          PutIn([c \in Children |->
            IF c # "proxy" THEN <<>>
            ELSE Append([i \in DOMAIN order |->
                           [to |-> "proxy", do |-> "disconnect", conn |-> order[i]]],
                        Exit)])
    BY <1>6 DEF Stop
  <2> DEFINE closing == [i \in DOMAIN order |->
                         [to |-> "proxy", do |-> "disconnect", conn |-> order[i]]]
              ms == [c \in Children |-> IF c # "proxy" THEN <<>> ELSE Append(closing, Exit)]
              F == {n \in MainMessage : n.to \in {"proxy", "all"}}
  <2>3. closing \in [1..Cardinality(main_conns) -> F]
    BY Family DEF MainTypeOK
  <2>4. closing \in Seq(F) /\ Exit \in F
    BY <2>1, <2>3, Family
  <2>5. PutIn(ms)
    BY <2>2
  <2> HIDE DEF closing, F
  <2>6. Append(closing, Exit) \in Seq(F)
    BY <2>4
  <2>7. \A c \in Children : ms[c] \in Seq({n \in MainMessage : n.to \in {c, "all"}})
    BY <2>6 DEF F
  <2> HIDE DEF ms
  <2> QED
    BY <1>6, <2>5, <2>7, MainPuts DEF Stop, MainTypeOK
<1>7. ASSUME NEW c \in Children, KillChild(c)
      PROVE  MainTypeOK' /\ EndsClean'
  BY <1>7, ChildSteps DEF KillChild, main_work, MainTypeOK
<1>8. ASSUME NEW c \in Children, Fail(c) \/ Die(c)
      PROVE  MainTypeOK' /\ EndsClean'
  <2>1. child' \in [Children -> {"opening", "serves", "failed", "ending", "gone"}]
    BY <1>8 DEF Fail, Die, Become, MainTypeOK
  <2>2. UNCHANGED <<main, main_queue, inbox, exit, main_requests, main_conns, rpc, main_auto>>
    BY <1>8 DEF Fail, Die, main_work
  <2>3. forced \subseteq forced' /\ forced' \subseteq Children
    BY <1>8 DEF Fail, Die, MainTypeOK
  <2>4. \A d \in {"proxy", "wallet"} :
          child'[d] = "gone" /\ d \notin forced' => child[d] = "gone"
    BY <1>8, Family DEF Fail, Die, Become, MainTypeOK
  <2> QED
    BY <2>1, <2>2, <2>3, <2>4, ChildSteps DEF MainTypeOK
<1>9. CASE StopProxy \/ OpenWallet \/ StopWallet \/ RpcEnds \/ CloseGui
  <2>1. main_conns' \subseteq main_conns /\ (rpc' = rpc \/ rpc' = FALSE)
    BY <1>9 DEF StopProxy, OpenWallet, StopWallet, RpcEnds, CloseGui, main_work
  <2>2. child' \in [Children -> {"opening", "serves", "failed", "ending", "gone"}]
    BY <1>9 DEF StopProxy, OpenWallet, StopWallet, RpcEnds, CloseGui, Become, MainTypeOK
  <2>3. /\ child'["proxy"] = "gone" => child["proxy"] = "gone" \/ main_conns' = {}
        /\ child'["wallet"] = "gone" => child["wallet"] = "gone" \/ ~rpc'
    BY <1>9, Family DEF StopProxy, OpenWallet, StopWallet, RpcEnds, CloseGui, Become, MainTypeOK
  <2>4. UNCHANGED <<main, main_queue, inbox, exit, main_requests, main_auto, forced>>
    BY <1>9 DEF StopProxy, OpenWallet, StopWallet, RpcEnds, CloseGui
  <2> QED
    BY <2>1, <2>2, <2>3, <2>4, ChildSteps DEF MainTypeOK
<1>10. CASE ReadProxy \/ ReadWallet \/ ReadDaemon \/ ReadGui
  <2>1. PICK c \in Children : /\ c \in {"proxy", "wallet", "daemon", "gui"}
                              /\ child[c] = "serves" /\ inbox[c] # <<>>
                              /\ inbox' = [inbox EXCEPT ![c] = Tail(@)]
                              /\ c = "gui" => ReadGui
                              /\ c = "proxy" => ReadProxy
                              /\ c = "wallet" => ReadWallet
                              /\ c = "daemon" => ReadDaemon
    BY <1>10, Family DEF ReadProxy, ReadWallet, ReadDaemon, ReadGui, Children
  <2> DEFINE m == Head(inbox[c])
  <2>2. /\ DOMAIN inbox' = Children /\ m \in MainMessage /\ m.to \in {c, "all"}
        /\ \A d \in Children : inbox'[d] \in Seq({n \in MainMessage : n.to \in {d, "all"}})
    BY <2>1, TakenFromInbox
  <2>3. main_queue' \in Seq(MainMessage)
    BY <1>10, PutInQueue, Family DEF ReadProxy, ReadWallet, ReadDaemon, ReadGui, MainTypeOK
  <2>4. child' \in [Children -> {"opening", "serves", "failed", "ending", "gone"}]
    BY <1>10 DEF ReadProxy, ReadWallet, ReadDaemon, ReadGui, Become, MainTypeOK
  <2>5. main_conns' \subseteq MainConns /\ (c # "proxy" => UNCHANGED main_conns)
    <3>1. CASE c = "proxy"
      <4>1. m.do \in {"connect", "disconnect"} => m.conn \in MainConns
        BY <2>2 DEF MainMessage
      <4> QED
        BY <3>1, <2>1, <4>1 DEF ReadProxy, MainTypeOK
    <3>2. CASE c # "proxy"
      BY <3>2, <2>1 DEF ReadWallet, ReadDaemon, ReadGui, main_work, MainTypeOK
    <3> QED
      BY <3>1, <3>2
  <2>6. UNCHANGED <<main, rpc, main_auto, exit, main_requests, forced>>
    BY <1>10 DEF ReadProxy, ReadWallet, ReadDaemon, ReadGui, main_work
  <2>7. /\ child'["proxy"] = "gone" => child["proxy"] = "gone" /\ c # "proxy"
        /\ child'["wallet"] = "gone" => child["wallet"] = "gone"
    BY <2>1, Family DEF ReadProxy, ReadWallet, ReadDaemon, ReadGui, Become, MainTypeOK
  <2>8. MainTypeOK'
    BY <2>2, <2>3, <2>4, <2>5, <2>6 DEF MainTypeOK
  <2>9. EndsClean'
    BY <2>5, <2>6, <2>7 DEF EndsClean
  <2> QED
    BY <2>8, <2>9
<1> QED
  BY <1>1, <1>2, <1>3, <1>4, <1>5, <1>6, <1>7, <1>8, <1>9, <1>10 DEF MainNext, MainLoopStep

\* The type invariant and the clean end hold together.
LEMMA ClientMainInvariance ==
  ASSUME ClientMainAssumption
  PROVE  MainSpec => [](MainTypeOK /\ EndsClean)
<1>1. MainInit => MainTypeOK /\ EndsClean
  BY ClientMainInitial
<1>2. MainTypeOK /\ EndsClean /\ [MainNext]_main_vars => (MainTypeOK /\ EndsClean)'
  BY ClientMainKeeps
<1> QED
  BY <1>1, <1>2, PTL DEF MainSpec

(***************************************************************************)
(* A child of the client is only sent what it understands.                 *)
(***************************************************************************)
THEOREM ClientMainTypeCorrect == ASSUME ClientMainAssumption PROVE MainSpec => []MainTypeOK
BY ClientMainInvariance, PTL

(***************************************************************************)
(* A proxy that ends of itself leaves no process of a connection behind,   *)
(* and the wallet none of its RPC.                                         *)
(***************************************************************************)
THEOREM EndsCleanAlways == ASSUME ClientMainAssumption PROVE MainSpec => []EndsClean
BY ClientMainInvariance, PTL
===============================================================================

----------------------------- MODULE ClientProxy ------------------------------
(***************************************************************************)
(* The connections of the client.  ProxyService (client/proxy.py) starts a *)
(* process for each connection.  Two of its threads change the list of     *)
(* connections and the list of processes, without a lock: the main thread, *)
(* which reads messages (connect, disconnect, and what an ssh process says *)
(* of the gates it reaches), and the thread of refresh_connections(),      *)
(* which finds ended processes, reconnects, and looks at the health of     *)
(* every connection.                                                       *)
(***************************************************************************)
EXTENDS Naturals, Sequences, SequencesExt, FiniteSets, NoValue

CONSTANTS
  Gates, Ssh, Wg,    \* all gates; those reached by ssh and by WireGuard
  Subgates,          \* the gates that an ssh gate leads to
  Replaces,          \* the gate each gate replaces, or None
  Strict,            \* gates of which a refused check raises (daemon-p2p-proxy)
  SpaceSids, SidGate,     \* sessions of the one space, and their gates
  ProxyReconnects,     \* --auto-reconnect
  MaxIds, MaxAsks, MaxDeaths   \* bounds of the model

GateAssumption ==
  /\ IsFiniteSet(Gates) /\ Ssh \subseteq Gates /\ Wg \subseteq Gates /\ Strict \subseteq Gates
  /\ Subgates \in [Gates -> SUBSET (Gates \ Ssh)]
  /\ Replaces \in [Gates -> Gates \cup {None}] /\ None \notin Gates \cup SpaceSids
  /\ SidGate \in [SpaceSids -> Gates]
ProxyBounds ==
  /\ ProxyReconnects \in BOOLEAN
  /\ MaxIds \in Nat /\ MaxAsks \in Nat /\ MaxDeaths \in Nat
  /\ None \notin 1..MaxIds

VARIABLES
  sess,       \* what the table has of each session: "new", "inactive", "active" or "gone"
  conn_born,       \* all connections ever made, a connection's id being its place
  kids,       \* the connections that each of them is the parent of
  old,        \* connections that are at least 90 seconds old
  conn_list,      \* the list of connections
  procs,      \* the list of processes: the connections they are of
  conn_proc,       \* "none", "running", "exit0" (ended with code 0) or "dead"
  queue, myqueue,   \* messages for the client's main loop and for ProxyService
  work,       \* what the main thread has still to do
  phase,      \* of the other thread: "scan", "reconnect", "check" or "died"
  todo,       \* processes of its copy of the list, still to look at
  lost,       \* the connection whose process it has found ended, or None
  cursor,     \* its place in the list of connections
  up,         \* does the process of ProxyService run?
  asks, deaths,
  givenUp     \* connections that failed the health check

life        == <<conn_born, kids>>
lists       == <<conn_list, procs>>
bus         == <<queue, myqueue>>
thread      == <<phase, todo, lost, cursor>>
conn_bounds == <<up, asks, deaths>>
conn_vars   == <<sess, life, old, lists, conn_proc, bus, work, thread, conn_bounds, givenUp>>

Ids   == 1..MaxIds
Birth == [gate : Gates, sid : SpaceSids, parent : Ids \cup {None}, active : BOOLEAN]

OpenMsg(s)  == [type |-> "Connect", sid |-> s]
CloseMsg(c) == [type |-> "Disconnect", id |-> c]
InfoMsg(c)  == [type |-> "Info", id |-> c]
Message == [type : {"Connect"}, sid : SpaceSids] \cup [type : {"Disconnect", "Info"}, id : Ids]

StartOf(s) == [op |-> "start", arg |-> s]
AddOf(c)   == [op |-> "add", arg |-> c]
KillOf(c)  == [op |-> "kill", arg |-> c]
DropOf(c)  == [op |-> "drop", arg |-> c]

ProxyTypeOK ==
  /\ sess \in [SpaceSids -> {"new", "inactive", "active", "gone"}]
  /\ conn_born \in Seq(Birth) /\ Len(conn_born) <= MaxIds
  /\ kids \in [Ids -> SUBSET Ids] /\ old \subseteq Ids
  /\ conn_list \in Seq(Ids) /\ IsInjective(conn_list) /\ procs \subseteq Ids
  /\ conn_proc \in [Ids -> {"none", "running", "exit0", "dead"}]
  /\ \A c \in DOMAIN conn_born : conn_born[c].parent # None <=> conn_proc[c] = "none"
  /\ {queue, myqueue} \subseteq Seq(Message)
  /\ work \in Seq([op : {"start"}, arg : SpaceSids] \cup [op : {"add", "kill", "drop"}, arg : Ids])
  /\ phase \in {"scan", "reconnect", "check", "died"}
  /\ todo \subseteq Ids /\ lost \in Ids \cup {None} /\ cursor \in 1..MaxIds + 1
  /\ up \in BOOLEAN /\ asks \in 0..MaxAsks /\ deaths \in 0..MaxDeaths
  /\ givenUp \subseteq Ids

ProxyInit ==
  /\ sess \in [SpaceSids -> {"new", "inactive", "active"}]
  /\ conn_born = <<>> /\ kids = [c \in Ids |-> {}] /\ old = {}
  /\ conn_list = <<>> /\ procs = {} /\ conn_proc = [c \in Ids |-> "none"]
  /\ queue = <<>> /\ myqueue = <<>> /\ work = <<>>
  /\ phase = "scan" /\ todo = {} /\ lost = None /\ cursor = 1
  /\ up = TRUE /\ asks = 0 /\ deaths = 0 /\ givenUp = {}

Listed       == ToSet(conn_list)
GateOf(c)    == conn_born[c].gate
Connected(g) == \E c \in Listed : GateOf(c) = g
\* The connection that find_by_gateid() returns, if there is one.
FirstOf(g) ==
  {conn_list[i] : i \in {i \in DOMAIN conn_list : /\ GateOf(conn_list[i]) = g
                                              /\ \A j \in 1..i - 1 : GateOf(conn_list[j]) # g}}
\* The bound of the model allows another connection to g.
Room(g)      == Len(conn_born) + 1 + Cardinality(Subgates[g]) <= MaxIds

\* The ways to put a set in a row.
Orders(S) == {q \in [1..Cardinality(S) -> S] : {q[i] : i \in DOMAIN q} = S}

\* What is left of the list without the connections of S: the others, in the order they were in.
Without(S) ==
  LET Before(c, d) == \E j \in DOMAIN conn_list : \E i \in 1..j - 1 :
                        conn_list[i] = c /\ conn_list[j] = d
  IN {q \in Orders(Listed \ S) : \A j \in DOMAIN q : \A i \in 1..j - 1 : Before(q[i], q[j])}

-------------------------------------------------------------------------------
(***************************************************************************)
(* The user, and what happens to sessions and processes by itself.         *)
(***************************************************************************)
AskOpen(s) ==
  /\ asks < MaxAsks /\ sess[s] \in {"inactive", "active"}
  /\ asks' = asks + 1
  /\ queue' = Append(queue, OpenMsg(s))
  /\ UNCHANGED <<sess, life, old, lists, conn_proc, myqueue, work, thread, up, deaths, givenUp>>

AskClose(c) ==
  /\ asks < MaxAsks /\ c \in Listed
  /\ asks' = asks + 1
  /\ queue' = Append(queue, CloseMsg(c))
  /\ UNCHANGED <<sess, life, old, lists, conn_proc, myqueue, work, thread, up, deaths, givenUp>>

\* The session is activated, or it expires and its row is removed.
SessionChanges(s) ==
  /\ \/ sess[s] = "inactive" /\ sess' = [sess EXCEPT ![s] = "active"]
     \/ sess[s] \in {"inactive", "active"} /\ sess' = [sess EXCEPT ![s] = "gone"]
  /\ UNCHANGED <<life, old, lists, conn_proc, bus, work, thread, conn_bounds, givenUp>>

ProcessEnds(c) ==
  /\ deaths < MaxDeaths /\ conn_proc[c] = "running"
  /\ deaths' = deaths + 1
  /\ \E how \in {"dead"} \cup (IF GateOf(c) \in Ssh THEN {"exit0"} ELSE {}) :
       conn_proc' = [conn_proc EXCEPT ![c] = how]
  /\ UNCHANGED <<sess, life, old, lists, bus, work, thread, up, asks, givenUp>>

Age(c) ==
  /\ c \in DOMAIN conn_born \ old
  /\ old' = old \cup {c}
  /\ UNCHANGED <<sess, life, lists, conn_proc, bus, work, thread, conn_bounds, givenUp>>

\* The main loop of client.py passes messages for the proxy on.
Route ==
  /\ queue # <<>>
  /\ queue' = Tail(queue) /\ myqueue' = Append(myqueue, Head(queue))
  /\ UNCHANGED <<sess, life, old, lists, conn_proc, work, thread, conn_bounds, givenUp>>

-------------------------------------------------------------------------------
(***************************************************************************)
(* The main thread.  A message becomes a list of steps, each of them one   *)
(* change that the other thread can see.                                   *)
(***************************************************************************)
Reads(m) ==
  /\ work = <<>> /\ myqueue # <<>>
  /\ m = Head(myqueue)
  /\ myqueue' = Tail(myqueue)

\* Connections disconnect() has an entry for: those with a process in the list, and the gates
\* behind ssh.
Handled(c) == c \in procs \/ conn_born[c].parent # None

(***************************************************************************)
(* disconnect(): the gates behind it first, as far as it is still listed.  *)
(* It runs through the list of processes, and when the other thread takes  *)
(* an ended one out of it meanwhile, the next entry is passed over.        *)
(***************************************************************************)
Overlooking == \E p \in procs : conn_proc[p] = "dead"

DisconnectSteps(c) ==
  LET Behind    == IF c \in Listed THEN kids[c] ELSE {}
      Seen      == IF Overlooking THEN SUBSET Behind ELSE {Behind}
      Kills(q)  == [i \in 1..Len(q) + 1 |-> KillOf(IF i <= Len(q) THEN q[i] ELSE c)]
  IN IF ~Handled(c) THEN {<<>>}
     ELSE {Kills(q) : q \in UNION {Orders(K) : K \in Seen}}
          \cup (IF Overlooking THEN {<<>>} ELSE {})

\* The connection a message makes the main thread disconnect, if any.
ToClose(m) ==
  IF m.type = "Disconnect" THEN {m.id}
  ELSE IF m.type = "Connect" /\ sess[m.sid] \in {"inactive", "active"} /\ ~Connected(SidGate[m.sid])
       THEN FirstOf(Replaces[SidGate[m.sid]])
       ELSE {}

ClosingSteps(m) ==
  IF ToClose(m) = {} THEN {<<>>} ELSE UNION {DisconnectSteps(c) : c \in ToClose(m)}

\* Mutant: an existing connection is not looked for.
ReadConnectAnyway ==
  \E m \in [type : {"Connect"}, sid : SpaceSids] :
    /\ Reads(m)
    /\ work' = IF sess[m.sid] \in {"new", "gone"} THEN <<>> ELSE <<StartOf(m.sid)>>
    /\ UNCHANGED <<sess, life, old, lists, conn_proc, queue, thread, conn_bounds, givenUp>>

\* connect(), up to the start of the process: a gate that this one replaces is disconnected first.
ReadConnect ==
  \E m \in [type : {"Connect"}, sid : SpaceSids] :
    /\ Reads(m)
    /\ IF sess[m.sid] \in {"new", "gone"} \/ Connected(SidGate[m.sid]) THEN work' = <<>>
       ELSE \E steps \in ClosingSteps(m) : work' = Append(steps, StartOf(m.sid))
    /\ UNCHANGED <<sess, life, old, lists, conn_proc, queue, thread, conn_bounds, givenUp>>

ReadDisconnect ==
  \E m \in [type : {"Disconnect"}, id : Ids] :
    /\ Reads(m)
    /\ work' \in DisconnectSteps(m.id)
    /\ UNCHANGED <<sess, life, old, lists, conn_proc, queue, thread, conn_bounds, givenUp>>

\* A gate behind ssh: listed in any case, as a child of the ssh connection if that is listed.
ReadInfo ==
  \E m \in [type : {"Info"}, id : Ids] :
    /\ Reads(m) /\ sess[conn_born[m.id].sid] # "gone"
    /\ LET parent == conn_born[m.id].parent IN
         kids' = IF parent \in Listed THEN [kids EXCEPT ![parent] = @ \cup {m.id}] ELSE kids
    /\ conn_list' = Append(conn_list, m.id)
    /\ UNCHANGED <<sess, conn_born, old, procs, conn_proc, queue, work, thread, conn_bounds, givenUp>>

(***************************************************************************)
(* An exception that nobody catches: the session of a gate behind ssh is   *)
(* gone, or removing the WireGuard peer of a connection fails.  stop()     *)
(* kills the processes, and the client ends.                               *)
(***************************************************************************)
MainRaises ==
  /\ work = <<>> /\ myqueue # <<>>
  /\ LET m == Head(myqueue) IN
       \/ m.type = "Info" /\ sess[conn_born[m.id].sid] = "gone"
       \/ \E c \in ToClose(m) : c \in Listed /\ Handled(c) /\ GateOf(c) \in Wg
  /\ up' = FALSE
  /\ myqueue' = Tail(myqueue)
  /\ conn_proc' = [c \in Ids |-> IF conn_proc[c] = "running" THEN "dead" ELSE conn_proc[c]]
  /\ UNCHANGED <<sess, life, old, lists, queue, work, thread, asks, deaths, givenUp>>

(***************************************************************************)
(* The process is started and put on the list of processes.  An ssh        *)
(* process first tells of the gates it reaches; without the ssh data of an *)
(* active session it is not started at all.                                *)
(***************************************************************************)
StartProcess ==
  /\ work # <<>> /\ Head(work).op = "start"
  /\ LET s  == Head(work).arg
         g  == SidGate[s]
         id == Len(conn_born) + 1
         Made(gate, parent) == [gate |-> gate, sid |-> s, parent |-> parent,
                                active |-> sess[s] = "active"]
     IN /\ g \in Ssh => sess[s] = "active"
        /\ Room(g)
        /\ \E subs \in Orders(Subgates[g]) :
             /\ conn_born' = conn_born \o <<Made(g, None)>> \o [i \in DOMAIN subs |-> Made(subs[i], id)]
             /\ queue' = queue \o [i \in DOMAIN subs |-> InfoMsg(id + i)]
        /\ procs' = procs \cup {id}
        /\ conn_proc' = [conn_proc EXCEPT ![id] = "running"]
        /\ work' = <<AddOf(id)>> \o Tail(work)
  /\ UNCHANGED <<sess, kids, old, conn_list, myqueue, thread, conn_bounds, givenUp>>

NotStarted ==
  /\ work # <<>> /\ Head(work).op = "start"
  /\ SidGate[Head(work).arg] \in Ssh /\ sess[Head(work).arg] # "active"
  /\ work' = Tail(work)
  /\ UNCHANGED <<sess, life, old, lists, conn_proc, bus, thread, conn_bounds, givenUp>>

AddConnection ==
  /\ work # <<>> /\ Head(work).op = "add"
  /\ conn_list' = Append(conn_list, Head(work).arg)
  /\ work' = Tail(work)
  /\ UNCHANGED <<sess, life, old, procs, conn_proc, bus, thread, conn_bounds, givenUp>>

\* Mutant: the process goes on.
KillProcessNot ==
  /\ work # <<>> /\ Head(work).op = "kill"
  /\ work' = <<DropOf(Head(work).arg)>> \o Tail(work)
  /\ UNCHANGED <<sess, life, old, lists, conn_proc, bus, thread, conn_bounds, givenUp>>

\* The process is killed, then the connection is removed.
KillProcess ==
  /\ work # <<>> /\ Head(work).op = "kill"
  /\ LET c == Head(work).arg IN
       /\ conn_proc' = IF conn_proc[c] = "running" THEN [conn_proc EXCEPT ![c] = "dead"] ELSE conn_proc
       /\ work' = <<DropOf(c)>> \o Tail(work)
  /\ UNCHANGED <<sess, life, old, lists, bus, thread, conn_bounds, givenUp>>

DropConnection ==
  /\ work # <<>> /\ Head(work).op = "drop"
  /\ conn_list' \in Without({Head(work).arg})
  /\ work' = Tail(work)
  /\ UNCHANGED <<sess, life, old, procs, conn_proc, bus, thread, conn_bounds, givenUp>>

MainStep ==
  /\ up
  /\ \/ ReadConnect \/ ReadDisconnect \/ ReadInfo \/ MainRaises
     \/ StartProcess \/ NotStarted \/ AddConnection \/ KillProcess \/ DropConnection

-------------------------------------------------------------------------------
(***************************************************************************)
(* refresh_connections(): processes first, then the health of connections. *)
(***************************************************************************)
BeginScan ==
  /\ phase = "scan" /\ todo = {}
  /\ todo' = procs
  /\ phase' = IF procs = {} THEN "check" ELSE "scan"
  /\ cursor' = 1
  /\ UNCHANGED <<sess, life, old, lists, conn_proc, bus, work, lost, conn_bounds, givenUp>>

\* After the last process of the copy the connections are checked.
Looked(c) ==
  /\ todo' = todo \ {c}
  /\ phase' = IF todo = {c} THEN "check" ELSE "scan"

\* is_alive(), and for ssh `not poll()`, which also holds of a process that ended with code 0.
LookAlive(c) ==
  /\ phase = "scan" /\ c \in todo
  /\ conn_proc[c] \in {"running", "exit0"}
  /\ Looked(c)
  /\ UNCHANGED <<sess, life, old, lists, conn_proc, bus, work, lost, cursor, conn_bounds, givenUp>>

LookEnded(c) ==
  /\ phase = "scan" /\ c \in todo
  /\ conn_proc[c] = "dead"
  /\ procs' = procs \ {c}
  /\ conn_list' \in Without(IF c \in Listed THEN kids[c] \cup {c} ELSE {})
  /\ IF ProxyReconnects /\ c \in Listed
     THEN phase' = "reconnect" /\ lost' = c /\ UNCHANGED todo
     ELSE Looked(c) /\ UNCHANGED lost
  /\ UNCHANGED <<sess, life, old, conn_proc, bus, work, cursor, conn_bounds, givenUp>>

(***************************************************************************)
(* After a pause the same session is connected again, if it was active     *)
(* when the connection was made.                                           *)
(***************************************************************************)
Reconnect ==
  /\ phase = "reconnect" /\ conn_born[lost].active
  /\ myqueue' = Append(myqueue, OpenMsg(conn_born[lost].sid))
  /\ Looked(lost) /\ lost' = None
  /\ UNCHANGED <<sess, life, old, lists, conn_proc, queue, work, cursor, conn_bounds, givenUp>>

\* A new session is asked for and saved; when the manager does not give one the thread ends.
ReconnectNew ==
  /\ phase = "reconnect" /\ ~conn_born[lost].active
  /\ \/ \E s \in SpaceSids : \E state \in {"inactive", "active"} :
          /\ sess[s] = "new" /\ SidGate[s] = GateOf(lost)
          /\ sess' = [sess EXCEPT ![s] = state]
          /\ myqueue' = Append(myqueue, OpenMsg(s))
          /\ Looked(lost)
     \/ phase' = "died" /\ UNCHANGED <<sess, myqueue, todo>>
  /\ lost' = None
  /\ UNCHANGED <<life, old, lists, conn_proc, queue, work, cursor, conn_bounds, givenUp>>

\* Does something answer at the port of the connection?
Serving(c) ==
  \/ conn_proc[c] = "running"
  \/ conn_born[c].parent # None /\ conn_proc[conn_born[c].parent] = "running"
HasPort(c) == GateOf(c) \notin Ssh

\* The place after the one looked at: an element that is taken out makes the loop skip the next.
Passed == cursor' = cursor + 1

\* A young connection, one without a port, or one that answers; the server of a WireGuard gate
\* may answer the ping whatever the process does.
CheckGood ==
  /\ phase = "check" /\ cursor <= Len(conn_list)
  /\ LET c == conn_list[cursor]
     IN c \notin old \/ ~HasPort(c) \/ Serving(c) \/ GateOf(c) \in Wg
  /\ Passed
  /\ UNCHANGED <<sess, life, old, lists, conn_proc, bus, work, phase, todo, lost, conn_bounds, givenUp>>

\* Mutant: a connection that does not answer stays in the list.
CheckBadKeeps ==
  /\ phase = "check" /\ cursor <= Len(conn_list)
  /\ LET c == conn_list[cursor] IN
       /\ c \in old /\ HasPort(c)
       /\ ~(GateOf(c) \in Strict /\ ~Serving(c))
       /\ givenUp' = givenUp \cup {c}
  /\ Passed
  /\ UNCHANGED <<sess, life, old, lists, conn_proc, bus, work, phase, todo, lost, conn_bounds>>

\* No answer, or a wrong one, which a running process may give as well; the process is left alone.
CheckBad ==
  /\ phase = "check" /\ cursor <= Len(conn_list)
  /\ LET c == conn_list[cursor] IN
       /\ c \in old /\ HasPort(c)
       /\ ~(GateOf(c) \in Strict /\ ~Serving(c))
       /\ conn_list' \in Without({c})
       /\ givenUp' = givenUp \cup {c}
  /\ Passed
  /\ UNCHANGED <<sess, life, old, procs, conn_proc, bus, work, phase, todo, lost, conn_bounds>>

\* A refused connection is no TimeoutError: the thread ends.
CheckRaises ==
  /\ phase = "check" /\ cursor <= Len(conn_list)
  /\ LET c == conn_list[cursor] IN c \in old /\ GateOf(c) \in Strict /\ ~Serving(c)
  /\ phase' = "died"
  /\ UNCHANGED <<sess, life, old, lists, conn_proc, bus, work, todo, lost, cursor, conn_bounds,
                 givenUp>>

EndCheck ==
  /\ phase = "check" /\ cursor > Len(conn_list)
  /\ phase' = "scan" /\ cursor' = 1
  /\ UNCHANGED <<sess, life, old, lists, conn_proc, bus, work, todo, lost, conn_bounds, givenUp>>

ThreadStep ==
  /\ up
  /\ \/ BeginScan \/ (\E c \in Ids : LookAlive(c) \/ LookEnded(c))
     \/ Reconnect \/ ReconnectNew
     \/ CheckGood \/ CheckBad \/ CheckRaises \/ EndCheck

-------------------------------------------------------------------------------
ProxyNext ==
  \/ \E s \in SpaceSids : AskOpen(s) \/ SessionChanges(s)
  \/ \E c \in Ids : AskClose(c) \/ ProcessEnds(c) \/ Age(c)
  \/ Route \/ MainStep \/ ThreadStep

ProxySpec == ProxyInit /\ [][ProxyNext]_conn_vars

\* The loops go on, and time passes.
ProxyFairSpec ==
  /\ ProxySpec
  /\ WF_conn_vars(Route) /\ WF_conn_vars(MainStep) /\ WF_conn_vars(ThreadStep)
  /\ WF_conn_vars(\E c \in Ids : Age(c))

-------------------------------------------------------------------------------
(***************************************************************************)
(* Properties.                                                             *)
(***************************************************************************)

(***************************************************************************)
(* A process that runs belongs to a listed connection, which the user can  *)
(* close, or will in the next step: whatever the two threads do to the     *)
(* lists, only the health check takes a connection from a living process.  *)
(***************************************************************************)
NoStrayProcess ==
  \A c \in Ids :
    conn_proc[c] = "running" =>
      c \in Listed \cup givenUp \/ (work # <<>> /\ Head(work) = AddOf(c))

(***************************************************************************)
(* Two processes never compete for a gate's local port, through repeated   *)
(* requests, reconnections and replacements, unless the health check has   *)
(* given one of them up.                                                   *)
(***************************************************************************)
OneProcessPerGate ==
  \A c, d \in Ids :
    c # d /\ conn_proc[c] = "running" /\ conn_proc[d] = "running" /\ GateOf(c) = GateOf(d) =>
      {c, d} \cap givenUp # {}

(***************************************************************************)
(* A listed connection at whose port nothing answers disappears from the   *)
(* list, although elements are taken out while it is run through, and also *)
(* when its process ended before the connection was added.                 *)
(***************************************************************************)
GhostsGo ==
  \A c \in Ids :
    ~<>[](/\ c \in Listed /\ HasPort(c) /\ GateOf(c) \notin Wg /\ ~Serving(c)
          /\ phase # "died" /\ up)

==============================================================================

------------------------------ MODULE WGClient ------------------------------
(***************************************************************************)
(* The WireGuard side of the client: a process for each connection         *)
(* (client/wg_service.py) that sets the interface of its gate up, makes    *)
(* its key and the server's agree, connects the gates behind it and adds   *)
(* the server as a peer when the session is active.  The interface belongs *)
(* to the gate, so that connections of one gate to two spaces share it.    *)
(*                                                                         *)
(* A place is such a pair of the gate and a space.  A session is cut down  *)
(* to the client's public key and whether it is active; it has a price,    *)
(* and the client's table and the server's hold copies of it.  An          *)
(* exception in a process ends it (Raise) and leaves what it has done.     *)
(***************************************************************************)
EXTENDS Naturals, FiniteSets, NoValue

CONSTANTS
  Sids,
  Places,
  Inner,       \* gates behind the gate, connected through it
  NoKey,       \* the key of an interface that has none
  FixedKey,    \* is there a --wg-map-privkey for the gate?
  MayFail,     \* may commands and calls fail?
  ConnectAndExit,   \* --connect-and-exit
  PlaceOf,     \* the place a session is for
  MaxKeys      \* bound of the model

ASSUME WGClientAssumption ==
  /\ FixedKey \in BOOLEAN /\ MayFail \in BOOLEAN
  /\ ConnectAndExit \in BOOLEAN /\ MaxKeys \in Nat \ {0}
  /\ PlaceOf \in [Sids -> Places]
  /\ None \notin Nat \cup Sids \cup Places \cup {NoKey} /\ NoKey \notin Nat

VARIABLES
  srv,        \* the server's table: the session's data, or None
  rows,       \* the client's table
  born,       \* sessions that the server has created
  iface,      \* the interface: key and is the server its peer, or None
  used,       \* keys generated: 1..used
  proc,       \* the process of each place
  conns,      \* places on the proxy's list of connections
  told,       \* gates behind the gate that the proxy was asked to connect, by place
  closing,    \* the place the proxy is closing, or None
  proxyUp,
  overtaken   \* places whose interface another place's process has set up since

tables == <<srv, rows, born>>
vars   == <<tables, iface, used, proc, conns, told, closing, proxyUp, overtaken>>

Keys  == 1..MaxKeys
Data  == [key : Keys \cup {None, NoKey}, active : BOOLEAN]
Ifaces == [key : Keys \cup {NoKey}, peer : BOOLEAN]
Ended == [at |-> "none", sid |-> None, copy |-> None, key |-> None]
Steps == {"none", "setup", "gather", "rekey", "save", "gone", "create", "inner", "loop", "up",
          "left", "dead"}
Processes == [at : Steps, sid : Sids \cup {None}, copy : Data \cup {None},
              key : Keys \cup {None, NoKey}]

ASSUME NoneAssumption == None \notin Data \cup Ifaces

TypeOK ==
  /\ srv \in [Sids -> Data \cup {None}] /\ rows \in [Sids -> Data \cup {None}]
  /\ born \subseteq Sids /\ used \in 0..MaxKeys
  /\ iface \in Ifaces \cup {None}
  /\ proc \in [Places -> Processes]
  /\ conns \subseteq Places
  /\ told \in [Places -> SUBSET Inner]
  /\ closing \in Places \cup {None} /\ proxyUp \in BOOLEAN
  /\ overtaken \subseteq Places
  /\ conns = {p \in Places : proc[p].at # "none"}

Init ==
  /\ srv = [s \in Sids |-> None] /\ rows = [s \in Sids |-> None] /\ born = {}
  /\ iface = None /\ used = 0
  /\ proc = [p \in Places |-> Ended] /\ conns = {}
  /\ told = [p \in Places |-> {}]
  /\ closing = None /\ proxyUp = TRUE /\ overtaken = {}

Running(p) == proc[p].at \notin {"none", "left", "dead"}

-------------------------------------------------------------------------------
(***************************************************************************)
(* Sessions: requested by the client, paid, learned of and expired.        *)
(***************************************************************************)
\* The server answers a request without WireGuard data with a session all the same.
Request(s) ==
  /\ s \notin born /\ born' = born \cup {s}
  /\ srv' = [srv EXCEPT ![s] = [key |-> None, active |-> FALSE]]
  /\ rows' = [rows EXCEPT ![s] = srv'[s]]
  /\ UNCHANGED <<iface, used, proc, conns, told, closing, proxyUp, overtaken>>

Pay(s) ==
  /\ srv[s] # None /\ ~srv[s].active
  /\ srv' = [srv EXCEPT ![s].active = TRUE]
  /\ UNCHANGED <<rows, born, iface, used, proc, conns, told, closing, proxyUp, overtaken>>

\* refresh_status(): what is not active is asked about, and kept when the server has lost it;
\* ClientSessions has its steps.
Learn(s) ==
  /\ rows[s] # None /\ ~rows[s].active /\ srv[s] # None
  /\ rows' = [rows EXCEPT ![s] = srv[s]]
  /\ UNCHANGED <<srv, born, iface, used, proc, conns, told, closing, proxyUp, overtaken>>

Expire(s) ==
  /\ srv[s] # None
  /\ srv' = [srv EXCEPT ![s] = None]
  /\ UNCHANGED <<rows, born, iface, used, proc, conns, told, closing, proxyUp, overtaken>>

-------------------------------------------------------------------------------
(***************************************************************************)
(* The process.                                                            *)
(***************************************************************************)
\* Proxy.connect(): the process gets a copy of the session as it is stored now.
Start(s) ==
  LET p == PlaceOf[s] IN
    /\ proxyUp /\ closing = None /\ p \notin conns /\ rows[s] # None
    /\ conns' = conns \cup {p}
    /\ proc' = [proc EXCEPT ![p] = [at |-> "setup", sid |-> s, copy |-> rows[s], key |-> None]]
    /\ told' = [told EXCEPT ![p] = {}] /\ overtaken' = overtaken \ {p}
    /\ UNCHANGED <<tables, iface, used, closing, proxyUp>>

Go(p, next) == proc' = [proc EXCEPT ![p].at = next]

Raise(p) ==
  /\ MayFail /\ Running(p) /\ Go(p, "dead")
  /\ UNCHANGED <<tables, iface, used, conns, told, closing, proxyUp, overtaken>>

\* setup_interface_client(): the interface is created if need be and gets the key of
\* --wg-map-privkey or a new one.  When that fails an interface that is there is used as it is.
Setup(p) ==
  /\ proc[p].at = "setup"
  /\ \/ LET k == IF FixedKey THEN 1 ELSE used + 1 IN
          /\ k \in Keys /\ used' = IF FixedKey THEN used ELSE k
          /\ iface' = [key |-> k, peer |-> iface # None /\ iface.peer]
     \/ /\ MayFail /\ UNCHANGED used
        /\ iface' = IF iface = None THEN [key |-> NoKey, peer |-> FALSE] ELSE iface
  /\ overtaken' = overtaken \cup {q \in Places \ {p} : iface' # iface /\ proc[q].at # "none"}
  /\ Go(p, "gather")
  /\ UNCHANGED <<tables, conns, told, closing, proxyUp>>

\* Mutant: only a session without data is rekeyed.
GatherMissing(p) ==
  /\ proc[p].at = "gather"
  /\ proc' = [proc EXCEPT ![p].key = iface.key,
                          ![p].at = IF proc[p].copy.key = None THEN "rekey" ELSE "inner"]
  /\ UNCHANGED <<tables, iface, used, conns, told, closing, proxyUp, overtaken>>

Gather(p) ==
  /\ proc[p].at = "gather"
  /\ proc' = [proc EXCEPT ![p].key = iface.key,
                          ![p].at = IF proc[p].copy.key # iface.key THEN "rekey" ELSE "inner"]
  /\ UNCHANGED <<tables, iface, used, conns, told, closing, proxyUp, overtaken>>

\* rekey_session(), and the server's part of it.
Rekey(p) ==
  LET s == proc[p].sid IN
    /\ proc[p].at = "rekey"
    /\ IF srv[s] = None
         THEN Go(p, "gone") /\ UNCHANGED srv
         ELSE /\ srv' = [srv EXCEPT ![s].key = proc[p].key]
              /\ proc' = [proc EXCEPT ![p].at = "save", ![p].copy = srv'[s]]
    /\ UNCHANGED <<rows, born, iface, used, conns, told, closing, proxyUp, overtaken>>

\* The server does not know the session any more: it is replaced by a new one.
RemoveRow(p) ==
  /\ proc[p].at = "gone" /\ Go(p, "create")
  /\ rows' = [rows EXCEPT ![proc[p].sid] = None]
  /\ UNCHANGED <<srv, born, iface, used, conns, told, closing, proxyUp, overtaken>>

Create(p) ==
  /\ proc[p].at = "create"
  /\ \E s \in Sids \ born :
       /\ PlaceOf[s] = p /\ born' = born \cup {s}
       /\ srv' = [srv EXCEPT ![s] = [key |-> iface.key, active |-> FALSE]]
       /\ proc' = [proc EXCEPT ![p] = [at |-> "save", sid |-> s, copy |-> srv'[s], key |-> @.key]]
  /\ UNCHANGED <<rows, iface, used, conns, told, closing, proxyUp, overtaken>>

\* Mutant: the rekeyed session is built anew, not from the answer.
SaveNew(p) ==
  /\ proc[p].at = "save"
  /\ proc' = [proc EXCEPT ![p].at = "inner", ![p].copy.active = FALSE]
  /\ rows' = [rows EXCEPT ![proc[p].sid] = proc[p].copy]
  /\ UNCHANGED <<srv, born, iface, used, conns, told, closing, proxyUp, overtaken>>

Save(p) ==
  /\ proc[p].at = "save" /\ Go(p, "inner")
  /\ rows' = [rows EXCEPT ![proc[p].sid] = proc[p].copy]
  /\ UNCHANGED <<srv, born, iface, used, conns, told, closing, proxyUp, overtaken>>

\* The gates behind: a new session for each of them, then the messages to connect them.
InnerSessions(p) ==
  /\ proc[p].at = "inner" /\ Go(p, "loop")
  /\ told' = [told EXCEPT ![p] = Inner]
  /\ UNCHANGED <<tables, iface, used, conns, closing, proxyUp, overtaken>>

\* loop() and activate_on_client(): it is its own copy of the session that must be active.
Activate(p) ==
  /\ proc[p].at = "loop" /\ proc[p].copy.active /\ ~ConnectAndExit
  /\ iface' = [iface EXCEPT !.peer = TRUE] /\ Go(p, "up")
  /\ UNCHANGED <<tables, used, conns, told, closing, proxyUp, overtaken>>

\* With --connect-and-exit the process ends where the loop would begin.
Leave(p) ==
  /\ proc[p].at = "loop" /\ ConnectAndExit /\ Go(p, "left")
  /\ UNCHANGED <<tables, iface, used, conns, told, closing, proxyUp, overtaken>>

-------------------------------------------------------------------------------
(***************************************************************************)
(* The proxy: disconnect(), and the thread that finds an ended process.    *)
(***************************************************************************)
\* deactivate_on_client(); on an interface that is not there the command fails, and nothing
\* in the proxy catches that.
Disconnect(p) ==
  /\ proxyUp /\ closing = None /\ p \in conns
  /\ IF iface = None THEN proxyUp' = FALSE /\ UNCHANGED <<iface, closing>>
     ELSE closing' = p /\ iface' = [iface EXCEPT !.peer = FALSE] /\ UNCHANGED proxyUp
  /\ UNCHANGED <<tables, used, proc, conns, told, overtaken>>

Kill ==
  /\ proxyUp /\ closing # None
  /\ proc' = [proc EXCEPT ![closing] = Ended] /\ conns' = conns \ {closing}
  /\ closing' = None
  /\ UNCHANGED <<tables, iface, used, told, proxyUp, overtaken>>

Reap(p) ==
  /\ proxyUp /\ p \in conns /\ proc[p].at \in {"left", "dead"}
  /\ conns' = conns \ {p} /\ proc' = [proc EXCEPT ![p] = Ended]
  /\ UNCHANGED <<tables, iface, used, told, closing, proxyUp, overtaken>>

-------------------------------------------------------------------------------
Step(p) ==
  \/ Setup(p) \/ Gather(p) \/ Rekey(p) \/ RemoveRow(p) \/ Create(p) \/ Save(p)
  \/ InnerSessions(p) \/ Activate(p) \/ Leave(p)

Next ==
  \/ \E s \in Sids : Request(s) \/ Pay(s) \/ Learn(s) \/ Expire(s) \/ Start(s)
  \/ \E p \in Places : Step(p) \/ Raise(p) \/ Disconnect(p) \/ Reap(p)
  \/ Kill

Spec == Init /\ [][Next]_vars

\* Processes run, and the refresh thread asks.
FairSpec == Spec /\ (\A p \in Places : WF_vars(Step(p))) /\ \A s \in Sids : WF_vars(Learn(s))

-------------------------------------------------------------------------------
(***************************************************************************)
(* Properties.                                                             *)
(***************************************************************************)

(***************************************************************************)
(* Once a process has come to its loop, or left, the server has the key    *)
(* of the interface for its session (or has lost it), whatever was         *)
(* generated and whatever failed before, unless a process of another space *)
(* has set up the same interface since.                                    *)
(***************************************************************************)
KeysAgree ==
  \A p \in Places \ overtaken :
    proc[p].at \in {"loop", "up", "left"} =>
      srv[proc[p].sid] = None \/ srv[proc[p].sid].key = iface.key

(***************************************************************************)
(* A process that starts with an active session adds the peer in the end   *)
(* and has asked for every gate behind it, unless the server has lost the  *)
(* session, something raised or the user disconnects.                      *)
(***************************************************************************)
ActiveComesUp ==
  \A p \in Places :
    (proc[p].at = "setup" /\ proc[p].copy.active)
      ~> \/ proc[p].at = "up" /\ told[p] = Inner
         \/ ~Running(p) \/ srv[proc[p].sid] = None

=============================================================================

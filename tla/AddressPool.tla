----------------------------- MODULE AddressPool -----------------------------
(***************************************************************************)
(* The IPv4 addresses of a WireGuard gate of the server.  A session gets   *)
(* the lowest address that no peer of the interface has (find_free_ip() of *)
(* server/wg_service.py) when it is prepared; its peer is added later,     *)
(* when it is activated, or by the next round of the service.  Adding a    *)
(* peer takes its address from any other peer that has it.                 *)
(*                                                                         *)
(* Sessions are cut down to key, address and whether they are active.  A   *)
(* request brings a key of its own; WGServer looks at shared keys.         *)
(***************************************************************************)
EXTENDS Naturals, FiniteSets, FiniteSetsExt, NoValue

CONSTANTS
  LastAddr,     \* the addresses of the network are 0..LastAddr
  Gateway,
  Sids,
  Threads,      \* of the HTTP manager
  Activators,   \* who may activate a session: wallet, refresh thread, readers
  OnError,      \* what an exception ends in each of them
  NoV4,         \* a peer that has lost its IPv4 address
  Reboots,      \* may a restart find the interface gone?
  MaxKeys, MaxBoots   \* bounds of the model

PoolAssumption ==
  /\ LastAddr \in Nat \ {0} /\ Gateway \in 1 .. LastAddr - 1
  /\ OnError \in [Activators -> {"request", "thread", "server"}]
  /\ None \notin Nat \cup Sids \cup {NoV4} /\ NoV4 \notin Nat
  /\ Reboots \in BOOLEAN /\ MaxKeys \in Nat /\ MaxBoots \in Nat

VARIABLES
  table,     \* the table: the session's data, or None
  begun,     \* sessions that have been created
  used,      \* keys brought by requests: 1..used
  iface,     \* the peers on the interface, with their addresses
  thread,    \* the request each thread works on
  copy,      \* the session each activator works on, between its steps
  ended,     \* activators that an exception has ended
  gathered,  \* the peers a round has read, or None
  jobs,      \* what the round has still to do
  running,   \* does the server run?
  boots,
  contested  \* sessions with an address that was free on the interface only

round       == <<gathered, jobs>>
pool_bounds == <<begun, used, boots>>
pool_vars   == <<table, iface, thread, copy, ended, round, running, pool_bounds, contested>>

ClientKeys == 1..MaxKeys
Net        == 0..LastAddr
Usable     == Net \ {0, LastAddr, Gateway}
Record     == [key : ClientKeys, addr : Usable \cup {None}, active : BOOLEAN]
Nothing    == [at |-> "idle", sid |-> None, data |-> None]
Job        == [do : {"remove"}, key : ClientKeys, sid : {None}, addr : {None}]
              \cup [do : {"expel", "mark", "add"}, key : ClientKeys, sid : Sids,
                    addr : Usable \cup {None}]

PoolTypeOK ==
  /\ table \in [Sids -> Record \cup {None}]
  /\ begun \subseteq Sids /\ used \in 0..MaxKeys
  /\ DOMAIN iface \subseteq ClientKeys /\ \A k \in DOMAIN iface : iface[k] \in Usable \cup {NoV4}
  /\ thread \in [Threads -> [at : {"idle", "pick", "save"}, sid : Sids \cup {None},
                             data : Record \cup {None}]]
  /\ copy \in [Activators -> [at : {"idle", "join", "save"}, sid : Sids \cup {None},
                              data : Record \cup {None}]]
  /\ ended \subseteq Activators
  /\ gathered \in (SUBSET ClientKeys) \cup {None} /\ jobs \subseteq Job
  /\ running \in BOOLEAN /\ boots \in 0..MaxBoots /\ contested \subseteq Sids

PoolInit ==
  /\ table = [s \in Sids |-> None] /\ begun = {} /\ used = 0
  /\ iface = [k \in {} |-> None]
  /\ thread = [t \in Threads |-> Nothing] /\ copy = [a \in Activators |-> Nothing] /\ ended = {}
  /\ gathered = None /\ jobs = {}
  /\ running = TRUE /\ boots = 0 /\ contested = {}

Active(s) == table[s] # None /\ table[s].active

-------------------------------------------------------------------------------
(***************************************************************************)
(* The interface.                                                          *)
(***************************************************************************)
\* The addresses of the peers in `wg show dump`; a peer may have none but its IPv6 address.
Taken == {iface[k] : k \in DOMAIN iface} \ {NoV4}

\* Mutant: the peers of the interface are not looked at.
FindFreeAny == IF Usable = {} THEN None ELSE Min(Usable)

\* Mutant: the last usable address is left out.
FindFreeNarrow ==
  LET free == Net \ ({0, LastAddr - 1, LastAddr, Gateway} \cup Taken)
  IN  IF free = {} THEN None ELSE Min(free)

\* find_free_ip()
FindFree ==
  LET free == Net \ ({0, LastAddr, Gateway} \cup Taken) IN IF free = {} THEN None ELSE Min(free)

\* wg set ... peer key allowed-ips addr
AddPeer(key, addr) ==
  iface' = [k \in DOMAIN iface \cup {key} |->
              IF k = key THEN addr ELSE IF iface[k] = addr THEN NoV4 ELSE iface[k]]

RemovePeer(key) == iface' = [k \in DOMAIN iface \ {key} |-> iface[k]]

-------------------------------------------------------------------------------
(***************************************************************************)
(* Requests: post_session() and rekey_session().                           *)
(***************************************************************************)
Ask(t, s, data) ==
  /\ running /\ thread[t].at = "idle"
  /\ used < MaxKeys /\ used' = used + 1
  /\ thread' = [thread EXCEPT ![t] = [at |-> "pick", sid |-> s, data |-> data]]

PostSession(t) ==
  /\ \E s \in Sids \ begun :
       /\ Ask(t, s, [key |-> used + 1, addr |-> None, active |-> FALSE])
       /\ begun' = begun \cup {s}
  /\ UNCHANGED <<table, iface, copy, ended, round, running, boots, contested>>

RekeySession(t) ==
  /\ \E s \in Sids : table[s] # None /\ Ask(t, s, [table[s] EXCEPT !.key = used + 1])
  /\ UNCHANGED <<table, iface, copy, ended, round, running, begun, boots, contested>>

\* Sessions that have, or are about to have, address a.
Claims(a) ==
  {s \in Sids : table[s] # None /\ table[s].addr = a}
  \cup {thread[t].sid : t \in {t \in Threads : thread[t].at = "save" /\ thread[t].data.addr = a}}
  \cup {copy[b].sid : b \in {b \in Activators : copy[b].at # "idle" /\ copy[b].data.addr = a}}
  \cup {j.sid : j \in {j \in jobs : j.do = "add" /\ j.addr = a}}

\* prepare_server_session(): an address that is not on the interface, claimed or not.
Prepare(t) ==
  /\ running /\ thread[t].at = "pick"
  /\ LET a == FindFree IN
       /\ thread' = [thread EXCEPT ![t].at = "save", ![t].data.addr = a]
       /\ contested' = IF a \in Usable \ Taken /\ Claims(a) # {}
                       THEN contested \cup Claims(a) \cup {thread[t].sid} ELSE contested
  /\ UNCHANGED <<table, iface, copy, ended, round, running, pool_bounds>>

Save(t) ==
  /\ running /\ thread[t].at = "save"
  /\ table' = [table EXCEPT ![thread[t].sid] = thread[t].data]
  /\ thread' = [thread EXCEPT ![t] = Nothing]
  /\ UNCHANGED <<iface, copy, ended, round, running, pool_bounds, contested>>

-------------------------------------------------------------------------------
(***************************************************************************)
(* activate(), when the session has been paid or is free: the peer is      *)
(* added, then the row is saved.  Without an address the command fails,    *)
(* and the exception ends the request, the refresh thread, or the wallet   *)
(* process and with it the server.                                         *)
(***************************************************************************)
Activate(a) ==
  /\ running /\ a \notin ended /\ copy[a].at = "idle"
  /\ \E s \in Sids :
       /\ table[s] # None /\ ~table[s].active
       /\ copy' = [copy EXCEPT ![a] = [at |-> "join", sid |-> s, data |-> table[s]]]
  /\ UNCHANGED <<table, iface, thread, ended, round, running, pool_bounds, contested>>

Join(a) ==
  /\ running /\ copy[a].at = "join" /\ copy[a].data.addr # None
  /\ AddPeer(copy[a].data.key, copy[a].data.addr)
  /\ copy' = [copy EXCEPT ![a].at = "save"]
  /\ UNCHANGED <<table, thread, ended, round, running, pool_bounds, contested>>

JoinRaises(a) ==
  /\ running /\ copy[a].at = "join" /\ copy[a].data.addr = None
  /\ copy' = [copy EXCEPT ![a] = Nothing]
  /\ ended' = IF OnError[a] = "thread" THEN ended \cup {a} ELSE ended
  /\ running' = (OnError[a] # "server")
  /\ UNCHANGED <<table, iface, thread, round, pool_bounds, contested>>

SaveActive(a) ==
  /\ running /\ copy[a].at = "save"
  /\ table' = [table EXCEPT ![copy[a].sid] = [copy[a].data EXCEPT !.active = TRUE]]
  /\ copy' = [copy EXCEPT ![a] = Nothing]
  /\ UNCHANGED <<iface, thread, ended, round, running, pool_bounds, contested>>

\* The clean-up of an expired session.
Expire(s) ==
  /\ running /\ table[s] # None
  /\ table' = [table EXCEPT ![s] = None]
  /\ UNCHANGED <<iface, thread, copy, ended, round, running, pool_bounds, contested>>

-------------------------------------------------------------------------------
(***************************************************************************)
(* The rounds of WGServerService, as in WGServer.                          *)
(***************************************************************************)
Gather ==
  /\ running /\ gathered = None /\ jobs = {}
  /\ gathered' = DOMAIN iface
  /\ UNCHANGED <<table, iface, thread, copy, ended, jobs, running, pool_bounds, contested>>

JobOf(do, s) == [do |-> do, key |-> table[s].key, sid |-> s, addr |-> table[s].addr]

FindPeers ==
  /\ running /\ gathered # None
  /\ \E silent \in SUBSET Sids :
       LET needed == {s \in Sids : Active(s)} IN
         jobs' = {[do |-> "remove", key |-> k, sid |-> None, addr |-> None] :
                    k \in gathered \ {table[s].key : s \in needed}}
                 \cup {JobOf("expel", s) : s \in {s \in needed \cap silent : table[s].key \in gathered}}
                 \cup {JobOf("add", s) : s \in {s \in needed : table[s].key \notin gathered}}
  /\ gathered' = None
  /\ UNCHANGED <<table, iface, thread, copy, ended, running, pool_bounds, contested>>

Finish(j, next) == jobs' = (jobs \ {j}) \cup next

Work(j) ==
  /\ running /\ j \in jobs
  /\ \/ j.do = "remove" /\ RemovePeer(j.key) /\ Finish(j, {}) /\ UNCHANGED <<table, running>>
     \/ j.do = "expel" /\ RemovePeer(j.key) /\ Finish(j, {[j EXCEPT !.do = "mark"]})
        /\ UNCHANGED <<table, running>>
     \/ j.do = "mark" /\ table' = [table EXCEPT ![j.sid] = None] /\ Finish(j, {})
        /\ UNCHANGED <<iface, running>>
     \/ /\ j.do = "add" /\ \A i \in jobs : i.do = "add"
        /\ \/ j.addr # None /\ AddPeer(j.key, j.addr) /\ UNCHANGED running
           \/ j.addr = None /\ running' = FALSE /\ UNCHANGED iface
        /\ Finish(j, {}) /\ UNCHANGED table
  /\ UNCHANGED <<gathered, thread, copy, ended, pool_bounds, contested>>

\* The server stops, or has stopped, and starts again, on the same interface or a new one.
PoolRestart ==
  /\ boots < MaxBoots
  /\ boots' = boots + 1
  /\ running' = TRUE /\ ended' = {} /\ gathered' = None /\ jobs' = {}
  /\ thread' = [t \in Threads |-> Nothing] /\ copy' = [a \in Activators |-> Nothing]
  /\ iface' \in {iface} \cup (IF Reboots THEN {[k \in {} |-> None]} ELSE {})
  /\ UNCHANGED <<table, begun, used, contested>>

-------------------------------------------------------------------------------
Round == Gather \/ FindPeers \/ (\E j \in jobs : Work(j))
Activation(a) == Join(a) \/ JoinRaises(a) \/ SaveActive(a)

PoolNext ==
  \/ \E t \in Threads : PostSession(t) \/ RekeySession(t) \/ Prepare(t) \/ Save(t)
  \/ \E a \in Activators : Activate(a) \/ Activation(a)
  \/ \E s \in Sids : Expire(s)
  \/ Round \/ PoolRestart

PoolSpec == PoolInit /\ [][PoolNext]_pool_vars

-------------------------------------------------------------------------------
(***************************************************************************)
(* Properties.                                                             *)
(***************************************************************************)

(***************************************************************************)
(* Two active sessions have one address only when it was given to one of   *)
(* them while the other had it without its peer being on the interface:    *)
(* before its activation, during a rekey or after a reboot.                *)
(***************************************************************************)
DistinctUnlessContested ==
  \A s, u \in Sids \ contested :
    s # u /\ Active(s) /\ Active(u) /\ table[s].addr # None => table[s].addr # table[u].addr

(***************************************************************************)
(* While not more keys have come than a gate has addresses, every session  *)
(* has one and nothing fails for want of one, whatever has been lost: the  *)
(* peers of sessions that are gone go on taking addresses, but no key      *)
(* takes two.  Beyond that find_free_ip() may return nothing, and the      *)
(* session's activation ends the refresh thread or the server.             *)
(***************************************************************************)
EnoughUntilFull ==
  used <= Cardinality(Usable) =>
    /\ running /\ ended = {}
    /\ \A s \in Sids : table[s] # None => table[s].addr # None

(***************************************************************************)
(* Once an active session's peer has its address it keeps it as long as    *)
(* the session, key and server stay the same, unless it was contested.     *)
(***************************************************************************)
NotRobbed ==
  [][\A s \in Sids :
       (/\ Active(s) /\ Active(s)' /\ table[s]' = table[s]
        /\ table[s].key \in DOMAIN iface /\ iface[table[s].key] = table[s].addr)
         => \/ s \in contested' \/ boots' # boots
            \/ table[s].key \notin DOMAIN iface'
            \/ iface'[table[s].key] = table[s].addr]_pool_vars

=============================================================================

------------------------------- MODULE WGServer -------------------------------
(***************************************************************************)
(* WGServerService of server/wg_service.py, one process for each local     *)
(* WireGuard gate, running beside the processes of ServerSessions.  Its    *)
(* loop compares the peers on the interface with the active sessions of    *)
(* the gate: it removes the peers no session needs, adds the missing ones, *)
(* and removes free sessions whose client has been silent.                 *)
(*                                                                         *)
(* A round reads the interface, then the table, and then works through     *)
(* what it found; the other processes activate, rekey, clean up and save   *)
(* in between.                                                             *)
(***************************************************************************)
EXTENDS ServerSessions

VARIABLES
  gathered,  \* the peers the round of each gate read, or None between rounds
  jobs       \* what the round has still to do

wg_vars == <<gathered, jobs>>
all_vars == <<vars, wg_vars>>

(***************************************************************************)
(* Jobs of a round: remove_peer of a key; remove() of a session, which     *)
(* first takes its peer off the interface (expel) and then marks its row   *)
(* (mark); add_peer for a session.                                         *)
(***************************************************************************)
Job == [do : {"remove_peer"}, key : Keys, sid : {None}]
       \cup [do : {"expel", "mark", "add_peer"}, key : Keys, sid : Sids]

WGTypeOK ==
  /\ TypeOK
  /\ gathered \in [WgGates -> (SUBSET Keys) \cup {None}]
  /\ jobs \in [WgGates -> SUBSET Job]

WGInit ==
  /\ Init
  /\ gathered = [g \in WgGates |-> None]
  /\ jobs = [g \in WgGates |-> {}]

\* find(active=True, gateid=g) with "wg" data, by client key: one session per key.
NeedsPeer(s, g) ==
  Visible(s) /\ IsActive(db[s]) /\ db[s].gate = g /\ db[s].wg # NoKey

NeededKeys(g) == {db[s].wg : s \in {s \in Sids : NeedsPeer(s, g)}}

Gather(g) ==
  /\ gathered[g] = None /\ jobs[g] = {}
  /\ gathered' = [gathered EXCEPT ![g] = peers[g]]
  /\ UNCHANGED <<vars, jobs>>

\* Mutant: peers no session needs are left where they are.
NoRemovals(g) == {}

\* Peers that no active session needs.
Removals(g) ==
  {[do |-> "remove_peer", key |-> k, sid |-> None] : k \in gathered[g] \ NeededKeys(g)}

\* Mutant: the sessions of paid gates are removed as well.
ExpulsionsAnyGate(g, holder, silent) ==
  {[do |-> "expel", key |-> k, sid |-> holder[k]] : k \in silent \cap NeededKeys(g)}

\* Mutant: silent peers are expelled, with a session or without.
ExpulsionsAnyPeer(g, holder, silent) ==
  {[do |-> "expel", key |-> k, sid |-> IF k \in NeededKeys(g) THEN holder[k] ELSE None] :
     k \in {k \in silent : IsFree(g)}}

\* Free sessions whose peer is silent.
Expulsions(g, holder, silent) ==
  {[do |-> "expel", key |-> k, sid |-> holder[k]] :
     k \in {k \in silent \cap NeededKeys(g) : IsFree(g)}}

\* Mutant: a peer is added by activate() only.
NoAdditions(g, holder) == {}

\* Active sessions whose peer is missing.
Additions(g, holder) ==
  {[do |-> "add_peer", key |-> k, sid |-> holder[k]] : k \in NeededKeys(g) \ gathered[g]}

(***************************************************************************)
(* find_peers_from_sessions(), and what follows from it.  holder is the    *)
(* dict of sessions by key, where the last of two sessions with one key    *)
(* wins; silent are the peers whose last handshake is older than           *)
(* --max-free-wg-handshake-timeout, which is up to their clients.          *)
(***************************************************************************)
FindPeers(g) ==
  /\ gathered[g] # None
  /\ \E holder \in [NeededKeys(g) -> Sids], silent \in SUBSET gathered[g] :
       /\ \A k \in NeededKeys(g) : NeedsPeer(holder[k], g) /\ db[holder[k]].wg = k
       /\ jobs' = [jobs EXCEPT ![g] = Removals(g) \cup Expulsions(g, holder, silent)
                                                 \cup Additions(g, holder)]
  /\ gathered' = [gathered EXCEPT ![g] = None]
  /\ UNCHANGED vars

\* Job j of gate g is done and replaced by the jobs of set next.
Finish(g, j, next) == jobs' = [jobs EXCEPT ![g] = (@ \ {j}) \cup next]

RemovePeer(g) ==
  /\ \E j \in jobs[g] :
       /\ j.do = "remove_peer"
       /\ peers' = [peers EXCEPT ![g] = @ \ {j.key}]
       /\ Finish(g, j, {})
  /\ UNCHANGED <<store, clock, chain, objects, wallet, refresh, budget, gathered>>

\* remove(): deactivate() takes the peer away ...
Expel(g) ==
  /\ \E j \in jobs[g] :
       /\ j.do = "expel"
       /\ peers' = [peers EXCEPT ![g] = @ \ {j.key}]
       /\ Finish(g, j, {[j EXCEPT !.do = "mark"]})
  /\ UNCHANGED <<store, clock, chain, objects, wallet, refresh, budget, gathered>>

\* ... and the row, as it is by now, is marked deleted.
Mark(g) ==
  /\ \E j \in jobs[g] :
       /\ j.do = "mark"
       /\ deleted' = deleted \cup {s \in {j.sid} : db[s] # None}
       /\ Finish(g, j, {})
  /\ UNCHANGED <<db, issued, peers, clock, chain, objects, wallet, refresh, budget, gathered>>

\* activate_on_server(): after the peers of the interface, the sessions without one.
AddPeer(g) ==
  /\ \A j \in jobs[g] : j.do = "add_peer"
  /\ \E j \in jobs[g] :
       /\ peers' = [peers EXCEPT ![g] = @ \cup {j.key}]
       /\ Finish(g, j, {})
  /\ UNCHANGED <<store, clock, chain, objects, wallet, refresh, budget, gathered>>

WGRound(g) == Gather(g) \/ FindPeers(g) \/ RemovePeer(g) \/ Expel(g) \/ Mark(g) \/ AddPeer(g)

\* A restart starts the round again; the interface is kept as it is.
WGRestart ==
  /\ Crash
  /\ gathered' = [g \in WgGates |-> None]
  /\ jobs' = [g \in WgGates |-> {}]

WGNext ==
  \/ Step /\ UNCHANGED wg_vars
  \/ \E g \in WgGates : WGRound(g)
  \/ WGRestart

WGSpec == WGInit /\ [][WGNext]_all_vars

\* The loop of each gate goes on for ever, beside the processes of ServerSessions.
WGFairSpec == WGSpec /\ Fairness /\ \A g \in WgGates : WF_all_vars(WGRound(g))

-------------------------------------------------------------------------------
(***************************************************************************)
(* Properties.                                                             *)
(***************************************************************************)

(***************************************************************************)
(* When nothing new happens the interface of a gate comes to carry exactly *)
(* the client keys of its active sessions, whatever rekeys, expiries,      *)
(* removals and restarts happened between the steps of earlier rounds.     *)
(***************************************************************************)
PeersConverge == \A g \in WgGates : <>[](peers[g] = NeededKeys(g))

(***************************************************************************)
(* A session of a paid gate that is sold stays in the table until its      *)
(* expiry has passed, although a round removes sessions it read earlier    *)
(* and the clean-up runs beside it.                                        *)
(***************************************************************************)
PaidIsKept ==
  [][\A s \in Sids :
       Visible(s) /\ ~IsFree(db[s].gate) /\ IsFresh(db[s], clock) => Visible(s)']_all_vars

(***************************************************************************)
(* "Free WG sessions will be deleted after this seconds", the server says  *)
(* of --max-free-wg-handshake-timeout: a free session that the service     *)
(* deleted, and whose term is not over, does not come back.                *)
(***************************************************************************)
SilentFreeStaysDeleted ==
  [][\A s \in deleted :
       db[s] # None /\ IsActive(db[s]) /\ IsFresh(db[s], clock) /\ IsFree(db[s].gate)
         => ~Visible(s)']_all_vars
==============================================================================

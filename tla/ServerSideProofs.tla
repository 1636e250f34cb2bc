--------------------------- MODULE ServerSideProofs ---------------------------
(***************************************************************************)
(* Theorems about the addresses of the server's gates, and about all parts *)
(* of the server side by side.                                             *)
(***************************************************************************)
EXTENDS MCServerSide, PaymentProofs, VdpStoreProofs, WellFoundedInduction

-------------------------------------------------------------------------------
(***************************************************************************)
(* Proofs about AddressPool.  An address is claimed by whatever carries it *)
(* towards the interface: a row, a request about to save one, a session    *)
(* about to be activated, a job of the round.  Where nobody has been given *)
(* an address that was claimed, an address is claimed for one session and  *)
(* one key, and a key with one address.                                    *)
(***************************************************************************)

\* The smallest element of a set of numbers.
LEMMA Smallest ==
  ASSUME NEW S \in SUBSET Nat, S # {}
  PROVE  Min(S) \in S
<1>. DEFINE R == OpToRel(<, Nat)
<1>1. \E x \in S : \A y \in S : <<y, x>> \notin R
  BY NatLessThanWellFounded, WFMin, Zenon
<1>2. R = {p \in Nat \X Nat : p[1] < p[2]}
  BY Zenon DEF OpToRel
<1>. HIDE DEF R
<1>3. \A x, y \in Nat : y < x => <<y, x>> \in R
  <2>. SUFFICES ASSUME NEW x \in Nat, NEW y \in Nat, y < x PROVE <<y, x>> \in R
    OBVIOUS
  <2>1. <<y, x>> \in Nat \X Nat /\ <<y, x>>[1] < <<y, x>>[2]
    OBVIOUS
  <2>. QED BY <1>2, <2>1, Zenon
<1>4. \E x \in S : \A y \in S : ~(y < x)
  BY <1>1, <1>3, Zenon
<1>5. \E x \in S : \A y \in S : x <= y
  BY <1>4
<1>. QED BY <1>5 DEF Min

Addrs == Usable \cup {None}

\* What find_free_ip() returns.
LEMMA Found ==
  ASSUME PoolAssumption
  PROVE  FindFree \in Addrs /\ (FindFree # None => FindFree \in Usable \ Taken)
<1>. DEFINE free == Net \ ({0, LastAddr, Gateway} \cup Taken)
<1>1. free \in SUBSET Nat /\ free \subseteq Usable \ Taken
  BY DEF Net, Usable
<1>2. free # {} => Min(free) \in free
  BY <1>1, Smallest
<1>. QED BY <1>1, <1>2 DEF FindFree, Addrs

-------------------------------------------------------------------------------
\* Session s goes on its way to the interface with key k and address a.
Claim(s, k, a) ==
  \/ table[s] # None /\ table[s].key = k /\ table[s].addr = a
  \/ \E t \in Threads :
       thread[t].at = "save" /\ thread[t].sid = s /\ thread[t].data.key = k /\ thread[t].data.addr = a
  \/ \E b \in Activators :
       copy[b].at # "idle" /\ copy[b].sid = s /\ copy[b].data.key = k /\ copy[b].data.addr = a
  \/ \E j \in jobs : j.do = "add" /\ j.sid = s /\ j.key = k /\ j.addr = a

Picking(t) == thread[t].at = "pick"

PoolTypes ==
  /\ table \in [Sids -> Record \cup {None}]
  /\ thread \in [Threads -> [at : {"idle", "pick", "save"}, sid : Sids \cup {None},
                             data : Record \cup {None}]]
  /\ \A t \in Threads : thread[t].at # "idle" => thread[t].sid \in Sids /\ thread[t].data \in Record
  /\ copy \in [Activators -> [at : {"idle", "join", "save"}, sid : Sids \cup {None},
                              data : Record \cup {None}]]
  /\ \A b \in Activators : copy[b].at # "idle" => copy[b].sid \in Sids /\ copy[b].data \in Record
  /\ \A j \in jobs : j.do = "remove" \/ j \in Job
  /\ \A k \in DOMAIN iface : iface[k] \in Usable \cup {NoV4}
  /\ used \in Nat

\* A key comes with one request, and goes with one session and one address.
KeyFixed ==
  \A s, u \in Sids, k \in ClientKeys, a, b \in Addrs : Claim(s, k, a) /\ Claim(u, k, b) => s = u /\ a = b

\* The keys of requests still looking for an address are new.
KeysNew ==
  /\ \A s \in Sids, k \in ClientKeys, a \in Addrs : Claim(s, k, a) => k <= used
  /\ \A t \in Threads : Picking(t) => thread[t].data.key <= used
  /\ \A t \in Threads, s \in Sids, k \in ClientKeys, a \in Addrs :
       Picking(t) /\ Claim(s, k, a) => thread[t].data.key # k
  /\ \A t, r \in Threads : Picking(t) /\ Picking(r) /\ t # r =>
       thread[t].data.key # thread[r].data.key

\* An address that goes with two keys was given to one while the other claimed it.
OneKey ==
  \A s, u \in Sids, k, l \in ClientKeys, a \in Usable :
    Claim(s, k, a) /\ Claim(u, l, a) /\ k # l => s \in contested /\ u \in contested

PoolInv == PoolTypes /\ KeyFixed /\ KeysNew /\ OneKey

-------------------------------------------------------------------------------
\* Nothing is claimed that was not claimed before, and no key is new.
Fewer ==
  /\ \A s \in Sids, k \in ClientKeys, a \in Addrs : Claim(s, k, a)' => Claim(s, k, a)
  /\ \A t \in Threads : Picking(t)' => Picking(t) /\ thread'[t].data.key = thread[t].data.key
  /\ used' = used /\ contested \subseteq contested'

\* A step after which nothing is claimed that was not claimed before.
LEMMA FewerClaims ==
  ASSUME PoolInv, PoolTypes', Fewer
  PROVE  PoolInv'
<1>1. KeyFixed'
  BY DEF PoolInv, KeyFixed, Fewer
<1>2. KeysNew'
  BY DEF PoolInv, KeysNew, Fewer
<1>3. OneKey'
  BY DEF PoolInv, OneKey, Addrs, Fewer
<1>. QED BY <1>1, <1>2, <1>3 DEF PoolInv

\* Nothing is claimed in the beginning.
LEMMA InitPool == PoolAssumption /\ PoolInit => PoolInv
<1>. SUFFICES ASSUME PoolAssumption, PoolInit PROVE PoolInv
  OBVIOUS
<1>1. \A s \in Sids, k \in ClientKeys, a \in Addrs : ~Claim(s, k, a)
  BY DEF PoolInit, Claim, Nothing
<1>2. \A t \in Threads : ~Picking(t)
  BY DEF PoolInit, Picking, Nothing
<1>3. PoolTypes
  BY DEF PoolInit, PoolTypes, Nothing
<1>. QED BY <1>1, <1>2, <1>3 DEF PoolInv, KeyFixed, KeysNew, OneKey, Addrs

\* A request brings a key of its own; what it finds in the row is not claimed by it.
LEMMA AskPool ==
  ASSUME PoolAssumption, PoolInv, NEW t \in Threads, PostSession(t) \/ RekeySession(t)
  PROVE  PoolInv'
<1>1. /\ used + 1 \in ClientKeys /\ used' = used + 1 /\ thread[t].at = "idle"
      /\ UNCHANGED <<table, iface, copy, jobs, contested>>
  BY DEF PostSession, RekeySession, Ask, round, ClientKeys, PoolInv, PoolTypes, PoolAssumption
<1>2. PICK s \in Sids, data \in Record :
        /\ data.key = used + 1
        /\ thread' = [thread EXCEPT ![t] = [at |-> "pick", sid |-> s, data |-> data]]
  <2>1. CASE PostSession(t)
    <3>1. [key |-> used + 1, addr |-> None, active |-> FALSE] \in Record
      BY <1>1 DEF Record
    <3>. QED BY <2>1, <3>1 DEF PostSession, Ask
  <2>2. CASE RekeySession(t)
    <3>1. PICK s \in Sids : table[s] # None /\ Ask(t, s, [table[s] EXCEPT !.key = used + 1])
      BY <2>2 DEF RekeySession
    <3>2. /\ [table[s] EXCEPT !.key = used + 1] \in Record
          /\ [table[s] EXCEPT !.key = used + 1].key = used + 1
      BY <1>1, <3>1 DEF PoolInv, PoolTypes, Record
    <3>. QED BY <3>1, <3>2 DEF Ask
  <2>. QED BY <2>1, <2>2
<1>3. \A r \in Threads : thread'[r] = IF r = t THEN [at |-> "pick", sid |-> s, data |-> data]
                                               ELSE thread[r]
  BY <1>2 DEF PoolInv, PoolTypes
<1>4. PoolTypes'
  <2>1. [at |-> "pick", sid |-> s, data |-> data]
          \in [at : {"idle", "pick", "save"}, sid : Sids \cup {None}, data : Record \cup {None}]
    OBVIOUS
  <2>. QED BY <1>1, <1>2, <1>3, <2>1 DEF PoolInv, PoolTypes
<1>5. \A u \in Sids, k \in ClientKeys, a \in Addrs : Claim(u, k, a)' <=> Claim(u, k, a)
  BY <1>1, <1>3 DEF Claim
<1>6. /\ Picking(t)' /\ thread'[t].data.key = used + 1
      /\ \A r \in Threads \ {t} : (Picking(r)' <=> Picking(r)) /\ thread'[r] = thread[r]
  BY <1>2, <1>3 DEF Picking
<1>7. KeyFixed' /\ OneKey'
  BY <1>1, <1>5 DEF PoolInv, KeyFixed, OneKey, Addrs
<1>8. KeysNew'
  <2>1. \A r \in Threads : Picking(r) => thread[r].data.key \in Nat
    BY DEF PoolInv, PoolTypes, Record, ClientKeys, Picking
  <2>2. ClientKeys \subseteq Nat /\ used \in Nat
    BY DEF PoolInv, PoolTypes, ClientKeys
  <2>3. \A u \in Sids, k \in ClientKeys, a \in Addrs : Claim(u, k, a)' => k <= used
    BY <1>5 DEF PoolInv, KeysNew
  <2>4. \A r \in Threads \ {t} : Picking(r)' => thread'[r].data.key <= used
    BY <1>6 DEF PoolInv, KeysNew
  <2>5. \A r \in Threads, u \in Sids, k \in ClientKeys, a \in Addrs :
          Picking(r)' /\ Claim(u, k, a)' => thread'[r].data.key # k
    <3>1. \A u \in Sids, k \in ClientKeys, a \in Addrs : Claim(u, k, a)' => k # used + 1
      BY <2>2, <2>3
    <3>2. \A r \in Threads \ {t}, u \in Sids, k \in ClientKeys, a \in Addrs :
            Picking(r)' /\ Claim(u, k, a)' => thread'[r].data.key # k
      BY <1>5, <1>6 DEF PoolInv, KeysNew
    <3>. QED BY <1>6, <3>1, <3>2
  <2>6. \A q, r \in Threads : Picking(q)' /\ Picking(r)' /\ q # r =>
          thread'[q].data.key # thread'[r].data.key
    BY <1>6, <2>1, <2>2, <2>4 DEF PoolInv, KeysNew
  <2>7. \A u \in Sids, k \in ClientKeys, a \in Addrs : Claim(u, k, a)' => k <= used'
    BY <1>1, <2>2, <2>3
  <2>8. \A r \in Threads : Picking(r)' => thread'[r].data.key <= used'
    BY <1>1, <1>6, <2>1, <2>2, <2>4
  <2>. QED BY <2>5, <2>6, <2>7, <2>8 DEF KeysNew
<1>. QED BY <1>4, <1>7, <1>8 DEF PoolInv

\* A session gets an address: whoever claims it already is contested from now on.
LEMMA PreparePool ==
  ASSUME PoolAssumption, PoolInv, NEW t \in Threads, Prepare(t)
  PROVE  PoolInv'
<1>. DEFINE n == FindFree
            s == thread[t].sid
            new == [thread[t].data EXCEPT !.addr = n]
            key == thread[t].data.key
<1>1. /\ Picking(t) /\ s \in Sids /\ thread[t].data \in Record /\ key \in ClientKeys
      /\ thread \in [Threads -> [at : {"idle", "pick", "save"}, sid : Sids \cup {None},
                                 data : Record \cup {None}]]
  BY DEF Prepare, PoolInv, PoolTypes, Picking, Record
<1>2. n \in Addrs /\ (n # None => n \in Usable \ Taken)
  BY Found
<1>3. /\ UNCHANGED <<table, iface, copy, jobs, used>> /\ contested \subseteq contested'
      /\ n # None /\ Claims(n) # {} => Claims(n) \cup {s} \subseteq contested'
  BY <1>2 DEF Prepare, round, pool_bounds
<1>4. new \in Record /\ new.key = key /\ new.addr = n
  BY <1>1, <1>2 DEF Record, Addrs
<1>5. thread' = [thread EXCEPT ![t] = [at |-> "save", sid |-> s, data |-> new]]
  <2>1. thread' = [thread EXCEPT ![t].at = "save", ![t].data.addr = n]
    BY DEF Prepare
  <2>2. thread'[t] = [[thread[t] EXCEPT !.at = "save"] EXCEPT !.data.addr = n]
    BY <1>1, <2>1
  <2>3. thread'[t] = [at |-> "save", sid |-> s, data |-> new]
    <3>1. [thread[t] EXCEPT !.at = "save"] = [at |-> "save", sid |-> s, data |-> thread[t].data]
      BY <1>1
    <3>. QED BY <2>2, <3>1
  <2>4. DOMAIN thread' = Threads /\ \A r \in Threads \ {t} : thread'[r] = thread[r]
    BY <1>1, <2>1
  <2>. QED BY <1>1, <2>1, <2>3, <2>4
<1>6. \A r \in Threads : thread'[r] = IF r = t THEN [at |-> "save", sid |-> s, data |-> new]
                                               ELSE thread[r]
  BY <1>1, <1>5
<1>7. PoolTypes'
  <2>1. [at |-> "save", sid |-> s, data |-> new]
          \in [at : {"idle", "pick", "save"}, sid : Sids \cup {None}, data : Record \cup {None}]
    BY <1>1, <1>4
  <2>. QED BY <1>1, <1>3, <1>4, <1>5, <1>6, <2>1 DEF PoolInv, PoolTypes
<1>. HIDE DEF new, n
<1>8. \A u \in Sids, k \in ClientKeys, a \in Addrs :
        Claim(u, k, a)' => Claim(u, k, a) \/ (u = s /\ k = key /\ a = n)
  BY <1>3, <1>4, <1>6 DEF Claim
<1>9. \A r \in Threads : Picking(r)' => r # t /\ Picking(r) /\ thread'[r] = thread[r]
  BY <1>6 DEF Picking
<1>10. \A u \in Sids, k \in ClientKeys, a \in Addrs : Claim(u, k, a) => k # key
  BY <1>1 DEF PoolInv, KeysNew
<1>11. KeyFixed'
  BY <1>8, <1>10 DEF PoolInv, KeyFixed
<1>12. KeysNew'
  <2>1. key <= used
    BY <1>1 DEF PoolInv, KeysNew
  <2>2. \A r \in Threads : Picking(r)' => thread'[r].data.key # key
    BY <1>1, <1>9 DEF PoolInv, KeysNew
  <2>3. \A u \in Sids, k \in ClientKeys, a \in Addrs : Claim(u, k, a)' => k <= used'
    BY <1>3, <1>8, <2>1 DEF PoolInv, KeysNew
  <2>4. \A r \in Threads, u \in Sids, k \in ClientKeys, a \in Addrs :
          Picking(r)' /\ Claim(u, k, a)' => thread'[r].data.key # k
    BY <1>8, <1>9, <2>2 DEF PoolInv, KeysNew
  <2>. QED BY <1>3, <1>9, <2>3, <2>4 DEF PoolInv, KeysNew
<1>13. \A u \in Sids, k \in ClientKeys : Claim(u, k, n) => u \in Claims(n)
  BY DEF Claim, Claims
<1>14. OneKey'
  <2>. SUFFICES ASSUME NEW u \in Sids, NEW v \in Sids, NEW k \in ClientKeys, NEW l \in ClientKeys,
                       NEW a \in Usable, Claim(u, k, a)', Claim(v, l, a)', k # l
                PROVE  u \in contested' /\ v \in contested'
    BY DEF OneKey
  <2>1. a \in Addrs /\ a # None
    BY DEF Addrs, Usable, Net, PoolAssumption
  <2>2. CASE Claim(u, k, a) /\ Claim(v, l, a)
    BY <1>3, <2>2 DEF PoolInv, OneKey
  <2>3. CASE Claim(u, k, a) /\ v = s /\ a = n
    BY <1>3, <1>13, <2>1, <2>3
  <2>4. CASE Claim(v, l, a) /\ u = s /\ a = n
    BY <1>3, <1>13, <2>1, <2>4
  <2>. QED BY <1>8, <2>1, <2>2, <2>3, <2>4
<1>. QED BY <1>7, <1>11, <1>12, <1>14 DEF PoolInv

\* The other steps of requests and activations pass claims on or drop them.
LEMMA PassPool ==
  ASSUME PoolAssumption, PoolInv,
         \/ \E t \in Threads : Save(t)
         \/ \E b \in Activators : Activate(b) \/ Activation(b)
         \/ \E s \in Sids : Expire(s)
  PROVE  PoolTypes' /\ Fewer
<1>0. /\ table \in [Sids -> Record \cup {None}]
      /\ copy \in [Activators -> [at : {"idle", "join", "save"}, sid : Sids \cup {None},
                                  data : Record \cup {None}]]
      /\ thread \in [Threads -> [at : {"idle", "pick", "save"}, sid : Sids \cup {None},
                                 data : Record \cup {None}]]
      /\ Nothing \in [at : {"idle"}, sid : {None}, data : {None}]
  BY DEF PoolInv, PoolTypes, Nothing
<1>1. ASSUME NEW t \in Threads, Save(t) PROVE PoolTypes' /\ Fewer
  <2>1. /\ thread[t].at = "save" /\ thread[t].sid \in Sids /\ thread[t].data \in Record
        /\ table' = [table EXCEPT ![thread[t].sid] = thread[t].data]
        /\ thread' = [thread EXCEPT ![t] = Nothing]
        /\ UNCHANGED <<iface, copy, jobs, used, contested>>
    BY <1>1 DEF Save, round, pool_bounds, PoolInv, PoolTypes
  <2>2. PoolTypes'
    BY <1>0, <2>1 DEF PoolInv, PoolTypes
  <2>3. \A u \in Sids, k \in ClientKeys, a \in Addrs : Claim(u, k, a)' => Claim(u, k, a)
    BY <1>0, <2>1 DEF Claim
  <2>4. \A r \in Threads : Picking(r)' => Picking(r) /\ thread'[r].data.key = thread[r].data.key
    BY <1>0, <2>1 DEF Picking
  <2>. QED BY <2>1, <2>2, <2>3, <2>4 DEF Fewer
<1>2. ASSUME NEW b \in Activators, Activate(b) PROVE PoolTypes' /\ Fewer
  <2>1. PICK s \in Sids :
          /\ table[s] # None
          /\ copy' = [copy EXCEPT ![b] = [at |-> "join", sid |-> s, data |-> table[s]]]
          /\ UNCHANGED <<table, thread, iface, jobs, used, contested>>
    BY <1>2 DEF Activate, round, pool_bounds
  <2>2. [at |-> "join", sid |-> s, data |-> table[s]]
          \in [at : {"idle", "join", "save"}, sid : Sids \cup {None}, data : Record \cup {None}]
    BY <1>0
  <2>3. PoolTypes'
    BY <1>0, <2>1, <2>2 DEF PoolInv, PoolTypes
  <2>4. \A u \in Sids, k \in ClientKeys, a \in Addrs : Claim(u, k, a)' => Claim(u, k, a)
    BY <1>0, <2>1 DEF Claim
  <2>. QED BY <2>1, <2>3, <2>4 DEF Fewer, Picking
<1>3. ASSUME NEW b \in Activators, Join(b) PROVE PoolTypes' /\ Fewer
  <2>1. /\ copy[b].at = "join" /\ copy[b].data \in Record /\ copy[b].sid \in Sids
        /\ copy[b].data.addr \in Usable
        /\ copy' = [copy EXCEPT ![b].at = "save"]
        /\ iface' = [k \in DOMAIN iface \cup {copy[b].data.key} |->
                       IF k = copy[b].data.key THEN copy[b].data.addr
                       ELSE IF iface[k] = copy[b].data.addr THEN NoV4 ELSE iface[k]]
        /\ UNCHANGED <<table, thread, jobs, used, contested>>
    BY <1>3 DEF Join, AddPeer, round, pool_bounds, PoolInv, PoolTypes, Record
  <2>2. copy' = [copy EXCEPT ![b] = [at |-> "save", sid |-> copy[b].sid, data |-> copy[b].data]]
    <3>1. [copy[b] EXCEPT !.at = "save"] = [at |-> "save", sid |-> copy[b].sid, data |-> copy[b].data]
      BY <1>0
    <3>. QED BY <2>1, <3>1
  <2>3. \A k \in DOMAIN iface' : iface'[k] \in Usable \cup {NoV4}
    BY <2>1 DEF PoolInv, PoolTypes
  <2>4. PoolTypes'
    BY <1>0, <2>1, <2>2, <2>3 DEF PoolInv, PoolTypes
  <2>5. \A u \in Sids, k \in ClientKeys, a \in Addrs : Claim(u, k, a)' => Claim(u, k, a)
    BY <1>0, <2>1, <2>2 DEF Claim
  <2>. QED BY <2>1, <2>4, <2>5 DEF Fewer, Picking
<1>4. ASSUME NEW b \in Activators, JoinRaises(b) PROVE PoolTypes' /\ Fewer
  <2>1. /\ copy' = [copy EXCEPT ![b] = Nothing]
        /\ UNCHANGED <<table, iface, thread, jobs, used, contested>>
    BY <1>4 DEF JoinRaises, round, pool_bounds
  <2>2. PoolTypes'
    BY <1>0, <2>1 DEF PoolInv, PoolTypes
  <2>3. \A u \in Sids, k \in ClientKeys, a \in Addrs : Claim(u, k, a)' => Claim(u, k, a)
    BY <1>0, <2>1 DEF Claim
  <2>. QED BY <2>1, <2>2, <2>3 DEF Fewer, Picking
<1>5. ASSUME NEW b \in Activators, SaveActive(b) PROVE PoolTypes' /\ Fewer
  <2>. DEFINE new == [copy[b].data EXCEPT !.active = TRUE]
  <2>1. /\ copy[b].at = "save" /\ copy[b].sid \in Sids /\ copy[b].data \in Record
        /\ table' = [table EXCEPT ![copy[b].sid] = new]
        /\ copy' = [copy EXCEPT ![b] = Nothing]
        /\ UNCHANGED <<iface, thread, jobs, used, contested>>
    BY <1>5 DEF SaveActive, round, pool_bounds, PoolInv, PoolTypes
  <2>2. new \in Record /\ new.key = copy[b].data.key /\ new.addr = copy[b].data.addr
    BY <2>1 DEF Record
  <2>3. PoolTypes'
    BY <1>0, <2>1, <2>2 DEF PoolInv, PoolTypes
  <2>4. \A u \in Sids, k \in ClientKeys, a \in Addrs : Claim(u, k, a)' => Claim(u, k, a)
    BY <1>0, <2>1, <2>2 DEF Claim
  <2>. QED BY <2>1, <2>3, <2>4 DEF Fewer, Picking
<1>6. ASSUME NEW s \in Sids, Expire(s) PROVE PoolTypes' /\ Fewer
  <2>1. /\ table' = [table EXCEPT ![s] = None]
        /\ UNCHANGED <<iface, thread, copy, jobs, used, contested>>
    BY <1>6 DEF Expire, round, pool_bounds
  <2>2. PoolTypes'
    BY <1>0, <2>1 DEF PoolInv, PoolTypes
  <2>3. \A u \in Sids, k \in ClientKeys, a \in Addrs : Claim(u, k, a)' => Claim(u, k, a)
    BY <1>0, <2>1 DEF Claim
  <2>. QED BY <2>1, <2>2, <2>3 DEF Fewer, Picking
<1>. QED BY <1>1, <1>2, <1>3, <1>4, <1>5, <1>6 DEF Activation

\* The rounds: what they are to add is what a row claims.
LEMMA RoundPool ==
  ASSUME PoolAssumption, PoolInv, Round
  PROVE  PoolTypes' /\ Fewer
<1>0. table \in [Sids -> Record \cup {None}] /\ \A j \in jobs : j.do = "remove" \/ j \in Job
  BY DEF PoolInv, PoolTypes
<1>1. CASE Gather
  <2>1. UNCHANGED <<table, iface, thread, copy, jobs, used, contested>>
    BY <1>1 DEF Gather, pool_bounds
  <2>2. PoolTypes' /\ \A u \in Sids, k \in ClientKeys, a \in Addrs : Claim(u, k, a)' => Claim(u, k, a)
    BY <2>1 DEF PoolInv, PoolTypes, Claim
  <2>. QED BY <2>1, <2>2 DEF Fewer, Picking
<1>2. CASE FindPeers
  <2>1. UNCHANGED <<table, iface, thread, copy, used, contested>>
    BY <1>2 DEF FindPeers, pool_bounds
  <2>2. \A j \in jobs' : \/ j.do = "remove"
                         \/ j.do # "add" /\ j \in Job
                         \/ \E s \in Sids : Active(s) /\ j = JobOf("add", s)
    <3>1. PICK silent \in SUBSET Sids :
            jobs' = {[do |-> "remove", key |-> k, sid |-> None, addr |-> None] :
                       k \in gathered \ {table[s].key : s \in {s \in Sids : Active(s)}}}
                    \cup {JobOf("expel", s) :
                            s \in {s \in {s \in Sids : Active(s)} \cap silent :
                                    table[s].key \in gathered}}
                    \cup {JobOf("add", s) :
                            s \in {s \in {s \in Sids : Active(s)} : table[s].key \notin gathered}}
      BY <1>2 DEF FindPeers
    <3>2. ASSUME NEW s \in Sids, Active(s)
          PROVE JobOf("expel", s) \in Job /\ JobOf("expel", s).do # "add"
      BY <1>0, <3>2 DEF JobOf, Job, Active, Record
    <3>. QED BY <3>1, <3>2
  <2>3. ASSUME NEW s \in Sids, Active(s)
        PROVE  /\ JobOf("add", s) \in Job
               /\ table[s] # None /\ JobOf("add", s).sid = s
               /\ JobOf("add", s).key = table[s].key /\ JobOf("add", s).addr = table[s].addr
    BY <1>0, <2>3 DEF JobOf, Job, Active, Record
  <2>4. PoolTypes'
    BY <2>1, <2>2, <2>3 DEF PoolInv, PoolTypes
  <2>5. \A u \in Sids, k \in ClientKeys, a \in Addrs : Claim(u, k, a)' => Claim(u, k, a)
    BY <2>1, <2>2, <2>3 DEF Claim
  <2>. QED BY <2>1, <2>4, <2>5 DEF Fewer, Picking
<1>3. ASSUME NEW j \in jobs, Work(j) PROVE PoolTypes' /\ Fewer
  <2>1. UNCHANGED <<thread, copy, used, contested>> /\ (j.do = "remove" \/ j \in Job)
    BY <1>0, <1>3 DEF Work, pool_bounds
  <2>2. jobs' \subseteq jobs \cup {[j EXCEPT !.do = "mark"]} /\ (jobs' \subseteq jobs \/ j.do = "expel")
    BY <1>3 DEF Work, Finish
  <2>3. j.do = "expel" => [j EXCEPT !.do = "mark"] \in Job /\ [j EXCEPT !.do = "mark"].do # "add"
    BY <2>1 DEF Job
  <2>4. (\A i \in jobs' : i.do = "remove" \/ i \in Job) /\ \A i \in jobs' : i.do = "add" => i \in jobs
    BY <1>0, <2>2, <2>3
  <2>5. table' = table \/ (j.do = "mark" /\ table' = [table EXCEPT ![j.sid] = None])
    BY <1>3 DEF Work
  <2>6. table' \in [Sids -> Record \cup {None}] /\ \A u \in Sids : table'[u] \in {table[u], None}
    BY <1>0, <2>5
  <2>7. \A k \in DOMAIN iface' : iface'[k] \in Usable \cup {NoV4}
    <3>1. j.do = "add" /\ j.addr # None => j.addr \in Usable
      BY <2>1 DEF Job
    <3>2. \/ iface' = iface
          \/ RemovePeer(j.key)
          \/ j.addr \in Usable /\ AddPeer(j.key, j.addr)
      BY <1>3, <3>1 DEF Work
    <3>. QED BY <3>2 DEF RemovePeer, AddPeer, PoolInv, PoolTypes
  <2>8. PoolTypes'
    BY <2>1, <2>4, <2>6, <2>7 DEF PoolInv, PoolTypes
  <2>9. \A u \in Sids, k \in ClientKeys, a \in Addrs : Claim(u, k, a)' => Claim(u, k, a)
    BY <2>1, <2>4, <2>6 DEF Claim
  <2>. QED BY <2>1, <2>8, <2>9 DEF Fewer, Picking
<1>. QED BY <1>1, <1>2, <1>3 DEF Round

\* A restart leaves no claims but those of the rows.
LEMMA RestartPool ==
  ASSUME PoolAssumption, PoolInv, PoolRestart
  PROVE  PoolTypes' /\ Fewer
<1>1. /\ jobs' = {} /\ thread' = [t \in Threads |-> Nothing] /\ copy' = [b \in Activators |-> Nothing]
      /\ iface' = iface \/ iface' = [k \in {} |-> None]
      /\ UNCHANGED <<table, used, contested>>
  BY DEF PoolRestart
<1>2. Nothing \in [at : {"idle"}, sid : {None}, data : {None}]
  BY DEF Nothing
<1>3. PoolTypes'
  BY <1>1, <1>2 DEF PoolInv, PoolTypes
<1>4. \A u \in Sids, k \in ClientKeys, a \in Addrs : Claim(u, k, a)' => Claim(u, k, a)
  BY <1>1, <1>2 DEF Claim
<1>. QED BY <1>1, <1>2, <1>3, <1>4 DEF Fewer, Picking

\* Whatever happens, the invariant is kept.
LEMMA NextPool ==
  ASSUME PoolAssumption, PoolInv, [PoolNext]_pool_vars
  PROVE  PoolInv'
<1>1. CASE UNCHANGED pool_vars
  BY <1>1 DEF pool_vars, round, pool_bounds, PoolInv, PoolTypes, KeyFixed, KeysNew, OneKey, Claim,
              Picking
<1>. QED BY <1>1, AskPool, PreparePool, PassPool, RoundPool, RestartPool, FewerClaims DEF PoolNext

-------------------------------------------------------------------------------
(***************************************************************************)
(* The inductive invariant of the addresses: a key goes with one session   *)
(* and one address, and an uncontested address with one key, on all the    *)
(* ways from a request to the interface.                                   *)
(***************************************************************************)
THEOREM PoolInvariant == ASSUME PoolAssumption PROVE PoolSpec => []PoolInv
BY InitPool, NextPool, PTL DEF PoolSpec

(***************************************************************************)
(* find_free_ip() gives no address to two active sessions, but where the   *)
(* address of the first was not on the interface at the time: for networks *)
(* of any size, any number of threads, and any order of their steps.       *)
(***************************************************************************)
THEOREM AddressesDistinct == ASSUME PoolAssumption PROVE PoolSpec => []DistinctUnlessContested
<1>1. PoolInv => DistinctUnlessContested
  <2>. SUFFICES ASSUME PoolInv, NEW s \in Sids \ contested, NEW u \in Sids \ contested, s # u,
                       Active(s), Active(u), table[s].addr # None, table[s].addr = table[u].addr
                PROVE  FALSE
    BY DEF DistinctUnlessContested
  <2>1. /\ table[s] \in Record /\ table[u] \in Record
        /\ Claim(s, table[s].key, table[s].addr) /\ Claim(u, table[u].key, table[u].addr)
    BY DEF PoolInv, PoolTypes, Active, Claim
  <2>. QED BY <2>1 DEF PoolInv, KeyFixed, OneKey, Record, Addrs
<1>. QED BY <1>1, PoolInvariant, PTL

(***************************************************************************)
(* Adding a peer takes no active session's address from its peer, unless   *)
(* that address was contested.                                             *)
(***************************************************************************)
THEOREM NobodyIsRobbed == ASSUME PoolAssumption PROVE PoolSpec => NotRobbed
<1>1. ASSUME PoolAssumption, PoolInv, [PoolNext]_pool_vars,
             NEW s \in Sids, Active(s), table[s]' = table[s],
             table[s].key \in DOMAIN iface, iface[table[s].key] = table[s].addr
      PROVE  \/ s \in contested' \/ boots' # boots
             \/ table[s].key \notin DOMAIN iface'
             \/ iface'[table[s].key] = table[s].addr
  <2>. DEFINE k == table[s].key
              a == table[s].addr
  <2>1. table[s] \in Record /\ k \in ClientKeys /\ a \in Usable /\ Claim(s, k, a)
    BY <1>1 DEF PoolInv, PoolTypes, Active, Claim, Record, PoolAssumption
  <2>2. contested \subseteq contested'
    BY <1>1 DEF PoolNext, PostSession, RekeySession, Prepare, Save, Activate, Activation, Join,
                JoinRaises, SaveActive, Expire, Round, Gather, FindPeers, Work, PoolRestart, pool_vars
  <2>3. ASSUME NEW l \in ClientKeys, NEW b \in Usable, NEW u \in Sids, Claim(u, l, b), AddPeer(l, b)
        PROVE  s \in contested \/ iface'[k] = a
    <3>1. CASE l = k
      <4>1. Claim(u, k, b) /\ a \in Addrs /\ b \in Addrs
        BY <2>1, <2>3, <3>1 DEF Addrs
      <4>2. b = a
        BY <1>1, <2>1, <4>1 DEF PoolInv, KeyFixed
      <4>. QED BY <2>3, <3>1, <4>2 DEF AddPeer
    <3>2. CASE l # k /\ b = a
      <4>1. Claim(u, l, a)
        BY <2>3, <3>2
      <4>. QED BY <1>1, <2>1, <3>2, <4>1 DEF PoolInv, OneKey
    <3>3. CASE l # k /\ b # a
      BY <1>1, <2>1, <2>3, <3>3 DEF AddPeer
    <3>. QED BY <3>1, <3>2, <3>3
  <2>4. \/ iface' = iface \/ boots' # boots
        \/ \E l : RemovePeer(l)
        \/ \E l \in ClientKeys, b \in Usable, u \in Sids : Claim(u, l, b) /\ AddPeer(l, b)
    <3>1. ASSUME NEW b \in Activators, Join(b)
          PROVE  \E l \in ClientKeys, c \in Usable, u \in Sids : Claim(u, l, c) /\ AddPeer(l, c)
      <4>1. /\ copy[b].at = "join" /\ copy[b].data \in Record /\ copy[b].sid \in Sids
            /\ copy[b].data.addr # None /\ AddPeer(copy[b].data.key, copy[b].data.addr)
        BY <1>1, <3>1 DEF Join, PoolInv, PoolTypes
      <4>2. Claim(copy[b].sid, copy[b].data.key, copy[b].data.addr)
        BY <4>1 DEF Claim
      <4>3. copy[b].data.key \in ClientKeys /\ copy[b].data.addr \in Usable
        BY <4>1 DEF Record
      <4>. QED BY <4>1, <4>2, <4>3
    <3>2. ASSUME NEW j \in jobs, Work(j)
          PROVE  \/ iface' = iface
                 \/ \E l : RemovePeer(l)
                 \/ \E l \in ClientKeys, c \in Usable, u \in Sids : Claim(u, l, c) /\ AddPeer(l, c)
      <4>1. j.do = "remove" \/ j \in Job
        BY <1>1 DEF PoolInv, PoolTypes
      <4>2. CASE j.do = "add" /\ j.addr # None /\ AddPeer(j.key, j.addr)
        <5>1. j.key \in ClientKeys /\ j.addr \in Usable /\ j.sid \in Sids
          BY <4>1, <4>2 DEF Job
        <5>2. Claim(j.sid, j.key, j.addr)
          BY <4>2 DEF Claim
        <5>. QED BY <4>2, <5>1, <5>2
      <4>3. CASE RemovePeer(j.key)
        BY <4>3
      <4>. QED BY <3>2, <4>2, <4>3 DEF Work
    <3>3. PoolRestart => boots' # boots \/ iface' = iface
      BY DEF PoolRestart
    <3>. QED BY <1>1, <3>1, <3>2, <3>3
         DEF PoolNext, PostSession, RekeySession, Prepare, Save, Activate, Activation, JoinRaises,
             SaveActive, Expire, Round, Gather, FindPeers, pool_vars
  <2>5. ASSUME NEW l, RemovePeer(l) PROVE k \notin DOMAIN iface' \/ iface'[k] = a
    BY <1>1, <2>5 DEF RemovePeer
  <2>. QED BY <1>1, <2>2, <2>3, <2>4, <2>5
<1>2. PoolInv /\ [PoolNext]_pool_vars =>
        [\A s \in Sids :
           (/\ Active(s) /\ Active(s)' /\ table[s]' = table[s]
            /\ table[s].key \in DOMAIN iface /\ iface[table[s].key] = table[s].addr)
             => \/ s \in contested' \/ boots' # boots
                \/ table[s].key \notin DOMAIN iface'
                \/ iface'[table[s].key] = table[s].addr]_pool_vars
  BY <1>1
<1>. QED BY <1>2, PoolInvariant, PTL DEF PoolSpec, NotRobbed

-------------------------------------------------------------------------------
(***************************************************************************)
(* Types.                                                                  *)
(***************************************************************************)

\* What PoolInv leaves out of the types.
PoolRest ==
  /\ begun \subseteq Sids /\ used \in 0..MaxKeys /\ DOMAIN iface \subseteq ClientKeys
  /\ ended \subseteq Activators /\ gathered \in (SUBSET ClientKeys) \cup {None} /\ jobs \subseteq Job
  /\ running \in BOOLEAN /\ boots \in 0..MaxBoots /\ contested \subseteq Sids

\* The jobs of a round are about keys and sessions there are.
LEMMA JobsTyped ==
  ASSUME PoolInv, PoolRest, FindPeers
  PROVE  jobs' \subseteq Job
<1>1. gathered \subseteq ClientKeys
  BY DEF FindPeers, PoolRest
<1>2. ASSUME NEW s \in Sids, Active(s), NEW do \in {"expel", "add"}
      PROVE  JobOf(do, s) \in Job
  <2>1. table[s] \in Record
    BY <1>2 DEF Active, PoolInv, PoolTypes
  <2>2. table[s].key \in ClientKeys /\ table[s].addr \in Usable \cup {None}
    BY <2>1 DEF Record
  <2> QED BY <2>2 DEF JobOf, Job
<1>3. \A k \in ClientKeys : [do |-> "remove", key |-> k, sid |-> None, addr |-> None] \in Job
  BY DEF Job
<1>. DEFINE needed == {s \in Sids : Active(s)}
<1>4. PICK silent \in SUBSET Sids :
        jobs' = {[do |-> "remove", key |-> k, sid |-> None, addr |-> None] :
                   k \in gathered \ {table[s].key : s \in needed}}
                \cup {JobOf("expel", s) : s \in {s \in needed \cap silent : table[s].key \in gathered}}
                \cup {JobOf("add", s) : s \in {s \in needed : table[s].key \notin gathered}}
  BY DEF FindPeers
<1>5. ASSUME NEW j \in jobs' PROVE j \in Job
  <2>1. CASE \E k \in gathered : j = [do |-> "remove", key |-> k, sid |-> None, addr |-> None]
    BY <1>1, <1>3, <2>1
  <2>2. CASE \E s \in Sids : Active(s) /\ (j = JobOf("expel", s) \/ j = JobOf("add", s))
    BY <1>2, <2>2
  <2> QED BY <1>4, <1>5, <2>1, <2>2
<1> QED BY <1>5

\* The work on a job leaves only known keys on the interface.
LEMMA WorkTyped ==
  ASSUME PoolInv, PoolRest, NEW j \in jobs, Work(j)
  PROVE  DOMAIN iface' \subseteq ClientKeys /\ jobs' \subseteq Job /\ running' \in BOOLEAN
<1>1. j \in Job /\ j.key \in ClientKeys
  BY DEF PoolRest, Job
<1>2. DOMAIN iface' \subseteq ClientKeys
  BY <1>1 DEF Work, AddPeer, RemovePeer, PoolRest
<1>3. j.do = "expel" => [j EXCEPT !.do = "mark"] \in Job
  BY <1>1 DEF Job
<1> QED BY <1>2, <1>3 DEF Work, Finish, PoolRest

\* The contested sessions are sessions.
LEMMA ClaimsTyped ==
  ASSUME PoolInv, PoolRest, NEW a
  PROVE  Claims(a) \subseteq Sids
<1>1. \A j \in jobs : j.do = "add" => j.sid \in Sids
  BY DEF PoolRest, Job
<1> QED BY <1>1 DEF Claims, PoolInv, PoolTypes

LEMMA PoolRestTyped ==
  ASSUME PoolAssumption, PoolInv, PoolRest, [PoolNext]_pool_vars
  PROVE  PoolRest'
<1> USE DEF PoolRest
<1>1. CASE UNCHANGED pool_vars
  BY <1>1 DEF pool_vars, round, pool_bounds
<1>2. ASSUME NEW t \in Threads, PostSession(t) \/ RekeySession(t)
      PROVE  PoolRest'
  <2>1. used' \in 0..MaxKeys /\ begun' \subseteq Sids
    BY <1>2 DEF PostSession, RekeySession, Ask, PoolAssumption
  <2> QED BY <1>2, <2>1 DEF PostSession, RekeySession, round
<1>3. ASSUME NEW t \in Threads, Prepare(t)
      PROVE  PoolRest'
  <2>1. thread[t].sid \in Sids
    BY <1>3 DEF Prepare, PoolInv, PoolTypes
  <2>2. contested' \subseteq Sids
    BY <1>3, <2>1, ClaimsTyped DEF Prepare
  <2> QED BY <1>3, <2>2 DEF Prepare, round, pool_bounds
<1>4. ASSUME NEW t \in Threads, Save(t)
      PROVE  PoolRest'
  BY <1>4 DEF Save, round, pool_bounds
<1>5. ASSUME NEW b \in Activators, Activate(b) \/ JoinRaises(b) \/ SaveActive(b)
      PROVE  PoolRest'
  BY <1>5 DEF Activate, JoinRaises, SaveActive, round, pool_bounds
<1>6. ASSUME NEW b \in Activators, Join(b)
      PROVE  PoolRest'
  <2>1. copy[b].data \in Record
    BY <1>6 DEF Join, PoolInv, PoolTypes
  <2>2. copy[b].data.key \in ClientKeys
    BY <2>1 DEF Record
  <2>3. DOMAIN iface' \subseteq ClientKeys
    BY <1>6, <2>2 DEF Join, AddPeer
  <2> QED BY <1>6, <2>3 DEF Join, round, pool_bounds
<1>7. ASSUME NEW s \in Sids, Expire(s)
      PROVE  PoolRest'
  BY <1>7 DEF Expire, round, pool_bounds
<1>8. CASE Gather
  BY <1>8 DEF Gather, pool_bounds
<1>9. CASE FindPeers
  BY <1>9, JobsTyped DEF FindPeers, pool_bounds
<1>10. ASSUME NEW j \in jobs, Work(j)
       PROVE  PoolRest'
  BY <1>10, WorkTyped DEF Work, pool_bounds
<1>11. CASE PoolRestart
  BY <1>11 DEF PoolRestart, PoolAssumption
<1> QED BY <1>1, <1>2, <1>3, <1>4, <1>5, <1>6, <1>7, <1>8, <1>9, <1>10, <1>11
        DEF PoolNext, Activation, Round

(***************************************************************************)
(* Every variable of the model of the addresses keeps its type: no job is  *)
(* about a key or a session that was never there.                          *)
(***************************************************************************)
THEOREM PoolTypeCorrect == ASSUME PoolAssumption PROVE PoolSpec => []PoolTypeOK
<1>1. PoolInit => PoolRest
  BY DEF PoolInit, PoolRest, PoolAssumption
<1>2. PoolInv /\ PoolRest /\ [PoolNext]_pool_vars => PoolRest'
  BY PoolRestTyped
<1>3. PoolInv /\ PoolRest => PoolTypeOK
  BY DEF PoolInv, PoolTypes, PoolRest, PoolTypeOK
<1> QED BY <1>1, <1>2, <1>3, PoolInvariant, PTL DEF PoolSpec

-------------------------------------------------------------------------------
(***************************************************************************)
(* No address is wanting while there are enough.  The peers of the         *)
(* interface have keys that came with requests, each takes one address at  *)
(* most, and the key that looks for an address is not among them.          *)
(***************************************************************************)
PeersKnown ==
  \A k \in DOMAIN iface : k \in 1 .. used /\ \A t \in Threads : Picking(t) => thread[t].data.key # k

AllServed ==
  running /\ ended = {} /\ \A s \in Sids, k \in ClientKeys : ~Claim(s, k, None)

RoomInv == PeersKnown /\ (used <= Cardinality(Usable) => AllServed)

\* find_free_ip() finds an address while there are at least as many addresses as keys.
LEMMA AddressFound ==
  ASSUME PoolAssumption, PoolInv, PeersKnown, NEW t \in Threads, Picking(t),
         used <= Cardinality(Usable)
  PROVE  FindFree # None
<1>. DEFINE key == thread[t].data.key
            Others == (1 .. used) \ {key}
            At == [k \in Others |-> IF k \in DOMAIN iface THEN iface[k] ELSE NoV4]
<1>1. used \in Nat /\ key \in 1 .. used
  <2>1. key \in ClientKeys /\ key <= used /\ used \in Nat
    BY DEF PoolInv, PoolTypes, KeysNew, Record, Picking
  <2>. QED BY <2>1 DEF ClientKeys
<1>2. IsFiniteSet(1 .. used) /\ Cardinality(1 .. used) = used
  BY <1>1, FS_Interval
<1>3. IsFiniteSet(Others) /\ Cardinality(Others) = used - 1
  BY <1>1, <1>2, FS_RemoveElement
<1>4. IsFiniteSet(Usable) /\ Cardinality(Usable) \in Nat
  <2>1. IsFiniteSet(0 .. LastAddr)
    BY FS_Interval DEF PoolAssumption
  <2>2. Usable \subseteq 0 .. LastAddr
    BY DEF Usable, Net
  <2>. QED BY <2>1, <2>2, FS_Subset, FS_CardinalityType
<1>5. DOMAIN iface \subseteq Others
  BY DEF PeersKnown
<1>. DEFINE Given == {At[k] : k \in Others}
<1>6. IsFiniteSet(Given) /\ Cardinality(Given) <= used - 1
  <2>1. At \in [Others -> Given] /\ \A a \in Given : \E k \in Others : At[k] = a
    OBVIOUS
  <2>. HIDE DEF At, Given, Others
  <2>2. At \in Surjection(Others, Given)
    BY <2>1 DEF Surjection
  <2>. QED BY <1>3, <2>2, FS_Surjection
<1>7. Taken \subseteq Given
  <2>1. ASSUME NEW k \in DOMAIN iface PROVE iface[k] \in Given
    <3>1. k \in Others /\ At[k] = iface[k]
      BY <1>5
    <3>. QED BY <3>1
  <2>. QED BY <2>1 DEF Taken
<1>8. ~(Usable \subseteq Taken)
  <2>. HIDE DEF Given
  <2>1. Usable \subseteq Taken => Usable \subseteq Given
    BY <1>7
  <2>2. Usable \subseteq Given => Cardinality(Usable) <= Cardinality(Given)
    BY <1>6, FS_Subset
  <2>3. Cardinality(Given) \in Nat
    BY <1>6, FS_CardinalityType
  <2>. QED BY <1>1, <1>4, <1>6, <2>1, <2>2, <2>3
<1>. DEFINE free == Net \ ({0, LastAddr, Gateway} \cup Taken)
<1>9. free # {} /\ free \in SUBSET Nat /\ free \subseteq Nat
  BY <1>8 DEF Usable, Net
<1>. HIDE DEF free
<1>10. Min(free) \in Nat
  BY <1>9, Smallest
<1>. QED BY <1>9, <1>10 DEF FindFree, free, PoolAssumption

\* The peers a step adds have keys that were claimed.
AddsClaimed ==
  \A k \in DOMAIN iface' :
    \/ k \in DOMAIN iface
    \/ k \in ClientKeys /\ \E s \in Sids, a \in Addrs : Claim(s, k, a)

\* A step that claims nothing new keeps the room, when it adds peers and fails by what is claimed.
LEMMA FewerRoom ==
  ASSUME PoolInv, RoomInv, Fewer, AddsClaimed, AllServed => running' /\ ended' = {}
  PROVE  RoomInv'
<1>1. PeersKnown'
  <2>. SUFFICES ASSUME NEW k \in DOMAIN iface'
                PROVE  k \in 1 .. used' /\ \A t \in Threads : Picking(t)' => thread'[t].data.key # k
    BY DEF PeersKnown
  <2>1. CASE k \in DOMAIN iface
    BY <2>1 DEF RoomInv, PeersKnown, Fewer
  <2>2. ASSUME k \in ClientKeys, NEW s \in Sids, NEW a \in Addrs, Claim(s, k, a)
        PROVE  k \in 1 .. used' /\ \A t \in Threads : Picking(t)' => thread'[t].data.key # k
    <3>1. k <= used /\ used \in Nat /\ k \in 1 .. MaxKeys
      BY <2>2 DEF PoolInv, PoolTypes, KeysNew, ClientKeys
    <3>2. \A t \in Threads : Picking(t) => thread[t].data.key # k
      BY <2>2 DEF PoolInv, KeysNew
    <3>. QED BY <3>1, <3>2 DEF Fewer
  <2>. QED BY <2>1, <2>2 DEF AddsClaimed
<1>2. used' <= Cardinality(Usable)' => AllServed'
  <2>1. Cardinality(Usable)' = Cardinality(Usable)
    BY DEF Usable, Net
  <2>2. None \in Addrs
    BY DEF Addrs
  <2>. QED BY <2>1, <2>2 DEF RoomInv, AllServed, Fewer
<1>. QED BY <1>1, <1>2 DEF RoomInv

\* The steps of activations and rounds add the peers of claims, and fail where one has no address.
LEMMA PassRoom ==
  ASSUME PoolAssumption, PoolInv, RoomInv, PoolNext,
         ~(\E t \in Threads : PostSession(t) \/ RekeySession(t) \/ Prepare(t))
  PROVE  RoomInv'
<1>1. Fewer
  BY PassPool, RoundPool, RestartPool DEF PoolNext
<1>2. ASSUME NEW b \in Activators, copy[b].at = "join"
      PROVE  Claim(copy[b].sid, copy[b].data.key, copy[b].data.addr)
             /\ copy[b].sid \in Sids /\ copy[b].data.key \in ClientKeys /\ copy[b].data.addr \in Addrs
  BY <1>2 DEF Claim, PoolInv, PoolTypes, Record, Addrs
<1>3. ASSUME NEW j \in jobs, j.do = "add"
      PROVE  Claim(j.sid, j.key, j.addr) /\ j.sid \in Sids /\ j.key \in ClientKeys /\ j.addr \in Addrs
  BY <1>3 DEF Claim, PoolInv, PoolTypes, Job, Addrs
<1>4. CASE UNCHANGED iface /\ UNCHANGED <<running, ended>>
  BY <1>1, <1>4, FewerRoom DEF AddsClaimed, AllServed
<1>5. ASSUME NEW b \in Activators, Join(b) PROVE RoomInv'
  <2>1. copy[b].at = "join" /\ DOMAIN iface' = DOMAIN iface \cup {copy[b].data.key}
        /\ UNCHANGED <<running, ended>>
    BY <1>5 DEF Join, AddPeer
  <2>2. AddsClaimed
    BY <1>2, <2>1 DEF AddsClaimed
  <2>. QED BY <1>1, <2>1, <2>2, FewerRoom DEF AllServed
<1>6. ASSUME NEW b \in Activators, JoinRaises(b) PROVE RoomInv'
  <2>1. copy[b].at = "join" /\ copy[b].data.addr = None /\ UNCHANGED iface
    BY <1>6 DEF JoinRaises
  <2>2. ~AllServed
    BY <1>2, <2>1 DEF AllServed
  <2>. QED BY <1>1, <2>1, <2>2, FewerRoom DEF AddsClaimed
<1>7. ASSUME NEW j \in jobs, Work(j) PROVE RoomInv'
  <2>1. CASE j.do = "add"
    <3>1. DOMAIN iface' \subseteq DOMAIN iface \cup {j.key} /\ UNCHANGED ended
          /\ (running' = running \/ j.addr = None)
      BY <1>7, <2>1 DEF Work, AddPeer
    <3>2. AddsClaimed
      BY <1>3, <2>1, <3>1 DEF AddsClaimed
    <3>3. AllServed => running' /\ ended' = {}
      BY <1>3, <2>1, <3>1 DEF AllServed
    <3>. QED BY <1>1, <3>2, <3>3, FewerRoom
  <2>2. CASE j.do # "add"
    <3>1. DOMAIN iface' \subseteq DOMAIN iface /\ UNCHANGED <<ended, running>>
      BY <1>7, <2>2 DEF Work, RemovePeer
    <3>. QED BY <1>1, <3>1, FewerRoom DEF AddsClaimed, AllServed
  <2>. QED BY <2>1, <2>2
<1>8. CASE PoolRestart
  <2>1. DOMAIN iface' \subseteq DOMAIN iface /\ running' /\ ended' = {}
    BY <1>8 DEF PoolRestart
  <2>. QED BY <1>1, <2>1, FewerRoom DEF AddsClaimed
<1>9. (\/ \E t \in Threads : Save(t)
       \/ \E b \in Activators : Activate(b) \/ SaveActive(b)
       \/ \E s \in Sids : Expire(s)
       \/ Gather \/ FindPeers) => UNCHANGED iface /\ UNCHANGED <<running, ended>>
  BY DEF Save, Activate, SaveActive, Expire, Gather, FindPeers
<1>. QED BY <1>4, <1>5, <1>6, <1>7, <1>8, <1>9 DEF PoolNext, Round, Activation

\* A request brings a key that no peer has.
LEMMA AskRoom ==
  ASSUME PoolAssumption, PoolInv, RoomInv, NEW t \in Threads, PostSession(t) \/ RekeySession(t)
  PROVE  RoomInv'
<1>1. PICK s, data :
        /\ used' = used + 1 /\ thread[t].at = "idle"
        /\ data.key = used + 1
        /\ thread' = [thread EXCEPT ![t] = [at |-> "pick", sid |-> s, data |-> data]]
        /\ UNCHANGED <<table, iface, copy, jobs, running, ended>>
  <2>1. CASE PostSession(t)
    <3>1. PICK s \in Sids : Ask(t, s, [key |-> used + 1, addr |-> None, active |-> FALSE])
      BY <2>1 DEF PostSession
    <3>2. [key |-> used + 1, addr |-> None, active |-> FALSE].key = used + 1
      OBVIOUS
    <3>. QED BY <2>1, <3>1, <3>2 DEF PostSession, Ask, round
  <2>2. CASE RekeySession(t)
    <3>1. PICK s \in Sids : table[s] # None /\ Ask(t, s, [table[s] EXCEPT !.key = used + 1])
      BY <2>2 DEF RekeySession
    <3>2. [table[s] EXCEPT !.key = used + 1].key = used + 1
      BY <3>1 DEF PoolInv, PoolTypes, Record
    <3>. QED BY <2>2, <3>1, <3>2 DEF RekeySession, Ask, round
  <2>. QED BY <2>1, <2>2
<1>2. \A r \in Threads : thread'[r] = IF r = t THEN [at |-> "pick", sid |-> s, data |-> data]
                                               ELSE thread[r]
  BY <1>1 DEF PoolInv, PoolTypes
<1>3. used \in Nat /\ Cardinality(Usable)' = Cardinality(Usable) /\ Cardinality(Usable) \in Nat
  <2>1. IsFiniteSet(0 .. LastAddr) /\ Usable \subseteq 0 .. LastAddr
    BY FS_Interval DEF PoolAssumption, Usable, Net
  <2>. QED BY <2>1, FS_Subset, FS_CardinalityType DEF PoolInv, PoolTypes, Usable, Net
<1>4. PeersKnown'
  <2>. SUFFICES ASSUME NEW k \in DOMAIN iface
                PROVE  k \in 1 .. used + 1 /\ \A r \in Threads : Picking(r)' => thread'[r].data.key # k
    BY <1>1 DEF PeersKnown
  <2>1. k \in 1 .. used /\ \A r \in Threads : Picking(r) => thread[r].data.key # k
    BY DEF RoomInv, PeersKnown
  <2>. QED BY <1>1, <1>2, <1>3, <2>1 DEF Picking
<1>5. \A u \in Sids, k \in ClientKeys : Claim(u, k, None)' => Claim(u, k, None)
  BY <1>1, <1>2 DEF Claim
<1>6. used' <= Cardinality(Usable)' => used <= Cardinality(Usable)
  BY <1>1, <1>3
<1>. QED BY <1>1, <1>4, <1>5, <1>6 DEF RoomInv, AllServed

\* A request looks for an address.
LEMMA PrepareRoom ==
  ASSUME PoolAssumption, PoolInv, RoomInv, NEW t \in Threads, Prepare(t)
  PROVE  RoomInv'
<1>1. Picking(t) /\ UNCHANGED <<table, iface, copy, jobs, used, running, ended>>
  BY DEF Prepare, Picking, round, pool_bounds
<1>2. \A r \in Threads \ {t} : thread'[r] = thread[r]
  BY DEF Prepare, PoolInv, PoolTypes
<1>3. thread'[t].at = "save" /\ thread'[t].data.addr = FindFree
  BY DEF Prepare, PoolInv, PoolTypes, Picking
<1>4. PeersKnown'
  BY <1>1, <1>2, <1>3 DEF RoomInv, PeersKnown, Picking
<1>5. used <= Cardinality(Usable) => FindFree # None
  BY <1>1, AddressFound DEF RoomInv
<1>6. \A u \in Sids, k \in ClientKeys : Claim(u, k, None)' => Claim(u, k, None) \/ FindFree = None
  BY <1>1, <1>2, <1>3 DEF Claim
<1>7. Cardinality(Usable)' = Cardinality(Usable)
  BY DEF Usable, Net
<1>. QED BY <1>1, <1>4, <1>5, <1>6, <1>7 DEF RoomInv, AllServed

(***************************************************************************)
(* A gate serves as many keys as it has addresses: no session is without   *)
(* one, and no activation fails for want of one, before more keys have     *)
(* come than that, whoever expires, is rekeyed or raced for meanwhile.     *)
(***************************************************************************)
THEOREM AddressesSuffice == ASSUME PoolAssumption PROVE PoolSpec => []EnoughUntilFull
<1>1. PoolInit => RoomInv
  BY DEF PoolInit, RoomInv, PeersKnown, AllServed, Claim, Nothing
<1>2. PoolInv /\ RoomInv /\ [PoolNext]_pool_vars => RoomInv'
  <2>1. UNCHANGED pool_vars /\ RoomInv => RoomInv'
    BY DEF pool_vars, round, pool_bounds, RoomInv, PeersKnown, AllServed, Claim, Picking, Usable, Net
  <2>. QED BY <2>1, PassRoom, AskRoom, PrepareRoom
<1>3. PoolInv /\ RoomInv => EnoughUntilFull
  <2>1. ASSUME PoolInv, AllServed, NEW s \in Sids, table[s] # None PROVE table[s].addr # None
    <3>1. table[s].key \in ClientKeys /\ Claim(s, table[s].key, table[s].addr)
      BY <2>1 DEF PoolInv, PoolTypes, Record, Claim
    <3>. QED BY <2>1, <3>1 DEF AllServed
  <2>. QED BY <2>1 DEF RoomInv, AllServed, EnoughUntilFull
<1> QED BY <1>1, <1>2, <1>3, PoolInvariant, PTL DEF PoolSpec

-------------------------------------------------------------------------------
(***************************************************************************)
(* The parts of the server side by side.  A step of MCServerSide is a step *)
(* of one part and a stutter of the others, so that each part behaves as   *)
(* its own specification says, and what is proved of the parts holds of    *)
(* the specification that is model-checked.                                *)
(***************************************************************************)
LEMMA StepOfServer ==
  [AllNext]_allVars =>
    /\ [PayNext]_pay_vars /\ [LinkNext]_link_vars /\ [MainNext]_main_vars
    /\ [PoolNext]_pool_vars /\ [VdpNext]_vdp_vars /\ [Next]_vars
BY DEF AllNext, allVars, ByPayout, ByLinks, ByRouter, ByPool, ByVdp, ByChain

(***************************************************************************)
(* The specification of the server's parts side by side implements the     *)
(* specification of each of them.                                          *)
(***************************************************************************)
THEOREM ServerPartsBehave ==
  AllSpec => PaySpec /\ LinkSpec /\ MainSpec /\ PoolSpec /\ VdpSpec /\ Spec
<1>1. AllInit => PayInit /\ LinkInit /\ MainInit /\ PoolInit /\ VdpInit /\ Init
  BY DEF AllInit
<1> QED
  BY <1>1, StepOfServer, PTL DEF AllSpec, PaySpec, LinkSpec, MainSpec, PoolSpec, VdpSpec, Spec

\* What the theorems about the parts assume is assumed of the constants of MCServerSide.
LEMMA ServerAssumed ==
  /\ PayAssumptions /\ PayoutBounds /\ LinkAssumption /\ ServerMainAssumption /\ PoolAssumption
  /\ StoreAssumptions
BY PayoutAssumed, LinkAssumed, MainAssumed, PoolAssumed, VdpAssumed
   DEF PayAssumptions, StoreAssumptions

(***************************************************************************)
(* The variables of every part of the server keep their types, in whatever *)
(* order its processes, its threads and the world around it take steps.    *)
(***************************************************************************)
THEOREM ServerTypesCorrect == AllSpec => []ServerTypeOK
<1>1. PaySpec => []PayTypeOK
  BY PayTypeCorrect, ServerAssumed
<1>2. LinkSpec => []LinkInv
  BY LinkInvariant, ServerAssumed
<1>3. MainSpec => []MainTypeOK
  BY MainTypeCorrect, ServerAssumed
<1>4. PoolSpec => []PoolTypeOK
  BY PoolTypeCorrect, ServerAssumed
<1>5. VdpSpec => []VdpTypeOK
  BY VdpTypeCorrect, ServerAssumed
<1>6. LinkInv /\ ScanInv /\ PayTypeOK /\ MainTypeOK /\ PoolTypeOK /\ VdpTypeOK => ServerTypeOK
  BY DEF LinkInv, ScanInv, ServerTypeOK
<1> QED
  BY <1>1, <1>2, <1>3, <1>4, <1>5, <1>6, ScanInvariant, ServerPartsBehave, PTL

(***************************************************************************)
(* The safety of the server's parts, as the run server_parts checks it:    *)
(* cards are paid out once and marked when they were, no answer is taken   *)
(* back, transfers are credited once through reorganisations of the chain, *)
(* addresses and links are lent once unless raced for, and descriptions    *)
(* refer to what is stored and are kept.                                   *)
(***************************************************************************)
THEOREM ServerPartsSafe ==
  AllSpec => /\ [](MarkedWerePaid /\ OverpaymentBounded /\ OneAnswer)
             /\ [](CreditsBounded /\ PaidIsCovered)
             /\ [](DistinctUnlessContested /\ EnoughUntilFull)
             /\ [](References /\ AcceptedIsKept)
             /\ LentOnceUnlessRaced /\ NotRobbed
<1>1. PaySpec => []MarkedWerePaid /\ []OverpaymentBounded
  BY MarkedArePaid, OverpaymentIsBounded, ServerAssumed
<1>2. MainSpec => []OneAnswer
  BY AnsweredOnce, ServerAssumed
<1>3. Spec => []CreditsBounded /\ []PaidIsCovered
  BY CreditsAreBounded, PaidIsAlwaysCovered
<1>4. PoolSpec => []DistinctUnlessContested /\ []EnoughUntilFull /\ NotRobbed
  BY AddressesDistinct, AddressesSuffice, NobodyIsRobbed, ServerAssumed
<1>5. VdpSpec => []References /\ []AcceptedIsKept
  BY ReferencesAreStored, AcceptedStays, ServerAssumed
<1>6. LinkSpec => LentOnceUnlessRaced
  BY LentOnce, ServerAssumed
<1> QED
  BY <1>1, <1>2, <1>3, <1>4, <1>5, <1>6, ServerPartsBehave, PTL
===============================================================================

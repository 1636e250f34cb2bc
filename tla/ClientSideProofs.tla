--------------------------- MODULE ClientSideProofs ---------------------------
(***************************************************************************)
(* Theorems about the ends of the client's tunnels, which are the keys of  *)
(* WireGuard and the bytes that the TLS proxy copies, and about all parts  *)
(* of the client side by side.                                             *)
(***************************************************************************)
EXTENDS MCClientSide, ClientProofs

-------------------------------------------------------------------------------
(***************************************************************************)
(* Proofs about WGClient: whatever fails, the server has the key of the    *)
(* interface once a process has come to its loop.                          *)
(*                                                                         *)
(* A process does not rekey when its copy of the session has the key of    *)
(* the interface, so that copies and rows must be right about the server   *)
(* in that case: Known and Agree below.  They are, because keys do not     *)
(* come back: every key in use is at most the one of the interface.        *)
(***************************************************************************)

\* The keys that there can be with the interface as it is.
Older == IF iface = None THEN {None}
         ELSE IF iface.key = NoKey THEN {None, NoKey} ELSE {None, NoKey} \cup 1..iface.key

\* The newest key is the interface's.
Newest ==
  /\ (iface = None \/ iface.key = NoKey) => used = 0
  /\ iface # None /\ iface.key # NoKey => iface.key = IF FixedKey THEN 1 ELSE used

Known ==
  /\ \A s \in Sids : srv[s] # None => srv[s].key \in Older
  /\ \A s \in Sids : rows[s] # None => rows[s].key \in Older
  /\ \A p \in Places : proc[p].copy # None => proc[p].copy.key \in Older
  /\ \A p \in Places : proc[p].key \in Older

\* Sessions that there are have been created by the server, and each process has one of its own.
Owned ==
  /\ \A s \in Sids : srv[s] # None \/ rows[s] # None => s \in born
  /\ \A p \in Places :
       proc[p].at # "none" => /\ proc[p].sid \in born /\ PlaceOf[proc[p].sid] = p
                              /\ proc[p].copy # None
  /\ \A p \in Places : proc[p].at \notin {"none", "setup", "dead"} => iface # None

\* Is the key of data d not the interface's, or else the one that the server has for s?
Agree(s, d) == iface # None /\ d.key = iface.key => srv[s] = None \/ srv[s].key = iface.key

\* Has the server the key of the interface for s?
Settled(s) == srv[s] = None \/ srv[s].key = iface.key

RowsAgree == \A s \in Sids : rows[s] # None => Agree(s, rows[s])

CopiesAgree ==
  \A p \in Places : proc[p].at \in {"setup", "gather", "save"} => Agree(proc[p].sid, proc[p].copy)

\* A process about to rekey has read the key, and if that is not the interface's any more,
\* neither the table nor the server has the new one.
Rekeying ==
  \A p \in Places : proc[p].at = "rekey" =>
    /\ p \notin overtaken => proc[p].key = iface.key
    /\ proc[p].key # iface.key =>
         LET s == proc[p].sid IN
           /\ rows[s] # None => rows[s].key # iface.key
           /\ srv[s] # None => srv[s].key # iface.key

Kept ==
  \A p \in Places \ overtaken :
    proc[p].at \in {"save", "inner", "loop", "up", "left"} => Settled(proc[p].sid)

KeyInv == TypeOK /\ Newest /\ Known /\ Owned /\ RowsAgree /\ CopiesAgree /\ Rekeying /\ Kept

USE WGClientAssumption DEF KeyInv, Steps, Ended, tables, vars

-------------------------------------------------------------------------------
\* What changing a field of the data of a session gives; None is no data.
LEMMA DataExcept ==
  ASSUME NEW d \in Data
  PROVE  /\ d.key \in Keys \cup {None, NoKey} /\ d # None
         /\ \A k \in Keys \cup {None, NoKey} :
              [d EXCEPT !.key = k] \in Data /\ [d EXCEPT !.key = k].key = k
         /\ [d EXCEPT !.active = TRUE] \in Data /\ [d EXCEPT !.active = TRUE].key = d.key
BY NoneAssumption DEF Data

\* Adding and removing the peer leaves the key of the interface alone.
LEMMA IfaceExcept ==
  ASSUME NEW i \in Ifaces
  PROVE  /\ i.key \in Keys \cup {NoKey} /\ i # None
         /\ [i EXCEPT !.peer = TRUE] \in Ifaces /\ [i EXCEPT !.peer = TRUE].key = i.key
         /\ [i EXCEPT !.peer = FALSE] \in Ifaces /\ [i EXCEPT !.peer = FALSE].key = i.key
BY NoneAssumption DEF Ifaces

\* Go changes the step of one process and nothing else of it.
LEMMA GoStep ==
  ASSUME TypeOK, NEW p \in Places, NEW next \in Steps, Go(p, next)
  PROVE  proc' = [proc EXCEPT ![p] =
                       [at |-> next, sid |-> proc[p].sid, copy |-> proc[p].copy, key |-> proc[p].key]]
<1>1. \A r \in Processes :
        [r EXCEPT !.at = next] = [at |-> next, sid |-> r.sid, copy |-> r.copy, key |-> r.key]
  BY DEF Processes
<1> QED BY <1>1 DEF Go, TypeOK

\* Nothing is there initially: all of the parts hold.
LEMMA InitKeeps == Init => KeyInv
BY DEF Init, TypeOK, Processes, Newest, Known, Older, Owned, Agree, RowsAgree, CopiesAgree,
   Rekeying, Kept

-------------------------------------------------------------------------------
\* A session comes from a request without a key.
LEMMA RequestKeeps ==
  ASSUME KeyInv, NEW s \in Sids, Request(s)
  PROVE  KeyInv'
<1>1. TypeOK' /\ Newest'
  BY DEF Request, TypeOK, Processes, Newest, Data
<1>2. Known' /\ Owned'
  BY DEF Request, TypeOK, Processes, Known, Older, Owned
<1>3. RowsAgree' /\ CopiesAgree'
  BY DEF Request, TypeOK, Processes, Owned, Agree, RowsAgree, CopiesAgree
<1>4. Rekeying' /\ Kept'
  BY DEF Request, TypeOK, Processes, Owned, Rekeying, Kept, Settled
<1> QED BY <1>1, <1>2, <1>3, <1>4

\* A payment leaves the key alone.
LEMMA PayKeeps ==
  ASSUME KeyInv, NEW s \in Sids, Pay(s)
  PROVE  KeyInv'
<1>1. PICK d \in Data : d = [srv[s] EXCEPT !.active = TRUE] /\ d.key = srv[s].key
  <2>1. srv[s] \in Data
    BY DEF TypeOK, Pay
  <2> QED BY <2>1, DataExcept
<1>2. srv' = [srv EXCEPT ![s] = d] /\ srv[s] # None /\ d # None
  BY <1>1, DataExcept DEF Pay
<1>3. UNCHANGED <<rows, born, iface, used, proc, conns, told, closing, proxyUp, overtaken>>
  BY DEF Pay
<1> QED BY <1>1, <1>2, <1>3 DEF TypeOK, Newest, Known, Older, Owned, Agree, Settled, RowsAgree,
            CopiesAgree, Rekeying, Kept

\* The client's row becomes the server's, of which Known speaks.
LEMMA LearnKeeps ==
  ASSUME KeyInv, NEW s \in Sids, Learn(s)
  PROVE  KeyInv'
<1>1. TypeOK' /\ Newest'
  BY DEF Learn, TypeOK, Processes, Newest
<1>2. Known' /\ Owned'
  BY DEF Learn, TypeOK, Processes, Known, Older, Owned
<1>3. RowsAgree' /\ CopiesAgree'
  BY DEF Learn, TypeOK, Processes, Owned, Agree, RowsAgree, CopiesAgree
<1>4. Rekeying' /\ Kept'
  BY DEF Learn, TypeOK, Processes, Owned, Rekeying, Kept, Settled
<1> QED BY <1>1, <1>2, <1>3, <1>4

\* A session that is lost agrees with anything.
LEMMA ExpireKeeps ==
  ASSUME KeyInv, NEW s \in Sids, Expire(s)
  PROVE  KeyInv'
<1>1. TypeOK' /\ Newest'
  BY DEF Expire, TypeOK, Processes, Newest
<1>2. Known' /\ Owned'
  BY DEF Expire, TypeOK, Processes, Known, Older, Owned
<1>3. RowsAgree' /\ CopiesAgree'
  BY DEF Expire, TypeOK, Processes, Owned, Agree, RowsAgree, CopiesAgree
<1>4. Rekeying' /\ Kept'
  BY DEF Expire, TypeOK, Processes, Owned, Rekeying, Kept, Settled
<1> QED BY <1>1, <1>2, <1>3, <1>4

\* The copy of a new process is the row, on which RowsAgree speaks.
LEMMA PlaceStartKeeps ==
  ASSUME KeyInv, NEW s \in Sids, Start(s)
  PROVE  KeyInv'
<1>1. TypeOK' /\ Newest'
  BY DEF Start, TypeOK, Processes, Newest
<1>2. Known' /\ Owned'
  BY DEF Start, TypeOK, Processes, Known, Older, Owned
<1>3. RowsAgree' /\ CopiesAgree'
  BY DEF Start, TypeOK, Processes, Owned, Agree, RowsAgree, CopiesAgree
<1>4. Rekeying' /\ Kept'
  BY DEF Start, TypeOK, Processes, Owned, Rekeying, Kept, Settled
<1> QED BY <1>1, <1>2, <1>3, <1>4

\* A process that raises holds nothing any more.
LEMMA RaiseKeeps ==
  ASSUME KeyInv, NEW p \in Places, Raise(p)
  PROVE  KeyInv'
<1>1. proc' = [proc EXCEPT ![p] =
                    [at |-> "dead", sid |-> proc[p].sid, copy |-> proc[p].copy, key |-> proc[p].key]]
  BY GoStep DEF Raise
<1>2. TypeOK' /\ Newest'
  BY <1>1 DEF Raise, Running, TypeOK, Processes, Newest
<1>3. Known' /\ Owned'
  BY <1>1 DEF Raise, Running, TypeOK, Processes, Known, Older, Owned
<1>4. RowsAgree' /\ CopiesAgree'
  BY <1>1 DEF Raise, Running, TypeOK, Processes, Owned, Agree, RowsAgree, CopiesAgree
<1>5. Rekeying' /\ Kept'
  BY <1>1 DEF Raise, Running, TypeOK, Processes, Owned, Rekeying, Kept, Settled
<1> QED BY <1>2, <1>3, <1>4, <1>5

\* A new key is newer than all there are, so that no copy, row or server has it; a process
\* that was using the interface before is overtaken.
LEMMA SetupKeeps ==
  ASSUME KeyInv, NEW p \in Places, Setup(p)
  PROVE  KeyInv'
<1>1. /\ proc[p].at = "setup"
      /\ overtaken' = IF iface' # iface THEN overtaken \cup {q \in Places \ {p} : proc[q].at # "none"}
                                        ELSE overtaken
      /\ UNCHANGED <<tables, conns, told, closing, proxyUp>>
  BY DEF Setup
<1>2. proc' = [proc EXCEPT ![p] =
                    [at |-> "gather", sid |-> proc[p].sid, copy |-> proc[p].copy, key |-> proc[p].key]]
  BY GoStep DEF Setup
<1>3. iface' \in Ifaces /\ used' \in 0..MaxKeys /\ Newest'
  <2>1. CASE used' = used /\ iface' = iface /\ iface # None
    BY <2>1 DEF TypeOK, Newest
  <2>2. CASE used' = used /\ iface' = [key |-> NoKey, peer |-> FALSE] /\ iface = None
    BY <2>2, NoneAssumption DEF TypeOK, Newest, Ifaces
  <2>3. CASE /\ iface' = [key |-> IF FixedKey THEN 1 ELSE used + 1, peer |-> iface # None /\ iface.peer]
             /\ (IF FixedKey THEN 1 ELSE used + 1) \in Keys
             /\ used' = IF FixedKey THEN used ELSE used + 1
    BY <2>3, NoneAssumption DEF TypeOK, Newest, Ifaces, Keys
  <2> QED BY <2>1, <2>2, <2>3 DEF Setup
<1>4. iface' # None /\ iface'.key # None
  BY <1>3, NoneAssumption DEF Ifaces, Keys
<1>5. /\ Older \subseteq Older'
      /\ iface' # iface => iface'.key \notin Older
  BY NoneAssumption DEF Setup, TypeOK, Keys, Ifaces, Newest, Older
<1>6. TypeOK'
  BY <1>1, <1>2, <1>3 DEF TypeOK, Processes
<1>7. Known' /\ Owned'
  BY <1>1, <1>2, <1>4, <1>5 DEF TypeOK, Processes, Known, Owned
<1>8. RowsAgree' /\ CopiesAgree'
  BY <1>1, <1>2, <1>4, <1>5 DEF TypeOK, Processes, Known, Owned, RowsAgree, CopiesAgree, Agree
<1>9. Rekeying' /\ Kept'
  BY <1>1, <1>2, <1>4, <1>5 DEF TypeOK, Processes, Known, Owned, Rekeying, Kept, Settled
<1> QED BY <1>3, <1>6, <1>7, <1>8, <1>9

\* A process goes past the rekeying only with the key of the interface in its copy, and
\* CopiesAgree says that the server has it too.
LEMMA GatherKeeps ==
  ASSUME KeyInv, NEW p \in Places, Gather(p)
  PROVE  KeyInv'
<1>1. TypeOK' /\ Newest'
  BY DEF Gather, TypeOK, Processes, Newest
<1>2. Known' /\ Owned'
  BY DEF Gather, TypeOK, Processes, Known, Older, Owned
<1>3. RowsAgree' /\ CopiesAgree'
  BY DEF Gather, TypeOK, Processes, Owned, Agree, RowsAgree, CopiesAgree
<1>4. Rekeying' /\ Kept'
  BY DEF Gather, TypeOK, Processes, Owned, Rekeying, Kept, Settled, CopiesAgree, Agree
<1> QED BY <1>1, <1>2, <1>3, <1>4

\* The server and the copy get the key that the process has read.  If that is the one of the
\* interface both agree; if not, the process has been overtaken.
LEMMA RekeyKeeps ==
  ASSUME KeyInv, NEW p \in Places, Rekey(p)
  PROVE  KeyInv'
<1> DEFINE s == proc[p].sid
            d == [srv[s] EXCEPT !.key = proc[p].key]
<1>1. /\ proc[p].at = "rekey" /\ s \in Sids /\ s \in born /\ PlaceOf[s] = p /\ iface # None
      /\ UNCHANGED <<rows, born, iface, used, conns, told, closing, proxyUp, overtaken>>
  BY DEF Rekey, TypeOK, Owned
<1>2. CASE srv[s] = None
  <2>1. UNCHANGED srv /\ proc' = [proc EXCEPT ![p] =
                                       [at |-> "gone", sid |-> s, copy |-> proc[p].copy,
                                        key |-> proc[p].key]]
    BY <1>2, GoStep DEF Rekey
  <2> QED BY <1>1, <1>2, <2>1 DEF TypeOK, Processes, Newest, Known, Older, Owned, Agree, Settled,
              RowsAgree, CopiesAgree, Rekeying, Kept
<1>3. CASE srv[s] # None
  <2>1. d \in Data /\ d # None /\ d.key = proc[p].key /\ proc[p].key \in Older
    <3>1. srv[s] \in Data /\ proc[p].key \in Older /\ proc[p].key \in Keys \cup {None, NoKey}
      BY <1>1, <1>3 DEF TypeOK, Processes, Known
    <3> QED BY <3>1, DataExcept
  <2>2. srv' = [srv EXCEPT ![s] = d]
    BY <1>1, <1>3 DEF Rekey
  <2>3. proc' = [proc EXCEPT ![p] = [at |-> "save", sid |-> s, copy |-> d, key |-> proc[p].key]]
    BY <1>1, <1>3, <2>2 DEF Rekey, TypeOK, Processes
  <2> HIDE DEF d
  <2>4. TypeOK' /\ Newest'
    BY <1>1, <2>1, <2>2, <2>3 DEF TypeOK, Processes, Newest
  <2>5. Known' /\ Owned'
    BY <1>1, <2>1, <2>2, <2>3 DEF TypeOK, Known, Owned, Older
  <2>6. RowsAgree' /\ CopiesAgree'
    BY <1>1, <1>3, <2>1, <2>2, <2>3 DEF TypeOK, Owned, Agree, RowsAgree, CopiesAgree, Rekeying
  <2>7. Rekeying' /\ Kept'
    BY <1>1, <1>3, <2>1, <2>2, <2>3 DEF TypeOK, Owned, Rekeying, Kept, Settled
  <2> QED BY <2>4, <2>5, <2>6, <2>7
<1> QED BY <1>2, <1>3

\* A row that is not there agrees with anything.
LEMMA RemoveRowKeeps ==
  ASSUME KeyInv, NEW p \in Places, RemoveRow(p)
  PROVE  KeyInv'
<1>1. proc' = [proc EXCEPT ![p] =
                    [at |-> "create", sid |-> proc[p].sid, copy |-> proc[p].copy, key |-> proc[p].key]]
  BY GoStep DEF RemoveRow
<1>2. TypeOK' /\ Newest'
  <2>1. proc[p].copy \in Data \cup {None} /\ proc[p].sid \in Sids
    BY DEF RemoveRow, TypeOK, Processes, Owned
  <2>2. rows' \in [Sids -> Data \cup {None}]
    BY <2>1 DEF RemoveRow, TypeOK
  <2>3. proc' \in [Places -> Processes]
    BY <1>1 DEF RemoveRow, TypeOK, Processes
  <2>4. conns' = {q \in Places : proc'[q].at # "none"}
    BY <1>1 DEF RemoveRow, TypeOK, Processes
  <2>5. Newest'
    BY DEF RemoveRow, Newest
  <2> QED BY <2>2, <2>3, <2>4, <2>5 DEF RemoveRow, TypeOK
<1>3. Known' /\ Owned'
  BY <1>1 DEF RemoveRow, TypeOK, Processes, Known, Older, Owned
<1>4. RowsAgree' /\ CopiesAgree'
  BY <1>1 DEF RemoveRow, TypeOK, Processes, Owned, Agree, RowsAgree, CopiesAgree
<1>5. Rekeying' /\ Kept'
  BY <1>1 DEF RemoveRow, TypeOK, Processes, Owned, Rekeying, Kept, Settled
<1> QED BY <1>2, <1>3, <1>4, <1>5

\* The new session has the key of the interface at the server and in the copy.
LEMMA CreateKeeps ==
  ASSUME KeyInv, NEW p \in Places, Create(p)
  PROVE  KeyInv'
<1>1. PICK s \in Sids \ born :
        /\ PlaceOf[s] = p /\ born' = born \cup {s}
        /\ srv' = [srv EXCEPT ![s] = [key |-> iface.key, active |-> FALSE]]
        /\ proc' = [proc EXCEPT ![p] =
                         [at |-> "save", sid |-> s, copy |-> srv'[s], key |-> proc[p].key]]
  BY DEF Create
<1> DEFINE d == [key |-> iface.key, active |-> FALSE]
<1>2. /\ proc[p].at = "create" /\ iface # None
      /\ PlaceOf[s] = p /\ s \notin born /\ born' = born \cup {s}
      /\ UNCHANGED <<rows, iface, used, conns, told, closing, proxyUp, overtaken>>
  BY <1>1 DEF Create, Owned
<1>3. d \in Data /\ d # None /\ d.key = iface.key
  <2>1. iface.key \in Keys \cup {NoKey}
    BY <1>2, IfaceExcept DEF TypeOK
  <2>2. d \in Data /\ d.key = iface.key
    BY <2>1 DEF Data
  <2> QED BY <2>2, NoneAssumption
<1>4. srv' = [srv EXCEPT ![s] = d] /\ srv'[s] = d
  BY <1>1 DEF TypeOK
<1> HIDE DEF d
<1>5. proc' = [proc EXCEPT ![p] = [at |-> "save", sid |-> s, copy |-> d, key |-> proc[p].key]]
  BY <1>1, <1>4
<1>6. TypeOK'
  BY <1>2, <1>3, <1>4, <1>5 DEF TypeOK, Processes
<1>7. Newest'
  BY <1>2 DEF Newest
<1>8. Known'
  <2>1. Older' = Older /\ d.key \in Older
    BY <1>2, <1>3 DEF TypeOK, Ifaces, Keys, Newest, Older
  <2> QED BY <1>2, <1>3, <1>4, <1>5, <2>1 DEF TypeOK, Processes, Known
<1>9. Owned'
  BY <1>2, <1>3, <1>4, <1>5 DEF TypeOK, Processes, Owned
<1>10. RowsAgree' /\ CopiesAgree'
  BY <1>2, <1>3, <1>4, <1>5 DEF TypeOK, Processes, Owned, Agree, RowsAgree, CopiesAgree
<1>11. Rekeying' /\ Kept'
  BY <1>2, <1>3, <1>4, <1>5 DEF TypeOK, Processes, Owned, Rekeying, Kept, Settled
<1> QED BY <1>6, <1>7, <1>8, <1>9, <1>10, <1>11

\* The row becomes the copy, on which CopiesAgree speaks.
LEMMA SaveKeeps ==
  ASSUME KeyInv, NEW p \in Places, Save(p)
  PROVE  KeyInv'
<1>1. proc' = [proc EXCEPT ![p] =
                    [at |-> "inner", sid |-> proc[p].sid, copy |-> proc[p].copy, key |-> proc[p].key]]
  BY GoStep DEF Save
<1>2. TypeOK' /\ Newest'
  <2>1. proc[p].copy \in Data \cup {None} /\ proc[p].sid \in Sids
    BY DEF Save, TypeOK, Processes, Owned
  <2>2. rows' \in [Sids -> Data \cup {None}]
    BY <2>1 DEF Save, TypeOK
  <2>3. proc' \in [Places -> Processes]
    BY <1>1 DEF Save, TypeOK, Processes
  <2>4. conns' = {q \in Places : proc'[q].at # "none"}
    BY <1>1 DEF Save, TypeOK, Processes
  <2>5. Newest'
    BY DEF Save, Newest
  <2> QED BY <2>2, <2>3, <2>4, <2>5 DEF Save, TypeOK
<1>3. Known' /\ Owned'
  BY <1>1 DEF Save, TypeOK, Processes, Known, Older, Owned
<1>4. RowsAgree' /\ CopiesAgree'
  BY <1>1 DEF Save, TypeOK, Processes, Owned, Agree, RowsAgree, CopiesAgree
<1>5. Rekeying' /\ Kept'
  BY <1>1 DEF Save, TypeOK, Processes, Owned, Rekeying, Kept, Settled
<1> QED BY <1>2, <1>3, <1>4, <1>5

\* The messages to the proxy change nothing about keys.
LEMMA InnerSessionsKeeps ==
  ASSUME KeyInv, NEW p \in Places, InnerSessions(p)
  PROVE  KeyInv'
<1>1. proc' = [proc EXCEPT ![p] =
                    [at |-> "loop", sid |-> proc[p].sid, copy |-> proc[p].copy, key |-> proc[p].key]]
  BY GoStep DEF InnerSessions
<1>2. TypeOK' /\ Newest'
  BY <1>1 DEF InnerSessions, TypeOK, Processes, Newest
<1>3. Known' /\ Owned'
  BY <1>1 DEF InnerSessions, TypeOK, Processes, Known, Older, Owned
<1>4. RowsAgree' /\ CopiesAgree'
  BY <1>1 DEF InnerSessions, TypeOK, Processes, Owned, Agree, RowsAgree, CopiesAgree
<1>5. Rekeying' /\ Kept'
  BY <1>1 DEF InnerSessions, TypeOK, Processes, Owned, Rekeying, Kept, Settled
<1> QED BY <1>2, <1>3, <1>4, <1>5

\* Adding the peer leaves the key of the interface alone.
LEMMA ActivateKeeps ==
  ASSUME KeyInv, NEW p \in Places, Activate(p)
  PROVE  KeyInv'
<1>1. /\ proc[p].at = "loop" /\ iface \in Ifaces
      /\ UNCHANGED <<tables, used, conns, told, closing, proxyUp, overtaken>>
  BY DEF Activate, TypeOK, Owned
<1>2. iface' = [iface EXCEPT !.peer = TRUE]
  BY DEF Activate
<1>3. iface' \in Ifaces /\ iface'.key = iface.key /\ iface # None /\ iface' # None
  BY <1>1, <1>2, IfaceExcept
<1>4. proc' = [proc EXCEPT ![p] =
                    [at |-> "up", sid |-> proc[p].sid, copy |-> proc[p].copy, key |-> proc[p].key]]
  BY GoStep DEF Activate
<1>5. TypeOK' /\ Newest'
  BY <1>1, <1>3, <1>4 DEF TypeOK, Processes, Newest
<1>6. Known' /\ Owned'
  BY <1>1, <1>3, <1>4 DEF TypeOK, Processes, Known, Older, Owned
<1>7. RowsAgree' /\ CopiesAgree'
  BY <1>1, <1>3, <1>4 DEF TypeOK, Processes, Agree, RowsAgree, CopiesAgree
<1>8. Rekeying' /\ Kept'
  BY <1>1, <1>3, <1>4 DEF TypeOK, Processes, Rekeying, Kept, Settled
<1> QED BY <1>5, <1>6, <1>7, <1>8

\* A process that leaves has what it had in its loop.
LEMMA LeaveKeeps ==
  ASSUME KeyInv, NEW p \in Places, Leave(p)
  PROVE  KeyInv'
<1>1. proc' = [proc EXCEPT ![p] =
                    [at |-> "left", sid |-> proc[p].sid, copy |-> proc[p].copy, key |-> proc[p].key]]
  BY GoStep DEF Leave
<1>2. TypeOK' /\ Newest'
  BY <1>1 DEF Leave, TypeOK, Processes, Newest
<1>3. Known' /\ Owned'
  BY <1>1 DEF Leave, TypeOK, Processes, Known, Older, Owned
<1>4. RowsAgree' /\ CopiesAgree'
  BY <1>1 DEF Leave, TypeOK, Processes, Owned, Agree, RowsAgree, CopiesAgree
<1>5. Rekeying' /\ Kept'
  BY <1>1 DEF Leave, TypeOK, Processes, Owned, Rekeying, Kept, Settled
<1> QED BY <1>2, <1>3, <1>4, <1>5

\* Removing the peer leaves the key of the interface alone, and where there is no interface
\* the proxy ends.
LEMMA DisconnectKeeps ==
  ASSUME KeyInv, NEW p \in Places, Disconnect(p)
  PROVE  KeyInv'
<1>1. /\ UNCHANGED <<tables, used, proc, conns, told, overtaken>>
      /\ closing' \in Places \cup {None} /\ proxyUp' \in BOOLEAN
  BY DEF Disconnect, TypeOK
<1>2. CASE iface = None
  <2>. UNCHANGED iface
    BY <1>2 DEF Disconnect
  <2> QED BY <1>1 DEF TypeOK, Newest, Known, Older, Owned, Agree, Settled, RowsAgree,
              CopiesAgree, Rekeying, Kept
<1>3. CASE iface # None
  <2>1. iface \in Ifaces /\ iface' = [iface EXCEPT !.peer = FALSE]
    BY <1>3 DEF TypeOK, Disconnect
  <2>2. iface' \in Ifaces /\ iface'.key = iface.key /\ iface' # None
    BY <2>1, IfaceExcept
  <2> QED BY <1>1, <1>3, <2>2 DEF TypeOK, Newest, Known, Older, Owned, Agree, Settled, RowsAgree,
              CopiesAgree, Rekeying, Kept
<1> QED BY <1>2, <1>3

\* The process that is reaped has no session.
LEMMA ReapKeeps ==
  ASSUME KeyInv, NEW p \in Places, Reap(p)
  PROVE  KeyInv'
<1>1. TypeOK' /\ Newest'
  BY DEF Reap, TypeOK, Processes, Newest
<1>2. Known' /\ Owned'
  BY DEF Reap, TypeOK, Processes, Known, Older, Owned
<1>3. RowsAgree' /\ CopiesAgree'
  BY DEF Reap, TypeOK, Processes, Owned, Agree, RowsAgree, CopiesAgree
<1>4. Rekeying' /\ Kept'
  BY DEF Reap, TypeOK, Processes, Owned, Rekeying, Kept, Settled
<1> QED BY <1>1, <1>2, <1>3, <1>4

\* The process that is ended has no session.
LEMMA PlaceKillKeeps ==
  ASSUME KeyInv, Kill
  PROVE  KeyInv'
<1>1. TypeOK' /\ Newest'
  BY DEF Kill, TypeOK, Processes, Newest
<1>2. Known' /\ Owned'
  BY DEF Kill, TypeOK, Processes, Known, Older, Owned
<1>3. RowsAgree' /\ CopiesAgree'
  BY DEF Kill, TypeOK, Processes, Owned, Agree, RowsAgree, CopiesAgree
<1>4. Rekeying' /\ Kept'
  BY DEF Kill, TypeOK, Processes, Owned, Rekeying, Kept, Settled
<1> QED BY <1>1, <1>2, <1>3, <1>4

-------------------------------------------------------------------------------
\* Every step of the client, the server and the user keeps KeyInv.
LEMMA NextKeeps == KeyInv /\ [Next]_vars => KeyInv'
<1> SUFFICES ASSUME KeyInv, [Next]_vars PROVE KeyInv'
  OBVIOUS
<1>1. ASSUME NEW s \in Sids, Request(s) \/ Pay(s) \/ Learn(s) \/ Expire(s) \/ Start(s)
      PROVE  KeyInv'
  BY <1>1, RequestKeeps, PayKeeps, LearnKeeps, ExpireKeeps, PlaceStartKeeps
<1>2. ASSUME NEW p \in Places, Step(p)
      PROVE  KeyInv'
  BY <1>2, SetupKeeps, GatherKeeps, RekeyKeeps, RemoveRowKeeps, CreateKeeps, SaveKeeps,
     InnerSessionsKeeps, ActivateKeeps, LeaveKeeps DEF Step
<1>3. ASSUME NEW p \in Places, Raise(p) \/ Disconnect(p) \/ Reap(p)
      PROVE  KeyInv'
  BY <1>3, RaiseKeeps, DisconnectKeeps, ReapKeeps
<1>4. CASE UNCHANGED vars
  BY <1>4 DEF TypeOK, Newest, Known, Older, Owned, Agree, Settled, RowsAgree, CopiesAgree,
     Rekeying, Kept
<1> QED BY <1>1, <1>2, <1>3, <1>4, PlaceKillKeeps DEF Next

(***************************************************************************)
(* KeyInv is an invariant: keys of copies and rows are not newer than the  *)
(* interface's, and a copy or a row that has the interface's key has it    *)
(* because the server has it.                                              *)
(***************************************************************************)
THEOREM KeyInvariant == Spec => []KeyInv
BY InitKeeps, NextKeeps, PTL DEF Spec

(***************************************************************************)
(* The type invariant of the model of client/wg_service.py and of the      *)
(* connections to it.                                                      *)
(***************************************************************************)
THEOREM TypeCorrect == Spec => []TypeOK
<1>1. KeyInv => TypeOK
  OBVIOUS
<1> QED BY <1>1, KeyInvariant, PTL

(***************************************************************************)
(* A process of client/wg_service.py that has come to its loop can rely on *)
(* the server having the key of its interface for its session, for every   *)
(* number of gates, sessions and keys: rekey_session() is left out only if *)
(* there was nothing to tell.                                              *)
(***************************************************************************)
THEOREM KeysAgreeAlways == Spec => []KeysAgree
<1>1. KeyInv => KeysAgree
  BY DEF Kept, Settled, KeysAgree
<1> QED BY <1>1, KeyInvariant, PTL

-------------------------------------------------------------------------------
(***************************************************************************)
(* Proofs about TLSProxy.  The flag eof is shared by all connections; what *)
(* makes it safe for a connection that no other one has cut off, and none  *)
(* of whose sockets failed, is that the flag is reset whenever a           *)
(* connection begins to be copied, so that while it is copied the flag was *)
(* set by one of its own threads, which had read everything.               *)
(***************************************************************************)

\* A side of c has ended, and everything it sent has been read.
Through(c) == \E d \in Sides : ended[c][d] /\ Taken(c, d) = sent[c][d]

\* Has one of the threads of c been told to stop?
Told(c) == eof \/ \E d \in Sides : ~copier[c][d]

\* The functions that the steps change one value of.
Functions ==
  /\ state \in [Conns -> {"none", "pending", "connecting", "copying", "closed", "refused"}]
  /\ copier \in [Conns -> [Sides -> BOOLEAN]]
  /\ sent \in [Conns -> [Sides -> Nat]]
  /\ passed \in [Conns -> [Sides -> Nat]] /\ dropped \in [Conns -> [Sides -> Nat]]
  /\ ended \in [Conns -> [Sides -> BOOLEAN]]

EndInv ==
  /\ Functions
  /\ \A c \in Conns \ (cut \cup failed) : state[c] = "copying" /\ Told(c) => Through(c)
  /\ ReadToTheEnd

-------------------------------------------------------------------------------
\* Nothing is copied in the beginning.
LEMMA InitEnd == TLSInit => EndInv
BY DEF TLSInit, EndInv, Functions, Both, ReadToTheEnd

\* What the local program and the gate do: a side that has ended sends nothing any more.
LEMMA SidesEnd ==
  ASSUME EndInv, NEW c \in Conns, NEW d \in Sides, Open(c) \/ Send(c, d) \/ Ends(c, d)
  PROVE  EndInv'
<1>1. CASE Open(c)
  BY <1>1 DEF Open, EndInv, Functions, Through, Told, Taken, ReadToTheEnd, flows, loop_vars, past
<1>2. CASE Send(c, d)
  <2>1. sent[c][d] + 1 \in Nat
    BY DEF EndInv, Functions
  <2>2. sent' = [sent EXCEPT ![c] = [sent[c] EXCEPT ![d] = sent[c][d] + 1]] /\ ~ended[c][d]
    BY <1>2 DEF Send
  <2>3. sent' \in [Conns -> [Sides -> Nat]]
    BY <2>1, <2>2 DEF EndInv, Functions
  <2>4. \A e \in Conns, f \in Sides : ended[e][f] => sent'[e][f] = sent[e][f]
    BY <2>2 DEF EndInv, Functions
  <2>5. UNCHANGED <<state, eof, copier, passed, dropped, ended, cut, failed>>
    BY <1>2 DEF Send, past
  <2>6. \A e \in Conns : Through(e) => Through(e)'
    BY <2>4, <2>5 DEF Through, Taken
  <2> QED BY <2>3, <2>5, <2>6 DEF EndInv, Functions, Told, Through, ReadToTheEnd
<1>3. CASE Ends(c, d)
  <2>1. ended' = [ended EXCEPT ![c] = [ended[c] EXCEPT ![d] = TRUE]] /\ ~ended[c][d]
    BY <1>3 DEF Ends
  <2>2. ended' \in [Conns -> [Sides -> BOOLEAN]]
    BY <2>1 DEF EndInv, Functions
  <2>3. \A e \in Conns, f \in Sides : ended[e][f] => ended'[e][f]
    BY <2>1 DEF EndInv, Functions
  <2>4. UNCHANGED <<state, eof, copier, sent, passed, dropped, cut, failed>>
    BY <1>3 DEF Ends, loop_vars, past
  <2> QED BY <2>2, <2>3, <2>4 DEF EndInv, Functions, Through, Taken, Told, ReadToTheEnd
<1> QED BY <1>1, <1>2, <1>3

\* A connection that begins resets the flag: it has not been told to stop, nor is any other
\* one that has both of its threads.
LEMMA BeginEnd ==
  ASSUME EndInv, NEW c \in Conns, NEW reached \in BOOLEAN, Begin(c, reached)
  PROVE  EndInv'
BY DEF Begin, EndInv, Functions, Through, Told, Taken, ReadToTheEnd, Both, loop_vars

\* The main loop looks at no connection that is copied.
LEMMA LoopEnd ==
  ASSUME EndInv, MainLoop
  PROVE  EndInv'
<1>1. CASE Prune \/ AcceptTimesOut
  BY <1>1 DEF Prune, AcceptTimesOut, EndInv, Functions, Through, Told, Taken, ReadToTheEnd, flows, past
<1>2. ASSUME NEW c \in Conns, Accept(c) PROVE EndInv'
  BY <1>2 DEF Accept, EndInv, Functions, Through, Told, Taken, ReadToTheEnd, flows, past
<1> QED BY <1>1, <1>2 DEF MainLoop

\* A connection is closed when both of its threads have stopped.
LEMMA CloseEnd ==
  ASSUME EndInv, NEW c \in Conns, WrongCertificate(c) \/ Close(c)
  PROVE  EndInv'
<1>1. CASE WrongCertificate(c)
  BY <1>1 DEF WrongCertificate, EndInv, Functions, Through, Told, Taken, ReadToTheEnd, flows,
         loop_vars, past
<1>2. CASE Close(c)
  <2>1. Told(c) /\ state[c] = "copying"
    BY <1>2 DEF Close, Told, Both, Sides
  <2>2. c \notin cut \cup failed => Through(c)
    BY <2>1 DEF EndInv
  <2> QED BY <1>2, <2>2 DEF Close, EndInv, Functions, Through, Told, Taken, ReadToTheEnd,
                 flows, loop_vars, past
<1> QED BY <1>1, <1>2

\* One value of a function of connections and sides is changed.
LEMMA ChangeOne ==
  ASSUME NEW S, NEW f \in [Conns -> [Sides -> S]], NEW c \in Conns, NEW d \in Sides, NEW v \in S
  PROVE  [f EXCEPT ![c] = [f[c] EXCEPT ![d] = v]] \in [Conns -> [Sides -> S]]
OBVIOUS

\* The threads that copy: the flag is set by the connection whose side is through, and cuts
\* off every other one that is being copied.
LEMMA CopierEnd ==
  ASSUME EndInv, NEW c \in Conns, NEW d \in Sides, Copier(c, d) \/ SocketFails(c, d)
  PROVE  EndInv'
<1>1. CASE Copy(c, d)
  <2> DEFINE More(f) == [f EXCEPT ![c] = [f[c] EXCEPT ![d] = f[c][d] + 1]]
  <2>1. passed[c][d] + 1 \in Nat /\ dropped[c][d] + 1 \in Nat /\ Taken(c, d) # sent[c][d]
    BY <1>1 DEF Copy, EndInv, Functions, Taken
  <2>2. \/ passed' = More(passed) /\ UNCHANGED dropped
        \/ dropped' = More(dropped) /\ UNCHANGED passed
    BY <1>1 DEF Copy
  <2>3. passed' \in [Conns -> [Sides -> Nat]] /\ dropped' \in [Conns -> [Sides -> Nat]]
    <3>1. passed \in [Conns -> [Sides -> Nat]] /\ dropped \in [Conns -> [Sides -> Nat]]
      BY DEF EndInv, Functions
    <3>2. CASE passed' = More(passed) /\ UNCHANGED dropped
      BY <2>1, <3>1, <3>2, ChangeOne
    <3>3. CASE dropped' = More(dropped) /\ UNCHANGED passed
      BY <2>1, <3>1, <3>3, ChangeOne
    <3> QED BY <2>2, <3>2, <3>3
  <2>4. ASSUME NEW e \in Conns, NEW f \in Sides, Taken(e, f) = sent[e][f]
        PROVE  Taken(e, f)' = Taken(e, f)
    <3>1. ~(e = c /\ f = d)
      BY <2>1, <2>4
    <3>2. passed'[e][f] = passed[e][f] /\ dropped'[e][f] = dropped[e][f]
      BY <2>2, <3>1 DEF EndInv, Functions
    <3> QED BY <3>2 DEF Taken
  <2>5. UNCHANGED <<state, eof, copier, sent, ended, cut, failed>>
    BY <1>1 DEF Copy, past
  <2>6. \A e \in Conns : Through(e) => Through(e)'
    BY <2>4, <2>5 DEF Through
  <2> QED BY <2>3, <2>5, <2>6 DEF EndInv, Functions, Told, Through, ReadToTheEnd
<1>2. CASE SeeEnd(c, d)
  BY <1>2 DEF SeeEnd, Copying, EndInv, Functions, Through, Taken, Told, ReadToTheEnd, flows, loop_vars
<1>3. CASE SocketFails(c, d)
  BY <1>3
  DEF SocketFails, Copying, EndInv, Functions, Through, Taken, Told, ReadToTheEnd, flows, loop_vars
<1>4. CASE StopCopying(c, d)
  BY <1>4 DEF StopCopying, EndInv, Functions, Through, Told, Taken, ReadToTheEnd, flows, loop_vars, past
<1> QED BY <1>1, <1>2, <1>3, <1>4 DEF Copier

(***************************************************************************)
(* A connection is closed when the data of a side that has ended it are    *)
(* all read, however many connections share the flag and end, begin and    *)
(* fail beside it, unless a socket of its own failed or the end of another *)
(* connection has cut it off.                                              *)
(***************************************************************************)
THEOREM EndsAreReadToTheEnd == TLSSpec => []ReadToTheEnd
<1>1. EndInv /\ [TLSNext]_tls_vars => EndInv'
  <2>1. EndInv /\ UNCHANGED tls_vars => EndInv'
    BY DEF tls_vars, flows, loop_vars, past, EndInv, Functions, Through, Taken, Told, ReadToTheEnd
  <2> QED BY <2>1, SidesEnd, BeginEnd, LoopEnd, CloseEnd, CopierEnd DEF TLSNext, Serve, Sides
<1>2. EndInv => ReadToTheEnd
  BY DEF EndInv
<1> QED BY InitEnd, <1>1, <1>2, PTL DEF TLSSpec
-------------------------------------------------------------------------------
(***************************************************************************)
(* Types.  The list of threads may name some that have ended, never less   *)
(* than those that run, and no more is passed on than was sent.            *)
(***************************************************************************)

\* What the local program and the gate do.
LEMMA SidesTyped ==
  ASSUME MaxAssumption, TLSTypeOK, NEW c \in Conns, NEW d \in Sides, Open(c) \/ Send(c, d) \/ Ends(c, d)
  PROVE  TLSTypeOK'
<1>1. CASE Open(c)
  BY <1>1 DEF Open, TLSTypeOK, Taken, Alive, flows, loop_vars, past
<1>2. CASE Send(c, d)
  <2>1. /\ sent[c][d] \in 0..MaxData /\ sent[c][d] < MaxData /\ MaxData \in Nat
        /\ sent' = [sent EXCEPT ![c] = [sent[c] EXCEPT ![d] = sent[c][d] + 1]]
    BY <1>2 DEF Send, TLSTypeOK, MaxAssumption
  <2>2. sent[c][d] + 1 \in 0..MaxData
    BY <2>1
  <2>3. sent' \in [Conns -> [Sides -> 0..MaxData]]
    BY <2>1, <2>2 DEF TLSTypeOK
  <2>4. \A e \in Conns, f \in Sides :
          /\ Taken(e, f) \in Nat /\ sent[e][f] \in 0..MaxData /\ Taken(e, f) <= sent[e][f]
          /\ sent'[e][f] \in {sent[e][f], sent[e][f] + 1}
    BY <2>1 DEF TLSTypeOK, Taken
  <2>5. \A e \in Conns, f \in Sides : Taken(e, f) <= sent'[e][f]
    BY <2>4
  <2>6. \A e \in Conns, f \in Sides : Taken(e, f)' = Taken(e, f)
    BY <1>2 DEF Send, Taken
  <2> QED BY <1>2, <2>3, <2>5, <2>6 DEF Send, TLSTypeOK, Taken, Alive, loop_vars, past
<1>3. CASE Ends(c, d)
  <2>1. ended' = [ended EXCEPT ![c] = [ended[c] EXCEPT ![d] = TRUE]]
    BY <1>3 DEF Ends
  <2>2. ended' \in [Conns -> [Sides -> BOOLEAN]]
    BY <2>1 DEF TLSTypeOK
  <2> QED BY <1>3, <2>2 DEF Ends, TLSTypeOK, Taken, Alive, loop_vars, past
<1> QED BY <1>1, <1>2, <1>3

\* The main loop, and the thread of a connection.
LEMMA ServeTyped ==
  ASSUME TLSTypeOK, MainLoop \/ \E c \in Conns : Serve(c)
  PROVE  TLSTypeOK'
<1>1. CASE MainLoop
  BY <1>1 DEF MainLoop, Prune, Accept, AcceptTimesOut, TLSTypeOK, Taken, Alive, flows, past
<1>2. ASSUME NEW c \in Conns, WrongCertificate(c) \/ Close(c)
      PROVE  TLSTypeOK'
  BY <1>2 DEF WrongCertificate, Close, TLSTypeOK, Taken, Alive, flows, loop_vars, past
<1>3. ASSUME NEW c \in Conns, NEW reached \in BOOLEAN, Begin(c, reached)
      PROVE  TLSTypeOK'
  <2>1. /\ ended' = [ended EXCEPT ![c] = [ended[c] EXCEPT !["gate"] = ~reached]]
        /\ copier' = [copier EXCEPT ![c] = Both(TRUE)]
    BY <1>3 DEF Begin
  <2>2. ended' \in [Conns -> [Sides -> BOOLEAN]]
    BY <2>1 DEF TLSTypeOK
  <2>3. copier' \in [Conns -> [Sides -> BOOLEAN]]
    BY <2>1 DEF TLSTypeOK, Both
  <2> QED BY <1>3, <2>2, <2>3 DEF Begin, TLSTypeOK, Taken, Alive, Copying, loop_vars
<1> QED BY <1>1, <1>2, <1>3 DEF Serve

\* The threads that copy.
LEMMA CopierTyped ==
  ASSUME MaxAssumption, TLSTypeOK, NEW c \in Conns, NEW d \in Sides,
         Copier(c, d) \/ SocketFails(c, d)
  PROVE  TLSTypeOK'
<1>1. CASE Copy(c, d)
  <2> DEFINE More(f) == [f EXCEPT ![c] = [f[c] EXCEPT ![d] = f[c][d] + 1]]
  <2>1. /\ sent[c][d] \in 0..MaxData /\ passed[c][d] \in 0..MaxData /\ dropped[c][d] \in 0..MaxData
        /\ passed[c][d] + dropped[c][d] < sent[c][d] /\ MaxData \in Nat
        /\ \/ passed' = More(passed) /\ UNCHANGED dropped
           \/ dropped' = More(dropped) /\ UNCHANGED passed
    BY <1>1 DEF Copy, TLSTypeOK, MaxAssumption, Taken
  <2>2. passed[c][d] + 1 \in 0..MaxData /\ dropped[c][d] + 1 \in 0..MaxData
    BY <2>1
  <2>3. passed' \in [Conns -> [Sides -> 0..MaxData]] /\ dropped' \in [Conns -> [Sides -> 0..MaxData]]
    <3>1. /\ passed \in [Conns -> [Sides -> 0..MaxData]]
          /\ dropped \in [Conns -> [Sides -> 0..MaxData]]
      BY DEF TLSTypeOK
    <3>2. CASE passed' = More(passed) /\ UNCHANGED dropped
      BY <2>1, <2>2, <3>1, <3>2, ChangeOne
    <3>3. CASE dropped' = More(dropped) /\ UNCHANGED passed
      BY <2>1, <2>2, <3>1, <3>3, ChangeOne
    <3> QED BY <2>1, <3>2, <3>3
  <2>4. ASSUME NEW e \in Conns, NEW f \in Sides
        PROVE  passed'[e][f] + dropped'[e][f] <= sent[e][f]
    <3>1. CASE e = c /\ f = d
      <4>1. \/ passed'[c][d] = passed[c][d] + 1 /\ dropped'[c][d] = dropped[c][d]
            \/ passed'[c][d] = passed[c][d] /\ dropped'[c][d] = dropped[c][d] + 1
        BY <2>1 DEF TLSTypeOK
      <4> QED BY <2>1, <3>1, <4>1
    <3>2. CASE ~(e = c /\ f = d)
      BY <2>1, <3>2 DEF TLSTypeOK, Taken
    <3> QED BY <3>1, <3>2
  <2> QED BY <1>1, <2>3, <2>4 DEF Copy, TLSTypeOK, Taken, Alive, loop_vars, past
<1>2. CASE SeeEnd(c, d) \/ SocketFails(c, d) \/ StopCopying(c, d)
  <2>1. copier' = [copier EXCEPT ![c] = [copier[c] EXCEPT ![d] = FALSE]]
    BY <1>2 DEF SeeEnd, SocketFails, StopCopying
  <2>2. copier' \in [Conns -> [Sides -> BOOLEAN]]
    BY <2>1 DEF TLSTypeOK
  <2> QED
    BY <1>2, <2>2
    DEF SeeEnd, SocketFails, StopCopying, Copying, TLSTypeOK, Taken, Alive, flows, loop_vars, past
<1> QED BY <1>1, <1>2 DEF Copier

(***************************************************************************)
(* Every variable of the model of client/tlsproxy.py keeps its type: each  *)
(* thread that runs is in the list that is compared with the limit of      *)
(* connections, and no thread passes on more than it was sent.             *)
(***************************************************************************)
THEOREM TLSTypeCorrect == ASSUME MaxAssumption PROVE TLSSpec => []TLSTypeOK
<1>1. TLSInit => TLSTypeOK
  <2>. SUFFICES ASSUME TLSInit PROVE TLSTypeOK
    OBVIOUS
  <2>1. 0 \in 0..MaxData
    BY DEF MaxAssumption
  <2>2. /\ sent \in [Conns -> [Sides -> 0..MaxData]] /\ passed \in [Conns -> [Sides -> 0..MaxData]]
        /\ dropped \in [Conns -> [Sides -> 0..MaxData]]
    BY <2>1 DEF TLSInit, Both
  <2>3. \A c \in Conns, d \in Sides : sent[c][d] = 0 /\ passed[c][d] = 0 /\ dropped[c][d] = 0
    BY DEF TLSInit, Both
  <2>4. \A c \in Conns, d \in Sides : Taken(c, d) <= sent[c][d]
    BY <2>3 DEF Taken
  <2>5. /\ copier \in [Conns -> [Sides -> BOOLEAN]]
        /\ ended \in [Conns -> [Sides -> BOOLEAN]]
    BY DEF TLSInit, Both
  <2>6. state \in [Conns -> {"none"}] /\ \A c \in Conns : ~Alive(c)
    BY DEF TLSInit, Alive
  <2>7. state \in [Conns -> {"none", "pending", "connecting", "copying", "closed", "refused"}]
    BY <2>6
  <2> QED BY <2>2, <2>4, <2>5, <2>6, <2>7 DEF TLSInit, TLSTypeOK
<1>2. TLSTypeOK /\ [TLSNext]_tls_vars => TLSTypeOK'
  <2>1. TLSTypeOK /\ UNCHANGED tls_vars => TLSTypeOK'
    BY DEF tls_vars, flows, loop_vars, past, TLSTypeOK, Taken, Alive
  <2> QED BY <2>1, SidesTyped, ServeTyped, CopierTyped DEF TLSNext, Sides
<1> QED BY <1>1, <1>2, PTL DEF TLSSpec

-------------------------------------------------------------------------------
(***************************************************************************)
(* The limit of connections.                                               *)
(***************************************************************************)

\* The list is compared with the limit before a connection is accepted, and then grows by one.
LimitInv ==
  /\ IsFiniteSet(threads)
  /\ Cardinality(threads) <= MaxConnections + 1
  /\ loop = "accept" => Cardinality(threads) <= MaxConnections
  /\ loop \in {"prune", "accept"}

\* The one step that makes the list longer.
LEMMA AcceptLimit ==
  ASSUME MaxAssumption, LimitInv, NEW c \in Conns, Accept(c)
  PROVE  LimitInv'
<1>1. /\ IsFiniteSet(threads) /\ Cardinality(threads) <= MaxConnections /\ MaxConnections \in Nat
      /\ threads' = threads \cup {c} /\ loop' = "prune"
  BY DEF Accept, LimitInv, MaxAssumption
<1>2. IsFiniteSet(threads') /\ Cardinality(threads) \in Nat
      /\ Cardinality(threads') \in {Cardinality(threads), Cardinality(threads) + 1}
  BY <1>1, FS_AddElement, FS_CardinalityType
<1> QED BY <1>1, <1>2 DEF LimitInv

\* The step that makes it shorter.
LEMMA PruneLimit ==
  ASSUME MaxAssumption, LimitInv, Prune
  PROVE  LimitInv'
<1>1. /\ IsFiniteSet(threads) /\ Cardinality(threads) <= MaxConnections /\ MaxConnections \in Nat
      /\ threads' \subseteq threads /\ loop' = "accept"
  BY DEF Prune, LimitInv, MaxAssumption
<1>2. /\ IsFiniteSet(threads') /\ Cardinality(threads') <= Cardinality(threads)
      /\ Cardinality(threads) \in Nat /\ Cardinality(threads') \in Nat
  BY <1>1, FS_Subset, FS_CardinalityType
<1> QED BY <1>1, <1>2 DEF LimitInv

\* Only the main loop touches its list, and only it takes a waiting connection.
LEMMA NotTheLoop ==
  ASSUME TLSTypeOK, TLSNext, ~MainLoop
  PROVE  /\ UNCHANGED loop_vars
         /\ \A c \in Conns : state[c] = "pending" => state'[c] = "pending"
<1>1. ASSUME NEW c \in Conns, Open(c) \/ Serve(c)
      PROVE  UNCHANGED loop_vars /\ \A o \in Conns : state[o] = "pending" => state'[o] = "pending"
  BY <1>1 DEF Open, Serve, Begin, WrongCertificate, Close, TLSTypeOK
<1>2. ASSUME NEW c \in Conns, NEW d \in Sides,
             Send(c, d) \/ Ends(c, d) \/ Copy(c, d) \/ SeeEnd(c, d) \/ SocketFails(c, d)
               \/ StopCopying(c, d)
      PROVE  UNCHANGED loop_vars /\ state' = state
  BY <1>2 DEF Send, Ends, Copy, SeeEnd, SocketFails, StopCopying
<1> QED BY <1>1, <1>2 DEF TLSNext, Copier

(***************************************************************************)
(* The list of threads has at most one more than the limit, and while the  *)
(* loop waits for a connection at most as many as the limit.               *)
(***************************************************************************)
THEOREM LimitInvariant == ASSUME MaxAssumption PROVE TLSSpec => []LimitInv
<1>1. TLSInit => LimitInv
  BY FS_EmptySet DEF TLSInit, LimitInv, MaxAssumption
<1>2. LimitInv /\ TLSTypeOK /\ [TLSNext]_tls_vars => LimitInv'
  <2>1. ASSUME LimitInv, UNCHANGED loop_vars
        PROVE  LimitInv'
    BY <2>1 DEF LimitInv, loop_vars
  <2>2. ASSUME LimitInv, AcceptTimesOut
        PROVE  LimitInv'
    BY <2>2 DEF LimitInv, AcceptTimesOut
  <2>3. UNCHANGED tls_vars => UNCHANGED loop_vars
    BY DEF tls_vars
  <2> QED
    BY <2>1, <2>2, <2>3, AcceptLimit, PruneLimit, NotTheLoop DEF MainLoop
<1> QED
  BY <1>1, <1>2, TLSTypeCorrect, PTL DEF TLSSpec

(***************************************************************************)
(* However many connections come at once, a TLS proxy serves at most one   *)
(* more than --max-tls-connections at a time: what it accepts is in the    *)
(* list, and every thread that runs is.                                    *)
(***************************************************************************)
THEOREM ConnectionsLimited ==
  ASSUME MaxAssumption
  PROVE  TLSSpec => [](Cardinality({c \in Conns : Alive(c)}) <= MaxConnections + 1)
<1>1. LimitInv /\ TLSTypeOK => Cardinality({c \in Conns : Alive(c)}) <= MaxConnections + 1
  <2> SUFFICES ASSUME LimitInv, TLSTypeOK
               PROVE  Cardinality({c \in Conns : Alive(c)}) <= MaxConnections + 1
    OBVIOUS
  <2> DEFINE alive == {c \in Conns : Alive(c)}
  <2>1. IsFiniteSet(threads) /\ alive \subseteq threads /\ Cardinality(threads) <= MaxConnections + 1
    BY DEF LimitInv, TLSTypeOK
  <2>2. /\ Cardinality(alive) \in Nat /\ Cardinality(threads) \in Nat
        /\ Cardinality(alive) <= Cardinality(threads) /\ MaxConnections \in Nat
    BY <2>1, FS_Subset, FS_CardinalityType DEF MaxAssumption
  <2> QED BY <2>1, <2>2
<1> QED
  BY <1>1, LimitInvariant, TLSTypeCorrect, PTL

(***************************************************************************)
(* Once the list is longer than the limit it stays as it is, also when all *)
(* its threads have ended: the loop that waits does not look at them, and  *)
(* no connection is accepted any more.                                     *)
(***************************************************************************)
THEOREM StuckBeyondLimit ==
  ASSUME MaxAssumption
  PROVE  TLSSpec => [][Cardinality(threads) > MaxConnections =>
                         /\ UNCHANGED loop_vars
                         /\ \A c \in Conns : state[c] = "pending" => state'[c] = "pending"]_tls_vars
<1>1. ASSUME LimitInv, TLSTypeOK, [TLSNext]_tls_vars, Cardinality(threads) > MaxConnections
      PROVE  UNCHANGED loop_vars /\ \A c \in Conns : state[c] = "pending" => state'[c] = "pending"
  <2>1. ~(loop = "accept") /\ ~(Cardinality(threads) <= MaxConnections)
    BY <1>1, FS_CardinalityType DEF LimitInv, MaxAssumption
  <2>2. ~MainLoop
    BY <2>1 DEF MainLoop, Prune, Accept, AcceptTimesOut
  <2> QED
    BY <1>1, <2>2, NotTheLoop DEF tls_vars
<1> QED
  BY <1>1, LimitInvariant, TLSTypeCorrect, PTL DEF TLSSpec

-------------------------------------------------------------------------------
(***************************************************************************)
(* The parts of the client side by side.  A step of MCClientSide is a step *)
(* of one part and a stutter of the others, so that each part behaves as   *)
(* its own specification says, and what is proved of the parts holds of    *)
(* the specification that is model-checked.                                *)
(***************************************************************************)
LEMMA StepOfClient ==
  [AllNext]_allVars =>
    /\ [ProxyNext]_conn_vars /\ [TLSNext]_tls_vars /\ [TableNext]_table_vars
    /\ [MainNext]_main_vars /\ [Next]_vars /\ UNCHANGED part
BY DEF AllNext, allVars, ByProxy, ByTLS, ByTable, ByMain, ByTunnel

(***************************************************************************)
(* The specification of the client's parts side by side implements the     *)
(* specification of each of them.                                          *)
(***************************************************************************)
THEOREM ClientPartsBehave ==
  AllSpec => ProxySpec /\ TLSSpec /\ TableSpec /\ MainSpec /\ Spec /\ [](part \in Parts)
<1>1. AllInit => ProxyInit /\ TLSInit /\ TableInit /\ MainInit /\ Init /\ part \in Parts
  BY DEF AllInit
<1>2. part \in Parts /\ [AllNext]_allVars => (part \in Parts)'
  BY StepOfClient
<1> QED
  BY <1>1, <1>2, StepOfClient, PTL
  DEF AllSpec, ProxySpec, TLSSpec, TableSpec, MainSpec, Spec

(***************************************************************************)
(* The variables of every part of the client keep their types, in whatever *)
(* order its processes, its threads and the world around it take steps.    *)
(***************************************************************************)
THEOREM ClientTypesCorrect == AllSpec => []ClientTypeOK
<1>1. ProxySpec => []ProxyTypeOK
  BY ProxyTypeCorrect, ProxyAssumed
<1>2. TLSSpec => []TLSTypeOK
  BY TLSTypeCorrect, TLSAssumed
<1>3. TableSpec => []TableInv
  BY TableInvariant, TableAssumed
<1>4. MainSpec => []MainTypeOK
  BY ClientMainTypeCorrect, MainAssumed
<1>5. /\ ProxyTypeOK /\ TLSTypeOK /\ TableInv /\ MainTypeOK /\ TypeOK /\ part \in Parts
      => ClientTypeOK
  BY DEF TableInv, ClientTypeOK
<1> QED
  BY <1>1, <1>2, <1>3, <1>4, <1>5, TypeCorrect, ClientPartsBehave, PTL

(***************************************************************************)
(* The safety of the client's parts, as the run client_parts checks it: no *)
(* process runs unlisted or twice on a gate's port, no byte is lost at the *)
(* end of a connection, rows go for a reason and what is paid for is       *)
(* known, the client ends with all its processes, and the keys of tunnel   *)
(* and server agree.                                                       *)
(***************************************************************************)
THEOREM ClientPartsSafe ==
  AllSpec => /\ [](NoStrayProcess /\ OneProcessPerGate /\ ReadToTheEnd)
             /\ [](DeletedForAReason /\ PaidIsKnown /\ EndsClean /\ KeysAgree)
<1>1. ProxySpec => []NoStrayProcess /\ []OneProcessPerGate
  BY ProcessesAreListed, PortsAreFree, ProxyAssumed
<1>2. TableSpec => []DeletedForAReason /\ []PaidIsKnown
  BY RowsGoForAReason, PaidSessionsAreKnown, TableAssumed
<1>3. MainSpec => []EndsClean
  BY EndsCleanAlways, MainAssumed
<1> QED
  BY <1>1, <1>2, <1>3, EndsAreReadToTheEnd, KeysAgreeAlways, ClientPartsBehave, PTL
===============================================================================

------------------------------ MODULE ChainScan ------------------------------
(***************************************************************************)
(* The server's wallet process against a chain that reorganises itself.    *)
(* A round (Wallet.loop()) lists the incoming transfers down to a minimum  *)
(* height and credits each of them to its session, once for each pair of   *)
(* transaction and height (Session.add_payment()).  A reorganisation puts  *)
(* the transactions of the last blocks elsewhere, or back into the pool.   *)
(*                                                                         *)
(* One session; ServerSessions has what else may happen to it.             *)
(***************************************************************************)
EXTENDS Naturals, FiniteSets

CONSTANTS
  Txs,          \* transfers to the session, of one coin each
  Price,
  FirstSkew, LaterSkew,    \* how far the first round looks back, and the later ones
  Depth,        \* how many blocks a reorganisation takes back
  ScansFail,    \* may listing the transfers fail?
  UseTxPool,    \* --use-tx-pool
  MaxHeight, MaxReorgs, MaxRestarts   \* bounds of the model

ASSUME ChainScanAssumption ==
  /\ IsFiniteSet(Txs) /\ Price \in Nat \ {0}
  /\ FirstSkew \in Nat /\ LaterSkew \in Nat /\ LaterSkew <= FirstSkew
  /\ Depth \in Nat /\ ScansFail \in BOOLEAN /\ UseTxPool \in BOOLEAN
  /\ MaxHeight \in Nat /\ MaxReorgs \in Nat /\ MaxRestarts \in Nat

VARIABLES
  tip,        \* the height of the chain
  at,         \* the block each transaction is in; 0 in the pool, or not sent
  sent,
  moves,      \* how often a reorganisation has taken a transaction out of its block
  reorgs,
  skew,
  batch,      \* transfers of this round, with their heights, not looked at yet
  payments,   \* the session's list of payments
  paid,       \* is the session paid, and with that active?
  restarts

chain == <<tip, at, sent, moves, reorgs>>
row   == <<payments, paid>>
vars  == <<chain, skew, batch, row, restarts>>

Transfer == Txs \X (1..MaxHeight)

TypeOK ==
  /\ tip \in 0..MaxHeight /\ at \in [Txs -> 0..MaxHeight] /\ sent \subseteq Txs
  /\ moves \in [Txs -> 0..MaxReorgs] /\ reorgs \in 0..MaxReorgs
  /\ skew \in {FirstSkew, LaterSkew}
  /\ batch \subseteq Transfer /\ payments \subseteq Transfer
  /\ paid \in BOOLEAN /\ restarts \in 0..MaxRestarts

Init ==
  /\ tip = 0 /\ at = [t \in Txs |-> 0] /\ sent = {}
  /\ moves = [t \in Txs |-> 0] /\ reorgs = 0
  /\ skew = FirstSkew /\ batch = {}
  /\ payments = {} /\ paid = FALSE /\ restarts = 0

-------------------------------------------------------------------------------
(***************************************************************************)
(* The chain.                                                              *)
(***************************************************************************)
Pool == {t \in sent : at[t] = 0}

Send(t) ==
  /\ t \notin sent /\ sent' = sent \cup {t}
  /\ UNCHANGED <<tip, at, moves, reorgs, skew, batch, row, restarts>>

Mine(ts) ==
  /\ tip < MaxHeight /\ tip' = tip + 1
  /\ at' = [t \in Txs |-> IF t \in ts THEN tip' ELSE at[t]]
  /\ UNCHANGED <<sent, moves, reorgs, skew, batch, row, restarts>>

\* The last n blocks are replaced by n + 1 others.
Reorganise(n) ==
  /\ reorgs < MaxReorgs /\ reorgs' = reorgs + 1
  /\ n <= tip /\ tip < MaxHeight /\ tip' = tip + 1
  /\ \E new \in [{t \in sent : at[t] = 0 \/ at[t] > tip - n} -> {0} \cup (tip - n + 1)..tip'] :
       /\ at' = [t \in Txs |-> IF t \in DOMAIN new THEN new[t] ELSE at[t]]
       /\ moves' = [t \in Txs |-> IF at[t] # 0 /\ at'[t] # at[t] THEN moves[t] + 1 ELSE moves[t]]
  /\ UNCHANGED <<sent, skew, batch, row, restarts>>

-------------------------------------------------------------------------------
(***************************************************************************)
(* The wallet process.                                                     *)
(***************************************************************************)
\* Mutant: the minimum height is left out.
ListAbove == {<<t, at[t]>> : t \in {t \in sent : at[t] > 0 /\ at[t] + skew > tip}}
\* Mutant: what is in the pool is listed as well, with the height of the chain.
ListPool == {<<t, IF at[t] = 0 THEN tip ELSE at[t]>> : t \in IF tip = 0 THEN {} ELSE sent}

\* The transfers "in" of the answer of get_transfers; those in the pool are asked for with
\* --use-tx-pool, and not looked at.
List == {<<t, at[t]>> : t \in {t \in sent : at[t] > 0 /\ at[t] + skew >= tip}}

Scan ==
  /\ batch = {} /\ batch' = List /\ skew' = LaterSkew
  /\ UNCHANGED <<chain, row, restarts>>

\* get_transfers has answered with an error: the next round looks back less all the same.
ScanFails ==
  /\ ScansFail /\ batch = {} /\ skew' = LaterSkew
  /\ UNCHANGED <<chain, batch, row, restarts>>

\* Has the session this payment already?
Seen(p) == p \in payments

\* process_payment() and add_payment(), with the activation and the save.
Credit(p) ==
  /\ p \in batch /\ batch' = batch \ {p}
  /\ IF Seen(p) THEN UNCHANGED row
     ELSE /\ payments' = payments \cup {p}
          /\ paid' = (Cardinality(payments') >= Price)
  /\ UNCHANGED <<chain, skew, restarts>>

Restart ==
  /\ restarts < MaxRestarts /\ restarts' = restarts + 1
  /\ batch' = {} /\ skew' = FirstSkew
  /\ UNCHANGED <<chain, row>>

-------------------------------------------------------------------------------
Next ==
  \/ \E t \in Txs : Send(t)
  \/ \E ts \in SUBSET Pool : Mine(ts)
  \/ \E n \in 1..Depth : Reorganise(n)
  \/ Scan \/ ScanFails \/ (\E p \in Transfer : Credit(p)) \/ Restart

Spec == Init /\ [][Next]_vars

\* Rounds go on, and each comes to its end.
FairSpec == Spec /\ WF_vars(Scan) /\ WF_vars(\E p \in Transfer : Credit(p))

-------------------------------------------------------------------------------
(***************************************************************************)
(* Properties.                                                             *)
(***************************************************************************)
Credits(t) == {p \in payments : p[1] = t}

(***************************************************************************)
(* However often a transfer is listed, it is credited once, and once more  *)
(* at most for each reorganisation that has taken it out of its block.     *)
(***************************************************************************)
CreditsBounded == \A t \in Txs : Cardinality(Credits(t)) <= moves[t] + 1

(***************************************************************************)
(* A session that is paid has got its price in different transfers, unless *)
(* one of them was moved.                                                  *)
(***************************************************************************)
PaidIsCovered ==
  paid => \/ Cardinality({t \in Txs : Credits(t) # {}}) >= Price
          \/ \E t \in Txs : moves[t] > 0

(***************************************************************************)
(* A transfer that stays in its block is credited, for that block or       *)
(* another, unless the chain has grown past the wallet's window before.    *)
(***************************************************************************)
MinedIsCredited ==
  \A p \in Transfer :
    ~<>[](at[p[1]] = p[2] /\ Credits(p[1]) = {} /\ p[2] + LaterSkew >= tip)

=============================================================================

------------------------------ MODULE MCWGServer ------------------------------
(***************************************************************************)
(* Values of the constants for the runs of WGServer.                       *)
(***************************************************************************)
EXTENDS WGServer

CONSTANTS s1, s2, t1, t3, wg, freewg

\* A day on the paid gate costs 2, and each transfer pays one session.
MCDailyPrice == [g \in Gates |-> IF g = wg THEN 2 ELSE 0]

MCTxAmount == [t \in Txs |-> 2]
MCTxSession == [t \in Txs |-> IF t = t3 THEN s2 ELSE s1]

==============================================================================

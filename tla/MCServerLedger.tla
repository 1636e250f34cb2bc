---------------------------- MODULE MCServerLedger ----------------------------
(***************************************************************************)
(* Values of the constants for the run of ServerLedger.                    *)
(***************************************************************************)
EXTENDS ServerLedger

CONSTANTS s1, s2, t1, t2, t3, proxy, freeproxy

\* A day on the paid gate costs 2.
MCDailyPrice == [g \in Gates |-> IF g = proxy THEN 2 ELSE 0]

\* Two transfers of 1 for s1, one of 2 for s2.
MCTxAmount == [t \in Txs |-> IF t = t3 THEN 2 ELSE 1]
MCTxSession == [t \in Txs |-> IF t = t3 THEN s2 ELSE s1]
==============================================================================

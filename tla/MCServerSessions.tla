-------------------------- MODULE MCServerSessions --------------------------
(***************************************************************************)
(* Values of the constants for the runs of ServerSessions.                 *)
(***************************************************************************)
EXTENDS ServerSessions

CONSTANTS s1, s2, t1, t2, t3, proxy, freeproxy, wg, freewg

\* Prices per day: paid gates cost 2.
MCDailyPrice == [g \in Gates |-> IF g \in {proxy, wg} THEN 2 ELSE 0]

\* Two transfers that only together pay a day for s1, and one that pays s2 at once.
MCTxAmount == [t \in Txs |-> IF t = t3 THEN 2 ELSE 1]
MCTxSession == [t \in Txs |-> IF t = t3 THEN s2 ELSE s1]

==============================================================================

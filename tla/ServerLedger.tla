----------------------------- MODULE ServerLedger -----------------------------
(***************************************************************************)
(* The server's session table implements the ledger of SessionLedger when  *)
(* it has no WireGuard gate and gives no contributions: then requests only *)
(* insert rows, and the wallet alone rewrites them.                        *)
(***************************************************************************)
EXTENDS ServerSessions

\* The account that the row of a session stands for.
AccountOf(s) ==
  IF db[s] = None THEN [state |-> "none", credited |-> {}, expires |-> 0]
  ELSE [state    |-> IF s \in deleted THEN "closed"
                     ELSE IF IsActive(db[s]) THEN "active" ELSE "unpaid",
        credited |-> db[s].payments,
        expires  |-> db[s].expires]

Ledger == INSTANCE SessionLedger WITH
  account <- [s \in Sids |-> AccountOf(s)],
  now     <- clock

(***************************************************************************)
(* Every behaviour of the server's processes, restarts included, is one of *)
(* the ledger: no payment credited to a session that is still open is      *)
(* forgotten, no active session falls back to unpaid, is closed before its *)
(* term is over, or gets a second term.                                    *)
(***************************************************************************)
ImplementsLedger == Ledger!LedgerSpec
==============================================================================

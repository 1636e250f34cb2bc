---------------------------- MODULE SessionLedger ----------------------------
(***************************************************************************)
(* What a server promises about the sessions it sells, without processes,  *)
(* copies of rows, scans or restarts: each session has an account.  It is  *)
(* opened unpaid, collects transfers one at a time, is activated once for  *)
(* one term, and is closed only when its time is over.  Nothing that was   *)
(* credited to an open account is forgotten, and an active account never   *)
(* goes back to unpaid nor gets another term.                              *)
(***************************************************************************)
EXTENDS Integers

CONSTANTS Sids, Txs

VARIABLES
  account,  \* by session: its state, the transfers credited to it, its expiry
  now       \* time

NoAccount == [state |-> "none", credited |-> {}, expires |-> 0]

LedgerInit ==
  /\ account = [s \in Sids |-> NoAccount]
  /\ now = 1

\* Only the account of s changes, and time stands still.
Only(s) ==
  /\ DOMAIN account' = Sids
  /\ \A r \in Sids \ {s} : account'[r] = account[r]
  /\ now' = now

\* A session is sold and waits for its payment.
Open(s) ==
  /\ account[s].state = "none"
  /\ account'[s].state = "unpaid" /\ account'[s].credited = {}
  /\ account'[s].expires > now
  /\ Only(s)

\* A transfer is credited to an open account; nothing else about it changes.
Pay(s) ==
  /\ account[s].state \in {"unpaid", "active"}
  /\ \E t \in Txs : account'[s] = [account[s] EXCEPT !.credited = @ \cup {t}]
  /\ Only(s)

\* The term begins: when the price is covered, or at once for a free session.  A
\* payment that was being credited while the account was swept still counts.
Begin(s) ==
  /\ account[s].state # "active"
  /\ account'[s].state = "active"
  /\ account[s].credited \subseteq account'[s].credited
  /\ account'[s].expires > now
  /\ Only(s)

\* Accounts whose time is over are closed, and closed ones are forgotten some day.
Sweep ==
  /\ DOMAIN account' = Sids
  /\ \A s \in Sids :
       \/ account'[s] = account[s]
       \/ account[s].expires <= now
          /\ \/ account'[s] = [account[s] EXCEPT !.state = "closed"]
             \/ account'[s] = NoAccount
  /\ now' = now

Pass == now' = now + 1 /\ account' = account

LedgerNext == (\E s \in Sids : Open(s) \/ Pay(s) \/ Begin(s)) \/ Sweep \/ Pass

LedgerSpec == LedgerInit /\ [][LedgerNext]_<<account, now>>
==============================================================================

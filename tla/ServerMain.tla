----------------------------- MODULE ServerMain -----------------------------
(***************************************************************************)
(* The main process of the server (server.py): it starts the others, hands *)
(* their messages round, and ends with the first of them that is gone.     *)
(* The refresh thread belongs to main itself.  The way of a card payment   *)
(* goes through here: the stripe process asks the wallet to pay, and the   *)
(* wallet's answer comes back to it (Payout looks at both ends of it).     *)
(*                                                                         *)
(* A child "serves", has "failed" while other threads keep the process     *)
(* alive, or is "gone".                                                    *)
(***************************************************************************)
EXTENDS Naturals, Sequences

CONSTANTS
  Services,    \* the children that run WireGuard gates
  MaxPays      \* bound of the model: payments asked for

ServerMainAssumption ==
  MaxPays \in Nat /\ Services \cap {"stripe", "wallet", "manager"} = {}

VARIABLES
  main, child,
  main_queue,     \* the general queue
  inbox,     \* the queues of the children
  refresh,   \* the thread that activates and expires sessions
  pays,      \* payments asked for so far
  asked,     \* those it waits for
  settled,   \* those it has read to be paid
  turned_down    \* those it has read to be unpaid, and goes on waiting for

main_vars == <<main, child, main_queue, inbox, refresh, pays, asked, settled, turned_down>>

Children == {"stripe", "wallet", "manager"} \cup Services
Pays     == 1..MaxPays
PayOf(n)   == [to |-> "wallet", do |-> "pay", of |-> n]
PaidOf(n)  == [to |-> "all", do |-> "paid", of |-> n]
UnPaidOf(n) == [to |-> "all", do |-> "unpaid", of |-> n]
Exit     == [to |-> "all", do |-> "exit", of |-> 0]
MainMessage  == {Exit} \cup UNION {{PayOf(n), PaidOf(n), UnPaidOf(n)} : n \in Pays}

MainTypeOK ==
  /\ main \in {"loop", "refresh", "join", "kill", "done"}
  /\ child \in [Children -> {"serves", "failed", "gone"}]
  /\ main_queue \in Seq(MainMessage) /\ DOMAIN inbox = Children
  /\ \A c \in Children : inbox[c] \in Seq({m \in MainMessage : m.to \in {c, "all"}})
  /\ refresh \in {"runs", "failed", "ended"}
  /\ pays \in 0..MaxPays
  /\ asked \subseteq Pays /\ settled \subseteq Pays /\ turned_down \subseteq Pays

MainInit ==
  /\ main = "loop" /\ child = [c \in Children |-> "serves"]
  /\ main_queue = <<>> /\ inbox = [c \in Children |-> <<>>]
  /\ refresh = "runs" /\ pays = 0 /\ asked = {} /\ settled = {} /\ turned_down = {}

-------------------------------------------------------------------------------
(***************************************************************************)
(* The main loop and cleanup().                                            *)
(***************************************************************************)
PutTo(m, cs) == inbox' = [c \in Children |-> IF c \in cs THEN Append(inbox[c], m) ELSE inbox[c]]

\* Mutant: an answer goes to the wallet only.
RouteHome ==
  /\ main = "loop" /\ main_queue # <<>> /\ main_queue' = Tail(main_queue)
  /\ PutTo(Head(main_queue), {"wallet"})
  /\ UNCHANGED <<main, child, refresh, pays, asked, settled, turned_down>>

MainRoute ==
  /\ main = "loop" /\ main_queue # <<>> /\ main_queue' = Tail(main_queue)
  /\ LET m == Head(main_queue) IN
       PutTo(m, IF m.to = "all" THEN {"wallet", "manager", "stripe"} ELSE {"wallet"})
  /\ UNCHANGED <<main, child, refresh, pays, asked, settled, turned_down>>

Gone == {c \in Children : child[c] = "gone"}

\* Mutant: the WireGuard processes are not looked at.
NoticeSome ==
  /\ main = "loop" /\ Gone \ Services # {} /\ main' = "refresh"
  /\ UNCHANGED <<child, main_queue, inbox, refresh, pays, asked, settled, turned_down>>

Notice ==
  /\ main = "loop" /\ Gone # {} /\ main' = "refresh"
  /\ UNCHANGED <<child, main_queue, inbox, refresh, pays, asked, settled, turned_down>>

\* refresh.join() waits for the thread, cleanup() asks all children to end.
Cleanup ==
  /\ main = "refresh" /\ refresh # "runs" /\ main' = "join"
  /\ PutTo(Exit, Children)
  /\ UNCHANGED <<child, main_queue, refresh, pays, asked, settled, turned_down>>

MainJoin ==
  /\ main = "join" /\ main' = "kill"
  /\ UNCHANGED <<child, main_queue, inbox, refresh, pays, asked, settled, turned_down>>

Kill(c) ==
  /\ main = "kill" /\ child[c] # "gone"
  /\ child' = [child EXCEPT ![c] = "gone"]
  /\ UNCHANGED <<main, main_queue, inbox, refresh, pays, asked, settled, turned_down>>

MainDone ==
  /\ main = "kill" /\ Gone = Children /\ main' = "done"
  /\ UNCHANGED <<child, main_queue, inbox, refresh, pays, asked, settled, turned_down>>

\* refresh_sessions(): it ends when main is to end, or with what a session raises.
RefreshEnds ==
  /\ refresh = "runs"
  /\ \/ refresh' = "ended" /\ main # "loop"
     \/ refresh' = "failed"
  /\ UNCHANGED <<main, child, main_queue, inbox, pays, asked, settled, turned_down>>

-------------------------------------------------------------------------------
(***************************************************************************)
(* The children.                                                           *)
(***************************************************************************)
AskToPay ==
  /\ child["stripe"] = "serves" /\ pays < MaxPays /\ pays' = pays + 1
  /\ asked' = asked \cup {pays'} /\ main_queue' = Append(main_queue, PayOf(pays'))
  /\ UNCHANGED <<main, child, inbox, refresh, settled, turned_down>>

Become(c, state) == child' = [child EXCEPT ![c] = state]

TakeFrom(c) == inbox' = [inbox EXCEPT ![c] = Tail(@)]

\* Mutant: a payment that failed is left in the queue, to be tried again.
ReadWalletAgain ==
  /\ child["wallet"] = "serves" /\ inbox["wallet"] # <<>>
  /\ LET m == Head(inbox["wallet"]) IN
       \/ /\ m.do = "pay" /\ main_queue' = Append(main_queue, UnPaidOf(m.of))
          /\ UNCHANGED <<inbox, child>>
       \/ /\ TakeFrom("wallet")
          /\ main_queue' = IF m.do = "pay" THEN Append(main_queue, PaidOf(m.of)) ELSE main_queue
          /\ Become("wallet", IF m = Exit THEN "gone" ELSE "serves")
  /\ UNCHANGED <<main, refresh, pays, asked, settled, turned_down>>

ReadWallet ==
  /\ child["wallet"] = "serves" /\ inbox["wallet"] # <<>> /\ TakeFrom("wallet")
  /\ LET m == Head(inbox["wallet"]) IN
       /\ IF m.do = "pay"
          THEN \E answer \in {PaidOf(m.of), UnPaidOf(m.of)} :
                 main_queue' = Append(main_queue, answer)
          ELSE UNCHANGED main_queue
       /\ Become("wallet", IF m = Exit THEN "gone" ELSE "serves")
  /\ UNCHANGED <<main, refresh, pays, asked, settled, turned_down>>

ReadStripe ==
  /\ child["stripe"] = "serves" /\ inbox["stripe"] # <<>> /\ TakeFrom("stripe")
  /\ LET m == Head(inbox["stripe"]) IN
       /\ settled' = IF m.do = "paid" /\ m.of \in asked THEN settled \cup {m.of} ELSE settled
       /\ turned_down' = IF m.do = "unpaid" /\ m.of \in asked THEN turned_down \cup {m.of}
                         ELSE turned_down
       /\ asked' = IF m.do = "paid" THEN asked \ {m.of} ELSE asked
       /\ Become("stripe", IF m = Exit THEN "gone" ELSE "serves")
  /\ UNCHANGED <<main, main_queue, refresh, pays>>

\* The manager's thread reads its queue to the EXIT; its other threads do not end with it.
ReadManager ==
  /\ child["manager"] # "gone" /\ inbox["manager"] # <<>> /\ TakeFrom("manager")
  /\ UNCHANGED <<main, child, main_queue, refresh, pays, asked, settled, turned_down>>

\* The WireGuard services look for EXIT between two rounds.
ReadService(c) ==
  /\ child[c] = "serves" /\ inbox[c] # <<>> /\ TakeFrom(c)
  /\ Become(c, IF Head(inbox[c]) = Exit THEN "gone" ELSE "serves")
  /\ UNCHANGED <<main, main_queue, refresh, pays, asked, settled, turned_down>>

\* Something raises: the process is gone, but for the manager, whose threads keep it.
Fail(c) ==
  /\ child[c] = "serves" /\ Become(c, IF c = "manager" THEN "failed" ELSE "gone")
  /\ UNCHANGED <<main, main_queue, inbox, refresh, pays, asked, settled, turned_down>>

-------------------------------------------------------------------------------
MainStep == MainRoute \/ Notice \/ Cleanup \/ MainJoin \/ (\E c \in Children : Kill(c)) \/ MainDone
Read     == ReadWallet \/ ReadStripe \/ ReadManager \/ (\E c \in Services : ReadService(c))

MainNext == MainStep \/ Read \/ RefreshEnds \/ AskToPay \/ (\E c \in Children : Fail(c))

MainSpec == MainInit /\ [][MainNext]_main_vars

\* Main takes turns at its children and its queue, the children read, the thread looks at the end.
MainFairSpec ==
  /\ MainSpec /\ WF_main_vars(MainRoute) /\ WF_main_vars(Notice) /\ WF_main_vars(MainStep)
  /\ WF_main_vars(RefreshEnds /\ main # "loop") /\ WF_main_vars(ReadWallet) /\ WF_main_vars(ReadStripe)

-------------------------------------------------------------------------------
(***************************************************************************)
(* Properties.                                                             *)
(***************************************************************************)

(***************************************************************************)
(* The server comes to its end when one of its processes is gone, also     *)
(* when the refresh thread has failed before.                              *)
(***************************************************************************)
EndIsNoticed == ~<>[](Gone # {} /\ main # "done")

(***************************************************************************)
(* A payment that the stripe process asked for is answered to it, PAID or  *)
(* UNPAID, unless the server ends: what Payout takes for granted when it   *)
(* has the answers come.                                                   *)
(***************************************************************************)
AskedIsSettled == \A n \in Pays : ~<>[](n \in asked \ turned_down /\ main = "loop")

(***************************************************************************)
(* A payment asked for gets one answer: the stripe process never reads     *)
(* PAID for one that it was told is UNPAID.  The question and the answer   *)
(* each go through the queue of main and the queues of the children, the   *)
(* answers to everybody, among the messages about other payments: with a   *)
(* second answer the refusal that was reported would not be the end of it. *)
(***************************************************************************)
OneAnswer == settled \cap turned_down = {}

=============================================================================

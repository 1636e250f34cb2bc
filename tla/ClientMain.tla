----------------------------- MODULE ClientMain -----------------------------
(***************************************************************************)
(* The main process of the client (client.py): it starts the others, hands *)
(* their messages round (lib/messages.py, lib/queue.py), and when one of   *)
(* them is gone it asks the rest to end, waits a second for each and kills *)
(* them.                                                                   *)
(*                                                                         *)
(* A child "serves", then its main thread has "failed" or is "ending"      *)
(* while other threads keep the process alive, and then it is "gone".  A   *)
(* message is a record; the names of the queues stand for its prefix.      *)
(***************************************************************************)
EXTENDS Naturals, Sequences, FiniteSets

CONSTANTS
  MainConns,       \* connections that have a process of their own
  RunGui, RunWallet,   \* --run-gui, --run-wallet
  MayDie,      \* may a child be killed from outside?
  MaxMsgs      \* bound of the model: requests of the user

ClientMainAssumption ==
  /\ IsFiniteSet(MainConns) /\ MaxMsgs \in Nat
  /\ RunGui \in BOOLEAN /\ RunWallet \in BOOLEAN /\ MayDie \in BOOLEAN

VARIABLES
  main,      \* what the main process is at
  child,     \* the children, by name
  main_queue,     \* the general queue, read by main
  inbox,     \* the queues of the children
  main_conns,     \* connections whose process runs
  rpc,       \* does the wallet's RPC process run?
  main_auto,      \* does the auto_connect thread run?
  exit,      \* ctrl["should_exit"], for that thread
  main_requests,  \* number of requests so far
  forced     \* children that were killed, or died without their stop()

main_work == <<main_conns, rpc>>
main_vars == <<main, child, main_queue, inbox, main_work, main_auto, exit, main_requests, forced>>

Children == {"proxy", "wallet", "daemon", "http"} \cup (IF RunGui THEN {"gui"} ELSE {})
MainMessage  == [to : {"proxy"}, do : {"connect", "disconnect"}, conn : MainConns]
            \cup [to : {"wallet"}, do : {"pay"}] \cup [to : {"all"}, do : {"paid", "exit"}]
Exit     == [to |-> "all", do |-> "exit"]

MainTypeOK ==
  /\ main \in {"loop", "last", "stop", "join", "kill", "auto", "done"}
  /\ child \in [Children -> {"opening", "serves", "failed", "ending", "gone"}]
  /\ main_queue \in Seq(MainMessage) /\ DOMAIN inbox = Children
  /\ \A c \in Children : inbox[c] \in Seq({m \in MainMessage : m.to \in {c, "all"}})
  /\ main_conns \subseteq MainConns /\ rpc \in BOOLEAN /\ main_auto \in BOOLEAN /\ exit \in BOOLEAN
  /\ main_requests \in 0..MaxMsgs /\ forced \subseteq Children

\* The wallet process first opens the wallet, and reads no message before that.
MainInit ==
  /\ main = "loop"
  /\ child = [c \in Children |-> IF c = "wallet" THEN "opening" ELSE "serves"]
  /\ main_queue = <<>> /\ inbox = [c \in Children |-> <<>>]
  /\ main_conns = {} /\ rpc = RunWallet
  /\ main_auto = TRUE /\ exit = FALSE /\ main_requests = 0 /\ forced = {}

Put(m) == main_queue' = Append(main_queue, m)

-------------------------------------------------------------------------------
(***************************************************************************)
(* Requests of the user, by the GUI or the HTTP manager.                   *)
(***************************************************************************)
MainRequest ==
  /\ main_requests < MaxMsgs /\ main_requests' = main_requests + 1
  /\ \E c \in {"gui", "http"} \cap Children : child[c] = "serves"
  /\ \/ \E c \in MainConns :
          \/ Put([to |-> "proxy", do |-> "connect", conn |-> c])
          \/ c \in main_conns /\ Put([to |-> "proxy", do |-> "disconnect", conn |-> c])
     \/ Put([to |-> "wallet", do |-> "pay"])
  /\ UNCHANGED <<main, child, inbox, main_work, main_auto, exit, forced>>

-------------------------------------------------------------------------------
(***************************************************************************)
(* The main loop.                                                          *)
(***************************************************************************)
PutIn(ms) == inbox' = [c \in Children |-> inbox[c] \o ms[c]]

ToAll(m) ==
  [c \in Children |-> IF c \in {"gui", "proxy", "http"} \/ RunWallet THEN <<m>> ELSE <<>>]

\* Mutant: messages to the wallet go to the proxy.
RouteAstray ==
  /\ main = "loop" /\ main_queue # <<>> /\ main_queue' = Tail(main_queue)
  /\ PutIn([c \in Children |-> IF c = "proxy" THEN <<Head(main_queue)>> ELSE <<>>])
  /\ UNCHANGED <<main, child, main_work, main_auto, exit, main_requests, forced>>

MainRoute ==
  /\ main \in {"loop", "last"} /\ main_queue # <<>> /\ main_queue' = Tail(main_queue)
  /\ LET m == Head(main_queue) IN
       PutIn(IF m.to = "all" THEN ToAll(m)
            ELSE [c \in Children |-> IF c = m.to /\ (c = "wallet" => RunWallet) THEN <<m>> ELSE <<>>])
  /\ main' = IF main = "last" THEN "stop" ELSE "loop"
  /\ UNCHANGED <<child, main_work, main_auto, exit, main_requests, forced>>

NoneLast ==
  /\ main = "last" /\ main_queue = <<>> /\ main' = "stop"
  /\ UNCHANGED <<child, main_queue, inbox, main_work, main_auto, exit, main_requests, forced>>

Gone == {c \in Children : child[c] = "gone"}

\* A child is gone: the loop ends, after one more message.
Notice ==
  /\ main = "loop" /\ Gone # {} /\ main' = "last"
  /\ PutIn([c \in Children |-> IF c \in {"gui", "wallet", "daemon"} THEN <<Exit>> ELSE <<>>])
  /\ UNCHANGED <<child, main_queue, main_work, main_auto, exit, main_requests, forced>>

\* The connections of ctrl["connections"] are to be closed, then the proxy is to end.
Stop ==
  /\ main = "stop" /\ main' = "join"
  /\ \E order \in [1..Cardinality(main_conns) -> main_conns] :
       /\ main_conns = {order[i] : i \in DOMAIN order}
       /\ PutIn([c \in Children |->
            IF c # "proxy" THEN <<>>
            ELSE Append([i \in DOMAIN order |->
                           [to |-> "proxy", do |-> "disconnect", conn |-> order[i]]],
                        Exit)])
  /\ UNCHANGED <<child, main_queue, main_work, main_auto, exit, main_requests, forced>>

\* join() waits a second for each child, whatever the child is doing.
Join ==
  /\ main = "join" /\ main' = "kill"
  /\ UNCHANGED <<child, main_queue, inbox, main_work, main_auto, exit, main_requests, forced>>

KillChild(c) ==
  /\ main = "kill" /\ child[c] # "gone"
  /\ child' = [child EXCEPT ![c] = "gone"] /\ forced' = forced \cup {c}
  /\ UNCHANGED <<main, main_queue, inbox, main_work, main_auto, exit, main_requests>>

Killed ==
  /\ main = "kill" /\ Gone = Children
  /\ main' = "auto" /\ exit' = TRUE
  /\ UNCHANGED <<child, main_queue, inbox, main_work, main_auto, main_requests, forced>>

Done ==
  /\ main = "auto" /\ ~main_auto /\ main' = "done"
  /\ UNCHANGED <<child, main_queue, inbox, main_work, main_auto, exit, main_requests, forced>>

AutoEnds ==
  /\ main_auto /\ exit /\ main_auto' = FALSE
  /\ UNCHANGED <<main, child, main_queue, inbox, main_work, exit, main_requests, forced>>

-------------------------------------------------------------------------------
(***************************************************************************)
(* The children: Service.run() and what each one makes of it.              *)
(***************************************************************************)
Become(c, state) == child' = [child EXCEPT ![c] = state]

\* Proxy.loop(): one message at a time.  After EXIT it waits for its threads, up to a minute.
ReadProxy ==
  /\ child["proxy"] = "serves" /\ inbox["proxy"] # <<>>
  /\ LET m == Head(inbox["proxy"]) IN
       /\ main_conns' = CASE m.do = "connect" -> main_conns \cup {m.conn}
                     [] m.do = "disconnect" -> main_conns \ {m.conn}
                     [] OTHER -> main_conns
       /\ Become("proxy", IF m = Exit THEN "ending" ELSE "serves")
  /\ inbox' = [inbox EXCEPT !["proxy"] = Tail(@)]
  /\ UNCHANGED <<main, main_queue, rpc, main_auto, exit, main_requests, forced>>

\* Mutant: stop() leaves the processes of the connections alone.
StopProxyLeaves ==
  /\ child["proxy"] \in {"ending", "failed"} /\ Become("proxy", "gone")
  /\ UNCHANGED <<main, main_queue, inbox, main_work, main_auto, exit, main_requests, forced>>

\* Proxy.stop(), and the end of the threads.
StopProxy ==
  /\ child["proxy"] \in {"ending", "failed"} /\ Become("proxy", "gone")
  /\ main_conns' = {}
  /\ UNCHANGED <<main, main_queue, inbox, rpc, main_auto, exit, main_requests, forced>>

\* ClientWallet.postinit(): until the wallet can be opened, it tries again.
OpenWallet ==
  /\ child["wallet"] = "opening" /\ (RunWallet => rpc) /\ Become("wallet", "serves")
  /\ UNCHANGED <<main, main_queue, inbox, main_work, main_auto, exit, main_requests, forced>>

\* Wallet.loop(): a payment is answered, PAID or UNPAID alike.
ReadWallet ==
  /\ child["wallet"] = "serves" /\ inbox["wallet"] # <<>>
  /\ LET m == Head(inbox["wallet"]) IN
       /\ IF m.do = "pay" THEN Put([to |-> "all", do |-> "paid"]) ELSE UNCHANGED main_queue
       /\ Become("wallet", IF m = Exit THEN "ending" ELSE "serves")
  /\ inbox' = [inbox EXCEPT !["wallet"] = Tail(@)]
  /\ UNCHANGED <<main, main_work, main_auto, exit, main_requests, forced>>

StopWallet ==
  /\ child["wallet"] \in {"ending", "failed"} /\ Become("wallet", "gone")
  /\ rpc' = FALSE
  /\ UNCHANGED <<main, main_queue, inbox, main_conns, main_auto, exit, main_requests, forced>>

\* The wallet's RPC process ends: with an error code the loop ends, with 0 it goes on; while
\* the wallet is being opened nobody looks.
RpcEnds ==
  /\ rpc /\ rpc' = FALSE
  /\ \/ UNCHANGED child
     \/ child["wallet"] = "serves" /\ Become("wallet", "ending")
  /\ UNCHANGED <<main, main_queue, inbox, main_conns, main_auto, exit, main_requests, forced>>

\* Service.loop() of the daemon's process.
ReadDaemon ==
  /\ child["daemon"] = "serves" /\ inbox["daemon"] # <<>>
  /\ Become("daemon", IF Head(inbox["daemon"]) = Exit THEN "gone" ELSE "serves")
  /\ inbox' = [inbox EXCEPT !["daemon"] = Tail(@)]
  /\ UNCHANGED <<main, main_queue, main_work, main_auto, exit, main_requests, forced>>

\* The GUI reads its messages and knows no EXIT; it ends when its window is closed.
ReadGui ==
  /\ RunGui /\ child["gui"] = "serves" /\ inbox["gui"] # <<>>
  /\ inbox' = [inbox EXCEPT !["gui"] = Tail(@)]
  /\ UNCHANGED <<main, child, main_queue, main_work, main_auto, exit, main_requests, forced>>

CloseGui ==
  /\ RunGui /\ child["gui"] = "serves" /\ Become("gui", "gone")
  /\ UNCHANGED <<main, main_queue, inbox, main_work, main_auto, exit, main_requests, forced>>

\* Something raises: the threads of the proxy end in time and so does the wallet's, those of the
\* HTTP manager never; the daemon's process has the end of its thread in stop().
Fail(c) ==
  /\ child[c] \in {"serves", "opening"}
  /\ Become(c, IF c \in {"gui", "daemon"} THEN "gone" ELSE "failed")
  /\ UNCHANGED <<main, main_queue, inbox, main_work, main_auto, exit, main_requests, forced>>

\* A child is killed from outside, with no chance to stop what it has started.
Die(c) ==
  /\ MayDie /\ main = "loop" /\ child[c] # "gone"
  /\ Become(c, "gone") /\ forced' = forced \cup {c}
  /\ UNCHANGED <<main, main_queue, inbox, main_work, main_auto, exit, main_requests>>

-------------------------------------------------------------------------------
MainLoopStep ==
  MainRoute \/ NoneLast \/ Notice \/ Stop \/ Join \/ (\E c \in Children : KillChild(c)) \/ Killed \/ Done

MainNext ==
  \/ MainRequest \/ MainLoopStep \/ AutoEnds
  \/ ReadProxy \/ StopProxy \/ OpenWallet \/ ReadWallet \/ StopWallet \/ RpcEnds
  \/ ReadDaemon \/ ReadGui \/ CloseGui \/ (\E c \in Children : Fail(c) \/ Die(c))

MainSpec == MainInit /\ [][MainNext]_main_vars

-------------------------------------------------------------------------------
(***************************************************************************)
(* Properties.                                                             *)
(***************************************************************************)

(***************************************************************************)
(* A proxy that ends of itself leaves no process of a connection behind,   *)
(* and the wallet none of its RPC: only when they are killed may one stay. *)
(***************************************************************************)
EndsClean ==
  /\ child["proxy"] = "gone" /\ "proxy" \notin forced => main_conns = {}
  /\ child["wallet"] = "gone" /\ "wallet" \notin forced => ~rpc

=============================================================================

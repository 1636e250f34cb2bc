-------------------------------- MODULE Payout --------------------------------
(***************************************************************************)
(* Payments by card that are passed on in coins.  The customer pays a      *)
(* payment intent of the card service; StripeManager (server/stripe.py)    *)
(* lists the intents and asks the wallet process, through the main loop of *)
(* server.py, to send the coins; the wallet (lib/wallet.py) answers PAID   *)
(* or UNPAID to everybody; StripeManager marks the intent as paid.         *)
(*                                                                         *)
(* A message carries wallet address, amount and payment id but not the     *)
(* intent, and is the key under which StripeManager remembers the intent:  *)
(* here a Key.  Two intents of one customer may have the same.             *)
(***************************************************************************)
EXTENDS Naturals, Sequences, SequencesExt, FiniteSets, NoValue

CONSTANTS
  Intents,         \* payment intents
  Keys,            \* what a message to the wallet says
  KeyOf,           \* the message for each intent
  Amount,          \* coins to send, by message
  PageSize,        \* intents in one answer of the card service
  AnswersPerScan,  \* messages read between two scans
  Coins,           \* coins in the wallet at first
  Faults,          \* calls that may fail: "transfer", "reply", "timeout", "balance", "mark"
  MaxTopUps, MaxCrashes   \* bounds of the model

KeyAssumption == KeyOf \in [Intents -> Keys] /\ Amount \in [Keys -> Nat \ {0}]
PayNoneAssumption == None \notin Intents \cup Keys
PayoutBounds ==
  /\ PageSize \in Nat \ {0} /\ AnswersPerScan \in Nat \ {0} /\ Coins \in Nat
  /\ Faults \subseteq {"transfer", "reply", "timeout", "balance", "mark"}
  /\ MaxTopUps \in Nat /\ MaxCrashes \in Nat

VARIABLES
  created,    \* the intents, oldest first
  succeeded,  \* intents the customer has paid
  marked,     \* intents whose metadata say that they are paid out
  waiting,    \* _messages: the intent for which a message was sent
  seen,       \* how many intents there were at the last scan
  first,      \* is the next scan the first one, which looks back for 30 days?
  mode,       \* what StripeManager does: "list", "check" or "answers"
  todo,       \* succeeded and unmarked intents of the list, still to check
  turns,      \* messages it may still read before the next scan
  queue, wallet_queue, stripe_queue,   \* messages, oldest first
  paying,     \* the message the wallet works on, or None
  unlocked, locked,   \* the coins of the wallet
  made,       \* transfers made, by message
  timedOut,   \* transfers not made, for which the call timed out
  unmarked,   \* transfers reported as paid whose intent could not be marked
  found,      \* paid intents that a scan has seen
  overlooked, \* those a scan passed over, and those off the page of the scan after a restart
  refused,    \* messages answered with UNPAID since the start
  topups, crashes

card       == <<created, succeeded, marked>>
manager    == <<waiting, seen, first, mode, todo, turns>>
queues     == <<queue, wallet_queue, stripe_queue>>
coins      == <<unlocked, locked, made>>
scans      == <<found, overlooked>>
pay_past   == <<timedOut, unmarked, refused, scans>>
pay_bounds == <<topups, crashes>>
pay_vars   == <<card, manager, queues, paying, coins, pay_past, pay_bounds>>

Pay(k)    == [type |-> "Pay", key |-> k]
Paid(k)   == [type |-> "Paid", key |-> k]
UnPaid(k) == [type |-> "UnPaid", key |-> k]
Message   == [type : {"Pay", "Paid", "UnPaid"}, key : Keys]

PayTypeOK ==
  /\ created \in Seq(Intents) /\ succeeded \subseteq Intents /\ marked \subseteq Intents
  /\ waiting \in [Keys -> Intents \cup {None}]
  /\ seen \in Nat /\ first \in BOOLEAN /\ mode \in {"list", "check", "answers"}
  /\ todo \subseteq Intents /\ turns \in 0..AnswersPerScan
  /\ {queue, wallet_queue, stripe_queue} \subseteq Seq(Message)
  /\ paying \in Keys \cup {None}
  /\ unlocked \in Nat /\ locked \in Nat /\ made \in [Keys -> Nat]
  /\ timedOut \in [Keys -> Nat] /\ unmarked \in [Keys -> Nat] /\ refused \subseteq Keys
  /\ found \subseteq Intents /\ overlooked \subseteq Intents
  /\ topups \in 0..MaxTopUps /\ crashes \in 0..MaxCrashes

PayInit ==
  /\ created = <<>> /\ succeeded = {} /\ marked = {}
  /\ waiting = [k \in Keys |-> None]
  /\ seen = 0 /\ first = TRUE /\ mode = "list" /\ todo = {} /\ turns = 0
  /\ queue = <<>> /\ wallet_queue = <<>> /\ stripe_queue = <<>>
  /\ paying = None /\ unlocked = Coins /\ locked = 0
  /\ made = [k \in Keys |-> 0]
  /\ timedOut = [k \in Keys |-> 0] /\ unmarked = [k \in Keys |-> 0] /\ refused = {}
  /\ found = {} /\ overlooked = {}
  /\ topups = 0 /\ crashes = 0

-------------------------------------------------------------------------------
(***************************************************************************)
(* Customers.  An intent is created when the customer opens the payment    *)
(* link, and succeeds later or never.                                      *)
(***************************************************************************)
Create(p) ==
  /\ p \notin ToSet(created)
  /\ created' = Append(created, p)
  /\ UNCHANGED <<succeeded, marked, manager, queues, paying, coins, pay_past, pay_bounds>>

Succeed(p) ==
  /\ p \in ToSet(created) \ succeeded
  /\ succeeded' = succeeded \cup {p}
  /\ UNCHANGED <<created, marked, manager, queues, paying, coins, pay_past, pay_bounds>>

-------------------------------------------------------------------------------
(***************************************************************************)
(* StripeManager.loop().                                                   *)
(***************************************************************************)

\* The last n elements of a sequence.
Newest(s, n) == IF Len(s) <= n THEN s ELSE SubSeq(s, Len(s) - n + 1, Len(s))

(***************************************************************************)
(* A scan looks back for 30 days, here for ever, after a start, and later  *)
(* for the 300 seconds that the loop waits at least between two scans: it  *)
(* finds none of the intents the scan before could see, and may miss the   *)
(* oldest of those that were created since.                                *)
(***************************************************************************)
ListIntents ==
  /\ mode = "list"
  /\ \E from \in (IF first THEN {1} ELSE seen + 1 .. Len(created) + 1) :
       LET page == ToSet(Newest(SubSeq(created, from, Len(created)), PageSize))
       IN /\ todo' = (page \cap succeeded) \ marked
          /\ found' = found \cup todo'
          /\ overlooked' = IF first THEN found \ (marked \cup page) ELSE overlooked
  /\ seen' = Len(created)
  /\ mode' = "check"
  /\ UNCHANGED <<card, waiting, first, turns, queues, paying, coins, timedOut, unmarked, refused,
                 pay_bounds>>

\* Mutant: the message is sent without being remembered.
CheckForgets(p) ==
  /\ mode = "check" /\ p \in todo
  /\ todo' = todo \ {p}
  /\ queue' = Append(queue, Pay(KeyOf[p]))
  /\ UNCHANGED <<card, waiting, seen, first, mode, turns, wallet_queue, stripe_queue, paying,
                 coins, pay_past, pay_bounds>>

(***************************************************************************)
(* One intent of the list: the wallet is asked, unless the same message    *)
(* waits for its answer.  Then the intent is passed over, and no scan will *)
(* list it again before a restart.                                         *)
(***************************************************************************)
Check(p) ==
  /\ mode = "check" /\ p \in todo
  /\ todo' = todo \ {p}
  /\ \/ /\ waiting[KeyOf[p]] = None
        /\ waiting' = [waiting EXCEPT ![KeyOf[p]] = p]
        /\ queue' = Append(queue, Pay(KeyOf[p]))
        /\ UNCHANGED overlooked
     \/ /\ waiting[KeyOf[p]] # None
        /\ overlooked' = overlooked \cup {p}
        /\ UNCHANGED <<waiting, queue>>
  /\ UNCHANGED <<card, seen, first, mode, turns, wallet_queue, stripe_queue, paying, coins,
                 timedOut, unmarked, refused, found, pay_bounds>>

EndScan ==
  /\ mode = "check" /\ todo = {}
  /\ mode' = "answers"
  /\ turns' = AnswersPerScan
  /\ UNCHANGED <<card, waiting, seen, first, todo, queues, paying, coins, pay_past, pay_bounds>>

\* Mutant: any answer marks the intent.
ReadAnswerAny ==
  /\ mode = "answers" /\ turns > 0 /\ stripe_queue # <<>>
  /\ turns' = turns - 1
  /\ stripe_queue' = Tail(stripe_queue)
  /\ LET k == Head(stripe_queue).key IN
       /\ marked' = marked \cup ({waiting[k]} \ {None})
       /\ waiting' = [waiting EXCEPT ![k] = None]
  /\ UNCHANGED <<created, succeeded, seen, first, mode, todo, queue, wallet_queue, paying,
                 coins, pay_past, pay_bounds>>

(***************************************************************************)
(* A message for everybody: PAID marks the intent that waits for it, and   *)
(* when that fails the intent is forgotten all the same.  UNPAID changes   *)
(* nothing: the intent goes on waiting.                                    *)
(***************************************************************************)
ReadAnswer ==
  /\ mode = "answers" /\ turns > 0 /\ stripe_queue # <<>>
  /\ turns' = turns - 1
  /\ stripe_queue' = Tail(stripe_queue)
  /\ LET k == Head(stripe_queue).key IN
       \/ /\ Head(stripe_queue).type = "Paid" /\ waiting[k] # None
          /\ \/ marked' = marked \cup {waiting[k]} /\ UNCHANGED unmarked
             \/ /\ "mark" \in Faults
                /\ unmarked' = [unmarked EXCEPT ![k] = @ + 1]
                /\ UNCHANGED marked
          /\ waiting' = [waiting EXCEPT ![k] = None]
       \/ /\ Head(stripe_queue).type = "UnPaid" \/ waiting[k] = None
          /\ UNCHANGED <<marked, unmarked, waiting>>
  /\ UNCHANGED <<created, succeeded, seen, first, mode, todo, queue, wallet_queue, paying,
                 coins, timedOut, refused, scans, pay_bounds>>

\* The next scan looks back for 300 seconds only.
EndAnswers ==
  /\ mode = "answers" /\ (turns = 0 \/ stripe_queue = <<>>)
  /\ mode' = "list"
  /\ turns' = 0 /\ first' = FALSE
  /\ UNCHANGED <<card, waiting, seen, todo, queues, paying, coins, pay_past, pay_bounds>>

-------------------------------------------------------------------------------
\* The main loop of server.py: one message, to the wallet or to everybody.
Route ==
  /\ queue # <<>>
  /\ queue' = Tail(queue)
  /\ wallet_queue' = Append(wallet_queue, Head(queue))
  /\ stripe_queue' = IF Head(queue).type = "Pay" THEN stripe_queue
                     ELSE Append(stripe_queue, Head(queue))
  /\ UNCHANGED <<card, manager, paying, coins, pay_past, pay_bounds>>

-------------------------------------------------------------------------------
(***************************************************************************)
(* The wallet process: one message per round of its loop.                  *)
(***************************************************************************)
TakeMessage ==
  /\ paying = None /\ wallet_queue # <<>>
  /\ wallet_queue' = Tail(wallet_queue)
  /\ paying' = IF Head(wallet_queue).type = "Pay" THEN Head(wallet_queue).key ELSE None
  /\ UNCHANGED <<card, manager, queue, stripe_queue, coins, pay_past, pay_bounds>>

\* The answer to message k goes to the main loop.
Answer(k, ok) ==
  /\ queue' = Append(queue, IF ok THEN Paid(k) ELSE UnPaid(k))
  /\ refused' = IF ok THEN refused ELSE refused \cup {k}
  /\ paying' = None

\* transfer() gives up: the balance is unknown or too small.
CannotPay ==
  /\ paying # None
  /\ unlocked + locked < Amount[paying] \/ "balance" \in Faults
  /\ Answer(paying, FALSE)
  /\ UNCHANGED <<card, manager, wallet_queue, stripe_queue, coins, timedOut, unmarked, scans,
                 pay_bounds>>

\* Mutant: it is not looked whether the coins are unlocked.
TransferLocked ==
  /\ paying # None
  /\ made' = [made EXCEPT ![paying] = @ + 1]
  /\ unlocked' = unlocked - Amount[paying]
  /\ Answer(paying, TRUE)
  /\ UNCHANGED <<card, manager, wallet_queue, stripe_queue, locked, timedOut, unmarked, scans,
                 pay_bounds>>

\* Mutant: a call whose reply was lost is made again.
TransferAgain ==
  /\ paying # None /\ unlocked >= Amount[paying]
  /\ made' = [made EXCEPT ![paying] = @ + 1]
  /\ unlocked' = unlocked - Amount[paying]
  /\ \/ Answer(paying, TRUE)
     \/ "reply" \in Faults /\ UNCHANGED <<queue, refused, paying>>
  /\ UNCHANGED <<card, manager, wallet_queue, stripe_queue, locked, timedOut, unmarked, scans,
                 pay_bounds>>

(***************************************************************************)
(* The coins are sent; some of the change is locked for a while.  With too *)
(* few unlocked coins transfer() waits and starts again, so nothing        *)
(* happens until they are.  A reply that is lost is an error (UNPAID), one *)
(* that is late is none: rpc() returns False, which nobody looks at.       *)
(***************************************************************************)
SendCoins ==
  /\ paying # None /\ unlocked >= Amount[paying]
  /\ made' = [made EXCEPT ![paying] = @ + 1]
  /\ \E change \in {0, unlocked - Amount[paying]} :
       /\ unlocked' = unlocked - Amount[paying] - change
       /\ locked' = locked + change
  /\ \E ok \in {TRUE} \cup (IF "reply" \in Faults THEN {FALSE} ELSE {}) : Answer(paying, ok)
  /\ UNCHANGED <<card, manager, wallet_queue, stripe_queue, timedOut, unmarked, scans, pay_bounds>>

\* The wallet daemon refuses the transfer, or is not reached.
TransferFails ==
  /\ "transfer" \in Faults
  /\ paying # None /\ unlocked >= Amount[paying]
  /\ Answer(paying, FALSE)
  /\ UNCHANGED <<card, manager, wallet_queue, stripe_queue, coins, timedOut, unmarked, scans,
                 pay_bounds>>

\* The call times out and the transfer is not made: it is reported as paid.
TransferTimesOut ==
  /\ "timeout" \in Faults
  /\ paying # None /\ unlocked >= Amount[paying]
  /\ timedOut' = [timedOut EXCEPT ![paying] = @ + 1]
  /\ Answer(paying, TRUE)
  /\ UNCHANGED <<card, manager, wallet_queue, stripe_queue, coins, unmarked, scans, pay_bounds>>

Unlock ==
  /\ locked > 0
  /\ unlocked' = unlocked + locked /\ locked' = 0
  /\ UNCHANGED <<card, manager, queues, paying, made, pay_past, pay_bounds>>

TopUp ==
  /\ topups < MaxTopUps
  /\ topups' = topups + 1
  /\ locked' = locked + 1
  /\ UNCHANGED <<card, manager, queues, paying, unlocked, made, pay_past, crashes>>

(***************************************************************************)
(* The server stops, by itself when one of its processes ends (listing the *)
(* intents raises when the card service is not reached), and starts again. *)
(***************************************************************************)
Crash ==
  /\ crashes < MaxCrashes
  /\ crashes' = crashes + 1
  /\ waiting' = [k \in Keys |-> None]
  /\ seen' = 0 /\ first' = TRUE /\ mode' = "list" /\ todo' = {} /\ turns' = 0
  /\ queue' = <<>> /\ wallet_queue' = <<>> /\ stripe_queue' = <<>>
  /\ paying' = None /\ refused' = {}
  /\ UNCHANGED <<card, coins, timedOut, unmarked, scans, topups>>

-------------------------------------------------------------------------------
ManagerStep == ListIntents \/ (\E p \in Intents : Check(p)) \/ EndScan \/ ReadAnswer \/ EndAnswers
WalletStep  == TakeMessage \/ CannotPay \/ SendCoins \/ TransferFails \/ TransferTimesOut

PayNext ==
  \/ \E p \in Intents : Create(p) \/ Succeed(p)
  \/ ManagerStep \/ Route \/ WalletStep
  \/ Unlock \/ TopUp \/ Crash

PaySpec == PayInit /\ [][PayNext]_pay_vars

\* The three loops go on for ever, and locked coins are unlocked in the end.
PayFairSpec ==
  /\ PaySpec
  /\ WF_pay_vars(ManagerStep) /\ WF_pay_vars(Route)
  /\ WF_pay_vars(WalletStep) /\ WF_pay_vars(Unlock)

-------------------------------------------------------------------------------
(***************************************************************************)
(* Properties.                                                             *)
(***************************************************************************)
Count(S, k) == Cardinality({p \in S : KeyOf[p] = k})

(***************************************************************************)
(* No customer is marked as served without coins having been sent for that *)
(* very payment: equal messages, late answers and restarts included.  The  *)
(* exceptions are the calls that timed out, one mark for each.             *)
(***************************************************************************)
MarkedWerePaid == \A k \in Keys : Count(marked, k) <= made[k] + timedOut[k]

(***************************************************************************)
(* Coins are sent once for each payment by card.  Each transfer too many   *)
(* goes back to a mark that failed or to a restart, and a restart costs at *)
(* most one transfer for each message.                                     *)
(***************************************************************************)
OverpaymentBounded ==
  \A k \in Keys : made[k] <= Count(succeeded, k) + unmarked[k] + crashes

(***************************************************************************)
(* A payment that a scan has found is marked in the end, unless the wallet *)
(* refused it or marking failed: also when the wallet waits for coins to   *)
(* be unlocked, answers come faster than they are read, and the server     *)
(* starts again on the way.  It is not when the scans overlook it: the     *)
(* same message waits for its answer, so that it is passed over and not    *)
(* listed again, or newer ones fill the page of the scan after a restart.  *)
(***************************************************************************)
FoundIsServed ==
  \A p \in Intents :
    ~<>[](/\ p \in found \ (marked \cup overlooked)
          /\ KeyOf[p] \notin refused /\ unmarked[KeyOf[p]] = 0)
==============================================================================

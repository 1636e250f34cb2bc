----------------------------- MODULE PaymentLinks -----------------------------
(***************************************************************************)
(* The payment links of the card service.  A server has a few of them and  *)
(* lends one to each customer who asks for it (stripe_payment() of         *)
(* server/http.py, a thread per request): the link is made active and its  *)
(* metadata say whom a payment is for.  After ten minutes the link is      *)
(* disabled, by a later request or by StripeManager, and may be lent again.*)
(* Each call to the card service is one step.                              *)
(***************************************************************************)
EXTENDS Naturals, Sequences, SequencesExt, NoValue

CONSTANTS
  Links,        \* the links of --stripe-plink-id, in their order
  Customers,    \* each asks with a wallet and a payment id of its own
  Sweeper,      \* StripeManager
  Term,         \* the ten minutes
  CallsFail,    \* can calls to the card service fail?
  MaxLinkClock, MaxRequests   \* bounds of the model

LinkAssumption ==
  /\ Links \in Seq(ToSet(Links)) /\ Links # <<>>
  /\ Sweeper \notin Customers /\ None \notin Customers
  /\ Term \in Nat \ {0} /\ CallsFail \in BOOLEAN
  /\ MaxLinkClock \in Nat \ {0} /\ MaxRequests \in Nat

VARIABLES
  link,      \* what the card service knows of each link
  user_at,        \* the place in Links of each user's loop, 0: it has none
  doing,     \* the call that comes next: "retrieve", "disable" or "take"
  link_clock,
  requests,
  link_copy,      \* the link each user has retrieved
  raced      \* links whose last change was made by a user with an older copy

link_vars == <<link, user_at, doing, link_clock, requests, link_copy, raced>>

Users == Customers \cup {Sweeper}
KnownLinks == ToSet(Links)
Link  == [active : BOOLEAN, updated : 0..MaxLinkClock, owner : Customers \cup {None}]

LinkTypeOK ==
  /\ link \in [KnownLinks -> Link]
  /\ user_at \in [Users -> 0..Len(Links)]
  /\ doing \in [Users -> {"retrieve", "disable", "take"}]
  /\ link_clock \in 1..MaxLinkClock /\ requests \in 0..MaxRequests
  /\ link_copy \in [Users -> Link \cup {None}] /\ raced \subseteq KnownLinks

\* Links without metadata, as they are when the operator has created them.
LinkInit ==
  /\ link = [l \in KnownLinks |-> [active |-> TRUE, updated |-> 0, owner |-> None]]
  /\ user_at = [u \in Users |-> 0]
  /\ doing = [u \in Users |-> "retrieve"]
  /\ link_copy = [u \in Users |-> None]
  /\ link_clock = 1 /\ requests = 0 /\ raced = {}

Current(u) == Links[user_at[u]]
Expired(l) == link[l].updated + Term < link_clock
Lent(l)    == link[l].updated > 0 /\ ~Expired(l)

\* User u has seen its link and goes on with call next, or with the next link, or ends.
GoOn(u, next) ==
  /\ doing' = [doing EXCEPT ![u] = next]
  /\ link_copy' = [link_copy EXCEPT ![u] = link[Current(u)]]
  /\ UNCHANGED user_at
Leave(u, place) ==
  /\ user_at' = [user_at EXCEPT ![u] = place]
  /\ doing' = [doing EXCEPT ![u] = "retrieve"]
  /\ link_copy' = [link_copy EXCEPT ![u] = None]
Advance(u) == Leave(u, (user_at[u] + 1) % (Len(Links) + 1))
End(u)     == Leave(u, 0)

\* The link of user u becomes new, whatever the link is by now.
Modify(u, new) ==
  LET l == Current(u) IN
    /\ link' = [link EXCEPT ![l] = new]
    /\ raced' = IF link_copy[u] # link[l] THEN raced \cup {l} ELSE raced \ {l}

-------------------------------------------------------------------------------
\* stripe_payment(), with a price for the coin: without one the request ends here (501).
Request(c) ==
  /\ user_at[c] = 0 /\ requests < MaxRequests
  /\ requests' = requests + 1
  /\ user_at' = [user_at EXCEPT ![c] = 1]
  /\ UNCHANGED <<link, doing, link_copy, link_clock, raced>>

\* Mutant: a link that is lent is disabled at once.
RetrieveLent(c) ==
  /\ user_at[c] # 0 /\ doing[c] = "retrieve"
  /\ LET l == Current(c) IN
       \/ (link[l].updated = 0 \/ ~link[l].active) /\ GoOn(c, "take")
       \/ link[l].updated > 0 /\ link[l].active /\ GoOn(c, "disable")
  /\ UNCHANGED <<link, link_clock, requests, raced>>

(***************************************************************************)
(* A round of the loop over the links: a link without metadata or one that *)
(* is disabled is taken, one that has expired is disabled, for a later     *)
(* request to take.                                                        *)
(***************************************************************************)
Retrieve(c) ==
  /\ user_at[c] # 0 /\ doing[c] = "retrieve"
  /\ LET l == Current(c) IN
       \/ (link[l].updated = 0 \/ ~link[l].active) /\ GoOn(c, "take")
       \/ link[l].updated > 0 /\ link[l].active /\ Expired(l) /\ GoOn(c, "disable")
       \/ Lent(l) /\ link[l].active /\ Advance(c)
  /\ UNCHANGED <<link, link_clock, requests, raced>>

Disable(u) ==
  /\ user_at[u] # 0 /\ doing[u] = "disable"
  /\ Modify(u, [link[Current(u)] EXCEPT !.active = FALSE])
  /\ Advance(u)
  /\ UNCHANGED <<link_clock, requests>>

\* The link is handed to the customer.
TakeLink(c) ==
  /\ user_at[c] # 0 /\ doing[c] = "take"
  /\ Modify(c, [active |-> TRUE, updated |-> link_clock, owner |-> c])
  /\ End(c)
  /\ UNCHANGED <<link_clock, requests>>

\* Any call of a request fails: the customer is told to come again (502).
RequestFails(c) ==
  /\ CallsFail /\ user_at[c] # 0
  /\ End(c)
  /\ UNCHANGED <<link, link_clock, requests, raced>>

-------------------------------------------------------------------------------
\* update_old_plinks(), after each scan of the payments.
Sweep ==
  /\ user_at[Sweeper] = 0
  /\ user_at' = [user_at EXCEPT ![Sweeper] = 1]
  /\ UNCHANGED <<link, doing, link_copy, link_clock, requests, raced>>

SweepRetrieve ==
  /\ user_at[Sweeper] # 0 /\ doing[Sweeper] = "retrieve"
  /\ LET l == Current(Sweeper) IN
       \/ link[l].updated > 0 /\ Expired(l) /\ GoOn(Sweeper, "disable")
       \/ (link[l].updated = 0 \/ Lent(l)) /\ Advance(Sweeper)
  /\ UNCHANGED <<link, link_clock, requests, raced>>

\* A call that fails leaves the link to the next sweep.
SweepFails ==
  /\ CallsFail /\ user_at[Sweeper] # 0
  /\ Advance(Sweeper)
  /\ UNCHANGED <<link, link_clock, requests, raced>>

LinkTick ==
  /\ link_clock < MaxLinkClock
  /\ link_clock' = link_clock + 1
  /\ UNCHANGED <<link, user_at, doing, link_copy, requests, raced>>

-------------------------------------------------------------------------------
Serve(c) == Request(c) \/ Retrieve(c) \/ Disable(c) \/ TakeLink(c) \/ RequestFails(c)
SweepStep == Sweep \/ SweepRetrieve \/ Disable(Sweeper) \/ SweepFails

LinkNext == (\E c \in Customers : Serve(c)) \/ SweepStep \/ LinkTick

LinkSpec == LinkInit /\ [][LinkNext]_link_vars

-------------------------------------------------------------------------------
(***************************************************************************)
(* Properties.                                                             *)
(***************************************************************************)

\* Link l is lent to one customer and now given to another, whose payments it then carries.
Relent(l) == Lent(l) /\ link'[l].owner # link[l].owner

(***************************************************************************)
(* Without a lock that is all the server can promise: a link that is lent  *)
(* goes to a second customer only when somebody, a request or the sweep,   *)
(* changes it after having looked at an older state of it.                 *)
(***************************************************************************)
LentOnceUnlessRaced ==
  [][\A l \in KnownLinks : Relent(l) => l \in raced \/ l \in raced']_link_vars

==============================================================================

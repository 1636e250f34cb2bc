----------------------------- MODULE MCServerSide -----------------------------
(***************************************************************************)
(* The parts of the server that meet in nothing the models hold, side by   *)
(* side: in each behaviour one of them, `part', takes all the steps, the   *)
(* others stay in their initial states.  One run then checks them all, in  *)
(* the sum of their states and not in the product.                         *)
(***************************************************************************)
EXTENDS ChainScan, Payout, AddressPool, VdpStore, PaymentLinks, ServerMain, TLC

CONSTANTS
  Parts,    \* the parts that take steps in this run
  t1, t2,                                     \* ChainScan: transfers
  p1, p2, p3, k1, k2,                         \* Payout
  s1, s2, r1, refresher,                      \* AddressPool
  own, other, space, gate, d1, d2, w1, w2,    \* VdpStore
  l1, l2                                      \* PaymentLinks

VARIABLE part

-------------------------------------------------------------------------------
(***************************************************************************)
(* Values of constants.                                                    *)
(***************************************************************************)
\* Two payments of one customer may have the same message to the wallet.
MCSharedKey  == (p1 :> k1) @@ (p2 :> k1)
MCPairAndOne == (p1 :> k1) @@ (p2 :> k1) @@ (p3 :> k2)
MCAmount    == (k1 :> 1) @@ (k2 :> 2)

\* Who activates a session with an exception on the way ends his thread.
MCOnError == [a \in Activators |-> "thread"]

V(r, d) == [revision |-> r, data |-> d]
MCOwner  == (own :> own) @@ (other :> other) @@ (space :> other) @@ (gate :> other)
MCSpaces == (gate :> {space})
\* The descriptions of the foreign provider in two revisions, in parts, and without revision,
\* and copies of the server's own one.
MCDocs == { (other :> V(1, d1)) @@ (space :> V(1, d1)) @@ (gate :> V(1, d1)),
            (space :> V(2, d2)) @@ (gate :> V(2, d2)),
            (gate :> V(0, d2)), (other :> V(2, d2)),
            (own :> V(2, d2)) }
MCStart == [o \in Objects |-> IF o = own THEN [version |-> V(1, d1), my |-> TRUE] ELSE None]

MCLinks == <<l1, l2>>

-------------------------------------------------------------------------------
ASSUME PartsAssumption == Parts \subseteq {"payout", "links", "router", "pool", "vdp", "chain"}

\* What the parts, and the theorems about them, assume of their constants.
ASSUME PayoutAssumed == KeyAssumption /\ PayNoneAssumption /\ PayoutBounds
ASSUME PoolAssumed == PoolAssumption
ASSUME VdpAssumed ==
  OwnerAssumption /\ DocAssumption /\ StartAssumption /\ VdpNoneAssumption /\ VdpBounds
ASSUME LinkAssumed == LinkAssumption
ASSUME MainAssumed == ServerMainAssumption

-------------------------------------------------------------------------------
allVars == <<part, pay_vars, link_vars, main_vars, pool_vars, vdp_vars, vars>>

\* Action A of the one part, while the others stay as they are.
ByPayout(A) ==
  part = "payout" /\ A /\ UNCHANGED <<part, link_vars, main_vars, pool_vars, vdp_vars, vars>>
ByLinks(A) ==
  part = "links" /\ A /\ UNCHANGED <<part, pay_vars, main_vars, pool_vars, vdp_vars, vars>>
ByRouter(A) ==
  part = "router" /\ A /\ UNCHANGED <<part, pay_vars, link_vars, pool_vars, vdp_vars, vars>>
ByPool(A) ==
  part = "pool" /\ A /\ UNCHANGED <<part, pay_vars, link_vars, main_vars, vdp_vars, vars>>
ByVdp(A) ==
  part = "vdp" /\ A /\ UNCHANGED <<part, pay_vars, link_vars, main_vars, pool_vars, vars>>
ByChain(A) ==
  part = "chain" /\ A /\ UNCHANGED <<part, pay_vars, link_vars, main_vars, pool_vars, vdp_vars>>

AllInit ==
  /\ part \in Parts
  /\ PayInit /\ PoolInit /\ VdpInit /\ Init /\ LinkInit /\ MainInit

AllNext ==
  \/ ByPayout(PayNext) \/ ByPool(PoolNext) \/ ByVdp(VdpNext) \/ ByChain(Next)
  \/ ByLinks(LinkNext) \/ ByRouter(MainNext)

AllSpec == AllInit /\ [][AllNext]_allVars

\* The fairness of the parts: since only one of them moves, one condition stands for several.
AllFairSpec ==
  /\ AllSpec
  /\ WF_allVars(ByPayout(ManagerStep) \/ ByRouter(MainRoute) \/ ByChain(Scan))
  /\ WF_allVars(ByPayout(Route) \/ ByRouter(Notice)
                  \/ \E p \in Transfer : ByChain(Credit(p)))
  /\ WF_allVars(ByPayout(WalletStep) \/ ByRouter(ReadWallet))
  /\ WF_allVars(ByPayout(Unlock) \/ ByRouter(ReadStripe))
  /\ WF_allVars(ByRouter(MainStep))
  /\ WF_allVars(ByRouter(RefreshEnds /\ main # "loop"))

-------------------------------------------------------------------------------
\* The types of all the parts.
ServerTypeOK ==
  /\ part = "payout" => PayTypeOK
  /\ part = "links"  => LinkTypeOK
  /\ part = "router" => MainTypeOK
  /\ part = "pool"   => PoolTypeOK
  /\ part = "vdp"    => VdpTypeOK
  /\ part = "chain"  => TypeOK
===============================================================================

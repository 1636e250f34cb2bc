----------------------------- MODULE MCClientSide -----------------------------
(***************************************************************************)
(* The parts of the client that meet in nothing the models hold, side by   *)
(* side: in each behaviour one of them, `part', takes all the steps, the   *)
(* others stay in their initial states.  One run then checks them all, in  *)
(* the sum of their states and not in the product.                         *)
(***************************************************************************)
EXTENDS WGClient, TLSProxy, ClientProxy, ClientSessions, ClientMain, TLC

CONSTANTS
  Parts,    \* the parts that take steps in this run
  s1, s2, s3, a, b, behind,   \* WGClient
  g1, g2, n1, n2,             \* ClientProxy
  c1, c2,                     \* TLSProxy
  u1, u2                      \* ClientSessions

VARIABLE part

-------------------------------------------------------------------------------
(***************************************************************************)
(* Values of constants.                                                    *)
(***************************************************************************)
MCPlaceTwo == (s1 :> a) @@ (s3 :> b)
MCPlaceOne == (s1 :> a) @@ (s2 :> a)

\* The second gate replaces the first, or leads to it by ssh.
MCReplaces == [h \in {g1, g2} |-> IF h = g2 THEN g1 ELSE None]
MCNone     == [h \in {g1, g2} |-> None]
MCTunnel   == [h \in {g1, g2} |-> IF h \in Ssh THEN {g1, g2} \ Ssh ELSE {}]

MCSidGate  == (n1 :> g1) @@ (n2 :> g2)
MCNoRows   == [s \in {u1, u2} |-> None]

ASSUME PartsAssumption == Parts \subseteq {"proxy", "tls", "table", "main", "tunnel"}

\* What the parts, and the theorems about them, assume of their constants.
ASSUME ProxyAssumed == GateAssumption /\ ProxyBounds
ASSUME TLSAssumed == MaxAssumption
ASSUME TableAssumed == SessionAssumption /\ SessionBounds
ASSUME MainAssumed == ClientMainAssumption

-------------------------------------------------------------------------------
allVars == <<part, conn_vars, tls_vars, table_vars, main_vars, vars>>

\* Action A of the one part, while the others stay as they are.
ByProxy(A)  == part = "proxy"  /\ A /\ UNCHANGED <<part, tls_vars, table_vars, main_vars, vars>>
ByTLS(A)    == part = "tls"    /\ A /\ UNCHANGED <<part, conn_vars, table_vars, main_vars, vars>>
ByTable(A)  == part = "table"  /\ A /\ UNCHANGED <<part, conn_vars, tls_vars, main_vars, vars>>
ByMain(A)   == part = "main"   /\ A /\ UNCHANGED <<part, conn_vars, tls_vars, table_vars, vars>>
ByTunnel(A) == part = "tunnel" /\ A /\ UNCHANGED <<part, conn_vars, tls_vars, table_vars, main_vars>>

AllInit ==
  /\ part \in Parts /\ ProxyInit /\ TLSInit /\ TableInit /\ MainInit /\ Init
  /\ part # "proxy" => sess = [n \in {n1, n2} |-> "new"]

AllNext ==
  \/ ByProxy(ProxyNext) \/ ByTLS(TLSNext) \/ ByTable(TableNext) \/ ByMain(MainNext)
  \/ ByTunnel(Next)

AllSpec == AllInit /\ [][AllNext]_allVars

\* The fairness of the parts: since only one of them moves, one condition stands for several.
AllFairSpec ==
  /\ AllSpec
  /\ WF_allVars(ByProxy(Route) \/ ByTLS(MainLoop) \/ ByTable(RefreshWork)
                  \/ \E p \in Places : ByTunnel(Step(p)))
  /\ WF_allVars(ByProxy(MainStep) \/ ByTable(AutoStep) \/ ByTLS(Copier(c1, "local")))
  /\ WF_allVars(ByProxy(ThreadStep) \/ ByTLS(Copier(c1, "gate")))
  /\ WF_allVars(ByProxy(\E c \in 1..MaxIds : Age(c)) \/ ByTLS(Copier(c2, "local")))
  /\ WF_allVars(ByTLS(Copier(c2, "gate")))
  /\ \A i \in 1..2 :
       /\ WF_allVars(ByTLS(Serve(<<c1, c2>>[i])) \/ ByTable(ActivateLater(<<u1, u2>>[i]))
                       \/ ByTunnel(Learn(<<s1, s2>>[i])))
       /\ SF_allVars(ByTable(AskServer(<<u1, u2>>[i])))

-------------------------------------------------------------------------------
\* The types of all the parts.
ClientTypeOK ==
  /\ part \in Parts
  /\ part = "proxy"  => ProxyTypeOK
  /\ part = "tls"    => TLSTypeOK
  /\ part = "table"  => TableTypeOK
  /\ part = "main"   => MainTypeOK
  /\ part = "tunnel" => TypeOK
===============================================================================

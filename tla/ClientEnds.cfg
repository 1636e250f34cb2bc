\* What the parts of the client come to in the end, under fairness.
CONSTANTS
  Parts = {"proxy", "tls", "table", "tunnel"}
  s1 = s1  s2 = s2  s3 = s3  a = a  b = b  behind = behind
  None = None
  NoKey = NoKey
  Inner = {behind}
  Sids = {s1, s2}
  Places = {a}
  PlaceOf <- MCPlaceOne
  FixedKey = TRUE
  ConnectAndExit = FALSE
  MayFail = TRUE
  MaxKeys = 1
  g1 = g1  g2 = g2  n1 = n1  n2 = n2
  Gates = {g1, g2}
  SpaceSids = {n1, n2}
  SidGate <- MCSidGate
  ProxyReconnects = TRUE
  Ssh = {g2}
  Wg = {}
  Strict = {}
  Subgates <- MCTunnel
  Replaces <- MCNone
  MaxIds = 4
  MaxAsks = 1
  MaxDeaths = 1
  c1 = c1  c2 = c2
  Conns = {c1, c2}
  MaxConnections = 1
  MaxData = 0
  u1 = u1  u2 = u2
  TableSids = {u1, u2}
  Free = {u1}
  Users = {"request"}
  AutoPay = TRUE
  UnpaidTerm = 1
  PaidTerm = 2
  PurgeAfter = 1
  Initially <- MCNoRows
  Urls = {"paid"}
  AutoReconnect = FALSE
  Faults = {"network", "refusal", "activation", "crash"}
  MaxClock = 2
  MaxRequests = 1
  MaxPays = 2
  MaxCrashes = 1
  RunGui = TRUE
  RunWallet = TRUE
  MayDie = TRUE
  MainConns = {k1}
  MaxMsgs = 1

SPECIFICATION AllFairSpec
PROPERTIES
  GhostsGo
  EndIsPassedOn
  AcceptedToLimit
  PaymentIsLearned
  ActiveComesUp
CHECK_DEADLOCK FALSE

\* The safety of the parts of the client, with all that may fail.
CONSTANTS
  Parts = {"proxy", "tls", "table", "main", "tunnel"}
  s1 = s1  s2 = s2  s3 = s3  a = a  b = b  behind = behind
  None = None
  NoKey = NoKey
  Inner = {behind}
  Sids = {s1, s3}
  Places = {a, b}
  PlaceOf <- MCPlaceTwo
  FixedKey = FALSE
  ConnectAndExit = TRUE
  MayFail = FALSE
  MaxKeys = 2
  g1 = g1  g2 = g2  n1 = n1  n2 = n2
  Gates = {g1, g2}
  SpaceSids = {n1, n2}
  SidGate <- MCSidGate
  ProxyReconnects = TRUE
  Ssh = {}
  Wg = {g1}
  Strict = {g2}
  Subgates <- MCTunnel
  Replaces <- MCReplaces
  MaxIds = 3
  MaxAsks = 2
  MaxDeaths = 1
  c1 = c1  c2 = c2
  Conns = {c1, c2}
  MaxConnections = 1
  MaxData = 1
  u1 = u1  u2 = u2
  TableSids = {u1, u2}
  Free = {u1}
  Users = {"request"}
  AutoPay = TRUE
  UnpaidTerm = 1
  PaidTerm = 2
  PurgeAfter = 1
  Initially <- MCNoRows
  Urls = {"free", "paid"}
  AutoReconnect = TRUE
  Faults = {"refusal", "loss", "crash"}
  MaxClock = 2
  MaxRequests = 0
  MaxPays = 1
  MaxCrashes = 1
  RunGui = TRUE
  RunWallet = TRUE
  MayDie = TRUE
  MainConns = {k1}
  MaxMsgs = 1

SPECIFICATION AllSpec
INVARIANTS
  ClientTypeOK
  NoStrayProcess
  OneProcessPerGate
  ReadToTheEnd
  DeletedForAReason
  PaidIsKnown
  EndsClean
  KeysAgree
CHECK_DEADLOCK FALSE

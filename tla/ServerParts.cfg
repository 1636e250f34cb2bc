\* The parts of the server, with all that may fail.
CONSTANTS
  Parts = {"payout", "links", "router", "pool", "vdp", "chain"}
  None = None
  t1 = t1  t2 = t2
  Txs = {t1, t2}
  Price = 2
  FirstSkew = 3
  LaterSkew = 1
  Depth = 2
  ScansFail = TRUE
  UseTxPool = FALSE
  MaxHeight = 4
  MaxReorgs = 2
  MaxRestarts = 1
  p1 = p1  p2 = p2  p3 = p3  k1 = k1  k2 = k2
  Intents = {p1, p2}
  Keys = {k1, k2}
  Amount <- MCAmount
  KeyOf <- MCSharedKey
  PageSize = 1
  AnswersPerScan = 2
  Coins = 3
  Faults = {"transfer", "reply", "timeout", "mark", "balance"}
  MaxTopUps = 1
  MaxCrashes = 2
  l1 = l1  l2 = l2
  Links <- MCLinks
  Customers = {c1, c2}
  Sweeper = Sweeper
  Term = 1
  CallsFail = TRUE
  MaxLinkClock = 4
  MaxRequests = 3
  Services = {"gate"}
  MaxPays = 2
  s1 = s1  s2 = s2  r1 = r1
  refresher = refresher
  NoV4 = NoV4
  Gateway = 1
  LastAddr = 4
  Sids = {s1, s2}
  Threads = {r1}
  OnError <- MCOnError
  Reboots = TRUE
  Activators = {refresher}
  MaxKeys = 3
  MaxBoots = 1
  own = own  other = other  space = space  gate = gate
  d1 = d1  d2 = d2  w1 = w1  w2 = w2
  Mgmt = Mgmt
  Posters = {w1, w2}
  Providers = {own, other}
  Spaces = {space}
  Gates = {gate}
  OwnerOf <- MCOwner
  SpacesOf <- MCSpaces
  Own = own
  IdGiven = TRUE
  Data = {d1, d2}
  Docs <- MCDocs
  Start <- MCStart
  Ttl = 2
  MaxClock = 2
  MaxPosts = 2
  MaxRefreshes = 1

SPECIFICATION AllSpec
INVARIANTS
  ServerTypeOK
  MarkedWerePaid
  OverpaymentBounded
  OneAnswer
  CreditsBounded
  PaidIsCovered
  DistinctUnlessContested
  EnoughUntilFull
  References
  AcceptedIsKept
PROPERTIES
  LentOnceUnlessRaced
  NotRobbed
CHECK_DEADLOCK FALSE

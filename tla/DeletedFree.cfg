\* A deleted free session comes back when a request that read it before saves it.
CONSTANTS
  s1 = s1  s2 = s2
  t1 = t1  t3 = t3
  wg = wg  freewg = freewg
  Gates = {freewg}
  WgGates = {freewg}
  DailyPrice <- MCDailyPrice
  Txs = {}
  TxAmount <- MCTxAmount
  Keys = {k1}
  NoKey = NoKey
  DayTicks = 2
  UnpaidExpiry = 1
  FreeDays = 1
  MaxFreeDays = 1
  ContribPercent = 0
  Sids = {s1}
  TxSession <- MCTxSession
  None = None
  Wallet = Wallet
  Refresher = Refresher
  Workers = {w1}
  Days = {1}
  PurgeAfter = 1
  FirstSkew = 5
  LaterSkew = 1
  ScansFail = FALSE
  MaxClock = 3
  MaxTip = 0
  MaxRequests = 3
  MaxCrashes = 0

SPECIFICATION WGSpec
PROPERTY
  SilentFreeStaysDeleted

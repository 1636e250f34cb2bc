\* Free and paid WireGuard gates: rounds of the service between the steps of the others.
CONSTANTS
  s1 = s1  s2 = s2
  t1 = t1  t3 = t3
  wg = wg  freewg = freewg
  Gates = {wg, freewg}
  WgGates = {wg, freewg}
  DailyPrice <- MCDailyPrice
  Txs = {t1}
  TxAmount <- MCTxAmount
  Keys = {k1, k2}
  NoKey = NoKey
  DayTicks = 2
  UnpaidExpiry = 1
  FreeDays = 1
  MaxFreeDays = 1
  ContribPercent = 0
  Sids = {s1}
  TxSession <- MCTxSession
  None = None
  Wallet = Wallet
  Refresher = Refresher
  Workers = {w1}
  Days = {1}
  PurgeAfter = 1
  FirstSkew = 5
  LaterSkew = 1
  ScansFail = FALSE
  MaxClock = 3
  MaxTip = 1
  MaxRequests = 2
  MaxCrashes = 0

SPECIFICATION WGSpec
INVARIANT
  WGTypeOK
PROPERTY
  PaidIsKept

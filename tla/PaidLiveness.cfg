\* A paid WireGuard gate, half of whose price is given away, and one transfer: what races, crashes and failed scans undo is done again.
CONSTANTS
  s1 = s1  s2 = s2
  t1 = t1  t2 = t2  t3 = t3
  proxy = proxy  freeproxy = freeproxy  wg = wg  freewg = freewg
  Gates = {wg}
  WgGates = {wg}
  DailyPrice <- MCDailyPrice
  Txs = {t3}
  TxAmount <- MCTxAmount
  Keys = {k1}
  NoKey = NoKey
  DayTicks = 2
  UnpaidExpiry = 1
  FreeDays = 1
  MaxFreeDays = 1
  ContribPercent = 50
  Sids = {s2}
  TxSession <- MCTxSession
  None = None
  Wallet = Wallet
  Refresher = Refresher
  Workers = {w1}
  Days = {1}
  PurgeAfter = 1
  FirstSkew = 5
  LaterSkew = 1
  ScansFail = TRUE
  MaxClock = 4
  MaxTip = 2
  MaxRequests = 2
  MaxCrashes = 1

SPECIFICATION FairSpec
PROPERTIES
  PaymentsHonoured
  ExpiredIsBuried

\* Proxy gates only: the session table as a ledger of two sessions.
CONSTANTS
  s1 = s1  s2 = s2
  t1 = t1  t2 = t2  t3 = t3
  proxy = proxy  freeproxy = freeproxy
  Gates = {proxy, freeproxy}
  WgGates = {}
  DailyPrice <- MCDailyPrice
  Txs = {t1, t2}
  TxAmount <- MCTxAmount
  Keys = {}
  NoKey = NoKey
  DayTicks = 2
  UnpaidExpiry = 1
  FreeDays = 1
  MaxFreeDays = 1
  ContribPercent = 0
  Sids = {s1, s2}
  TxSession <- MCTxSession
  None = None
  Wallet = Wallet
  Refresher = Refresher
  Workers = {w1}
  Days = {1}
  PurgeAfter = 1
  FirstSkew = 5
  LaterSkew = 1
  ScansFail = FALSE
  MaxClock = 4
  MaxTip = 2
  MaxRequests = 2
  MaxCrashes = 1

SPECIFICATION Spec
PROPERTY
  ImplementsLedger

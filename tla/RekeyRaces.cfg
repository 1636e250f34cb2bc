\* A paid WireGuard gate: rekeys race with the wallet and the refresh thread, and the server restarts.
CONSTANTS
  s1 = s1  s2 = s2
  t1 = t1  t2 = t2  t3 = t3
  proxy = proxy  freeproxy = freeproxy  wg = wg  freewg = freewg
  Gates = {wg}
  WgGates = {wg}
  DailyPrice <- MCDailyPrice
  Txs = {t1, t2}
  TxAmount <- MCTxAmount
  Keys = {k1}
  NoKey = NoKey
  DayTicks = 2
  UnpaidExpiry = 1
  FreeDays = 1
  MaxFreeDays = 1
  ContribPercent = 0
  Sids = {s1}
  TxSession <- MCTxSession
  None = None
  Wallet = Wallet
  Refresher = Refresher
  Workers = {w1}
  Days = {1, 2}
  PurgeAfter = 1
  FirstSkew = 5
  LaterSkew = 1
  ScansFail = FALSE
  MaxClock = 4
  MaxTip = 2
  MaxRequests = 2
  MaxCrashes = 1

SPECIFICATION Spec
INVARIANTS
  ActiveIsPaidFor
  CreditedAreMined
  CreditIsSum
  ActiveCoversListPrice
PROPERTY
  BuriedStaysBuried

\* The interface follows the table: two sessions of a free gate with two keys, or with one;
\* the term of a session made at the start is over before the clock stops.
CONSTANTS
  s1 = s1  s2 = s2
  t1 = t1  t3 = t3
  wg = wg  freewg = freewg
  Gates = {freewg}
  WgGates = {freewg}
  DailyPrice <- MCDailyPrice
  Txs = {}
  TxAmount <- MCTxAmount
  Keys = {k1, k2}
  NoKey = NoKey
  DayTicks = 1
  UnpaidExpiry = 1
  FreeDays = 1
  MaxFreeDays = 1
  ContribPercent = 0
  Sids = {s1, s2}
  TxSession <- MCTxSession
  None = None
  Wallet = Wallet
  Refresher = Refresher
  Workers = {w1}
  Days = {1}
  PurgeAfter = 1
  FirstSkew = 5
  LaterSkew = 1
  ScansFail = FALSE
  MaxClock = 2
  MaxTip = 0
  MaxRequests = 2
  MaxCrashes = 1

SPECIFICATION WGFairSpec
PROPERTY
  PeersConverge

# TLA+ models of lvpn

lvpn sells VPN access: a provider runs the **server**, which hands out sessions for
gates (ssh, proxies, WireGuard), watches a wallet for their payment and opens the
gate; a user runs the **client**, which asks for sessions, pays them and connects.
These modules model the code in Python as it is, check it with TLC on small
instances, and prove the main results for all instances with TLAPS.
`PROJECT.json` lists components, runs, hazards and theorems and maps every
definition to the lines it was translated from.

    tlasany M.tla                               # parse
    tlc -workers 2 -config X.cfg M              # model-check (X and M: see "Runs")
    tlapm M.tla                                 # check the proofs of one of the *Proofs modules

## 1. Inventory

### Server

| Part | State | Operations | Where it is hard |
|---|---|---|---|
| Session object (`lib/session.py`) | a dict: gate, days, expires, price, paid, payments, contributions, activated, "wg" data | generate, activate, add_payment, add_contributions, save, remove, reuse; the constructor activates free WireGuard sessions and applies contributions | one object is a *copy* of a row; every save writes all of it, clears `deleted`, and nothing is locked |
| Session table (`lib/sessions.py`, `lib/db.py`) | SQLite table, column `deleted` | cleanup, get, find, process_payment, refresh_status | read and write are separate transactions in processes and threads |
| Wallet process (`lib/wallet.py`) | look-back window, messages | scan incoming transfers, pay outgoing ones | scans overlap; restarts and failed scans change the window; time-outs |
| Refresh thread (`server.py`) | none | cleanup, activate what can be, log all sessions (which loads, so may activate, every row) | runs beside everything else; an exception ends it silently |
| HTTP manager (`server/http.py`) | none | post, get, rekey, reuse session; VDP; card payment links | a thread per request |
| WireGuard service (`server/wg_service.py`), a process per gate | the peers on the interface | round: gather, find needed peers, remove, expel silent free sessions, add | reads two states at two times and then acts on both |
| Card payments (`server/stripe.py`) | payments waiting for the wallet | list intents, ask the wallet to pay, mark as paid | retries against a remote service |
| Main loop (`server.py`) | queues, child processes | route messages; exit when a child dies | shutdown while others work |

They share the session table, the WireGuard interfaces and the queues. The manager's
threads, the wallet process, the WireGuard processes and the refresh thread all call
the same `Session` methods. Nothing orders them but SQLite's transactions.

What makes this part correct: a session is active only if it was paid, for the days
it was paid for; each transfer is credited once, to its session; a payment is not
lost; a session ends when its term is over and does not come back; the peers on an
interface are those of the active sessions; a free session is as short as configured.

### Client

| Part | State | Operations | Where it is hard |
|---|---|---|---|
| Proxy service (`client/proxy.py`, `client/connection.py`) | list of connections, of processes | connect, disconnect, reconnect, check alive | three threads change the lists |
| TLS proxy (`client/tlsproxy.py`) | threads, an end-of-file flag | accept, copy both ways | one flag for all connections; the limit of connections |
| WireGuard service (`client/wg_service.py`), a process per connection | the interface of its gate | set up, compare keys, rekey, replace the session, add the peer | two spaces of a gate share an interface; lost answers |
| Manager (`client/http.py`) | none | create, connect, disconnect, pay a session | waits for answers that others may take from the queue |
| Process (`client.py`) | queues, processes | route messages, auto_connect, shutdown | creates and pays new sessions on each retry |
| Session refresh (`lib/sessions.py`, client half) | the client's table | fetch from the manager, remove what is gone, reuse | the reply may be older than the row |

Correct means: a connection exists once, disconnecting ends it and its children; what
is paid is paid once; a session the server has activated becomes active here.

### Shared

VDP (`lib/vdp.py`, `lib/vdpobject.py`): descriptions of providers, spaces and gates
with revisions; the newest wins, local ones are read-only to others; a cached copy is
replaced every five minutes. Correct means an older revision never replaces a newer
one. Messages (`lib/messages.py`): strings routed by their prefix. Daemon, GUI,
command-line tools, wizard and argument definitions keep no state of their own worth
a model; signatures and certificates are calls of libraries.

## 2. Modules

    NoValue              the value None of the modules below

    SessionRecord        the Session object: pure operations on a record
      ServerSessions       table, wallet, refresh thread, requests, time, chain, restart
        WGServer             + one WireGuard service per gate
        ServerLedger         refinement mapping to SessionLedger (abstract)
    ChainScan            the wallet's scans of a chain that reorganises itself
    Payout               card payments passed on in coins: card service, main loop, wallet
    PaymentLinks         payment links lent to customers
    ServerMain           start, routing, failures and end of the server's processes
    AddressPool          addresses of the peers of a WireGuard gate
    VdpStore             descriptions: posting, saving by revision, refreshing

    ClientProxy          the lists of connections and processes, under two threads
    TLSProxy             the tunnel of a TLS gate, with its threads
    WGClient             the WireGuard processes of the client
    ClientSessions       the client's table: requests, refresh, auto_connect, payments
    ClientMain           start, routing, failures and end of the client's processes

    MCServerSessions, MCWGServer, MCServerLedger   constants for TLC
    MCServerSide, MCClientSide                     the other parts of a side, side by side
    *Proofs                                        theorems, see "Proofs"

### Sessions of the server

**SessionRecord.** `Session` is the record of `_data`, with `payments` as a set and
its sum `credit` beside it, as `get_payment()` computes it. Each operator is the part
of a method that changes the object: `Generate`, `AddContributions`, `Activated`,
`Credited`, `Prepared`; `Loaded` is the constructor on a row. Amounts are integers
(floats in the code) and one contribution purpose is configured at most, as a
percentage. A gate stands for a gate and its space, `DailyPrice` for the sum of their
prices. Time is in ticks; an event at tick `t` is strictly later than second `t`,
because `time.time()` is not whole.

**ServerSessions.** `db`, `deleted` are the table, `peers` the interfaces. An *actor*
(wallet, refresh thread, request thread) that read a row keeps the object in `obj`
and what it has still to do with it in `prog`: `activate`, `save`, `credit`,
`prepare`, `limit`. Each is one step, so that everybody else runs between any two:
between reading and writing, and inside `activate()` between the peer's addition and
the save. `DoActivate` … `DoLimit` translate the methods; `add_payment` continues
with activate and save as the code does.

| Action | Code |
|---|---|
| `Scan`, `ScanFailed`, `ProcessPayment` | `Wallet.loop`, `Sessions.process_payment` |
| `Cleanup`, `FindInactive`, `TakeNext`, `Report` | `refresh_sessions`: `cleanup`, `find(inactive, fresh)`, the loop, `repr(sessions)` |
| `PostSession`, `GetSession`, `RekeySession` | handlers of `server/http.py` |
| `Tick`, `Block`, `Crash` | time, the chain, restart of the server |

A `find` builds its list first, activating free WireGuard sessions on the way; the
model lets the refresher take the rows of a list in any order. `reuse_session` reads
the session and then fails whatever the configuration (`reuse()` makes the price a
tuple, so either the discount or the SQL text is an error): `GetSession` stands for
it. `/api/sessions` reads all rows and is a sequence of `GetSession`. New session and
payment ids are never ones that were used before.

**WGServer.** `Gather` reads the interface, `FindPeers` the table; what follows from
the comparison is put into `jobs`: `remove_peer`, `expel` then `mark` (the two halves
of `remove()`), `add_peer`. Adding starts after the removals, as in the code; within
a group the model allows any order, the code takes that of the dictionary. Which
peers are silent is up to their clients. A restart keeps the interface
(`create_wg_interface` goes on when it exists).

**SessionLedger.** The promise to a customer without processes: an account is opened
unpaid, credited, begun once, swept when its time is over. `ServerLedger` maps a row
to its account. The implementation holds without WireGuard gates and contributions,
where the wallet alone rewrites rows; with them a rekey may write back an older copy,
and what then remains true is that the loss is repaired (`PaymentsHonoured`).

### Other parts of the server

**ChainScan.** `Wallet.loop()` for one session. `ListAbove` is the filter of
`get_transfers` (incoming transfers only, `lib/wallet.py:165`; those still in the
pool are not asked for), `Scan` the window that shrinks after the first scan,
`ScanFails` its error path, `Credit` `add_payment()`, which knows a transfer by
transaction *and* height. `Send`, `Mine`, `Reorganise` are the chain (external),
`Restart` brings the first window back.

**Payout.** `ListIntents`, `Check`, `EndScan`, `ReadAnswer`, `EndAnswers` are the
rounds of `StripeManager.loop()`; `Route` is the main loop's part; `TakeMessage`,
`CannotPay`, `SendCoins`, `TransferFails`, `TransferTimesOut` are `Wallet.loop()` and
`transfer()` with each way out they have.
A `Key` is a message (address, amount, payment id): two intents of one customer may
share it, as they do in the code, and the second one is then passed over while the first
waits for its answer (`server/stripe.py:42`; `overlooked`). `Create`, `Succeed`, `TopUp`, `Unlock` are the card
service and the wallet daemon; `Crash` is a restart of the server.

**PaymentLinks.** `stripe_payment()` in a thread per customer (`Request`, `Retrieve`,
`Disable`, `TakeLink`) and the sweep of `StripeManager`, each call to the card
service being one step.

**ServerMain.** `main()` of `server.py`: `MainRoute`, `Notice`, `Cleanup`, `MainJoin`,
`Kill`, `MainDone`, the refresh thread's end, and for each child what it does with a
message; `Fail` is an exception in one of them. A process whose main thread has failed
stays while other threads keep it alive.

**AddressPool.** `Prepare` is `prepare_server_session()` with `find_free_ip()`,
`Save`, `Activate`, `Join`, `SaveActive` are what follows; `JoinRaises` is the
command that fails without an address; `Gather`, `FindPeers`, `Work` the round of
the service. `AddPeer` takes the address from any other peer, as WireGuard does.

**VdpStore.** `Look` and `Write` are the two transactions of `VDPObject.save()`;
`Post`, `LoadProvider`, `Load`, `Refuse`, `Loaded` the constructor `VDP(vdpdata=…)` in
a request, object by object; `Resave`, `Resaved` are `VDP.save()`. A request may go on
using what it has read of a provider (`copies`) and which providers there were (`known`); `Refresh` is
`mgmt.py refresh-vdp`; a restart finds out again which providers are its own.

### The client

**ClientProxy.** The main thread turns a message into a list of steps (`work`), each
one change that the other thread sees: `StartProcess`, `AddConnection`, `KillProcess`,
`DropConnection`. The thread of `refresh_connections()` is `BeginScan`, `LookAlive`,
`LookEnded`, `Reconnect` and, for the health of connections, `CheckGood`, `CheckBad`,
`CheckRaises`. Removing connections from the list gives what is left in its order
(`Without`); the list that the check runs through may change under it, as it does in
the code (`cursor`). `disconnect()` runs through the list of processes, and passes an
entry over when the other thread takes an ended process out meanwhile (`Overlooking`).
The address of a gate that cannot be resolved raises nothing (`lib/gate.py` returns it
as it is); descriptions that do not fit together, for which `connect()` raises, are
outside this module.

**TLSProxy.** `Accept`, `AcceptTimesOut`, `Prune` are the loop; `Begin`,
`WrongCertificate` the connection's thread; `Copy`, `SeeEnd`, `StopCopying` the two
threads that copy; `Close` its end. `eof` is the one flag they share. `Copy` reads a
piece and passes it on or drops it; `SocketFails` is any other exception of `recv` or
`send`, which counts as the end whatever is left to read.

**WGClient.** A process per connection: `Setup`, `Gather`, `Rekey`, `RemoveRow`,
`Create`, `Save`, `InnerSessions`, `Activate`, `Leave`, with `Raise` for the commands
and calls that fail, and `Disconnect`, `Kill`, `Reap` for the proxy's side of it.

**ClientSessions.** `BeginRefresh` … `EndRefresh` are `refresh_status()` with its
clean-up, which marks expired rows and purges old ones, and then a question for each
unpaid session and its answer half a minute apart, an error of the server
(`AskRefused`), or no server, which ends the thread (`AskFails`). `term` is the expiry
that the client was last told of a session; `AskSession`, `CreateSession`, `AnswerPay`,
`AskConnect` the requests of `client/http.py`; `AutoStart` … `AutoAgain` are
`auto_connect()`. `Make`, `Confirm`, `ActivateLater`, `Forget` are the server.

**ClientMain.** `main()` of `client.py` with `lib/messages.py` and `lib/queue.py`:
routing, `Notice`, `Stop`, `Join`, `KillChild`, and per child what it does when told to
end. Where a wallet is not run, its messages go astray (`client.py:351`).

### The union modules

The parts of a side that share nothing the models hold are composed by `MCServerSide`
and `MCClientSide`: a constant `Parts` names those that take part, and in each
behaviour one of them, `part`, takes all the steps while the others stay in their
initial states. A run on it has the sum of the parts' states, not their product, and
finds exactly what a run of each part would. `part` never changes, so a fairness
condition on a disjunction `ByA(X) \/ ByB(Y)` is that on `X` in the behaviours of A and
that on `Y` in those of B. Where parts do meet in the code, one of the two modules has
the other's behaviour as an action of its own: `Payout` routes messages and may crash
(`ServerMain`), `ServerSessions` has the wallet's scan (`ChainScan`).

## 3. Runs

Each run takes one to three minutes and finishes. `CHECK_DEADLOCK FALSE` is given for the
union runs only: their parts come to a stop when the bounds on requests, messages or
ticks are used up, and the main loops also by design.

| Run (configuration) | Module | Checks | States |
|---|---|---|---|
| `rekey_races` (RekeyRaces) | MCServerSessions | `ActiveIsPaidFor`, `CreditedAreMined`, `CreditIsSum`, `ActiveCoversListPrice`, `BuriedStaysBuried` | 1607055 |
| `paid_liveness` (PaidLiveness) | MCServerSessions | `PaymentsHonoured`, `ExpiredIsBuried` | 190695 |
| `ledger` (Ledger) | MCServerLedger | `ImplementsLedger` | 1472371 |
| `peers_converge` (PeersConverge) | MCWGServer | `PeersConverge` | 252728 |
| `wg_rounds` (WGRounds) | MCWGServer | `WGTypeOK`, `PaidIsKept` | 451208 |
| `server_parts` (ServerParts) | MCServerSide | `ServerTypeOK`; ChainScan: `CreditsBounded`, `PaidIsCovered`; Payout: `MarkedWerePaid`, `OverpaymentBounded`; ServerMain: `OneAnswer`; AddressPool: `DistinctUnlessContested`, `EnoughUntilFull`, `NotRobbed`; VdpStore: `References`, `AcceptedIsKept`; PaymentLinks: `LentOnceUnlessRaced` | 754199 |
| `server_ends` (ServerEnds) | MCServerSide | `FoundIsServed`, `AskedIsSettled`, `MinedIsCredited`, `EndIsNoticed` | 258747 |
| `client_parts` (ClientParts) | MCClientSide | `ClientTypeOK`; ClientProxy: `NoStrayProcess`, `OneProcessPerGate`; TLSProxy: `ReadToTheEnd`; ClientSessions: `DeletedForAReason`, `PaidIsKnown`; ClientMain: `EndsClean`; WGClient: `KeysAgree` | 1914245 |
| `client_ends` (ClientEnds) | MCClientSide | `GhostsGo`, `EndIsPassedOn`, `PaymentIsLearned`, `ActiveComesUp`, `AcceptedToLimit` | 115545 |
| `contributions`, `free_term` | MCServerSessions | `PriceAddsUp`, `FreeTermBounded` (violated) | |
| `deleted_free` | MCWGServer | `SilentFreeStaysDeleted` (violated) | |

### Bounds

Every bound is a constant named in a guard (`MaxClock`, `MaxTip`, `MaxRequests`,
`MaxCrashes`, `MaxHeight`, `MaxReorgs`, `MaxIds`, …).

* **Sessions.** A session is compared with its own past and its own transfers, and
  sessions meet only in the wallet's inbox, the refresher's list and a shared client
  key. So one session with several actors on it shows more than several sessions;
  `ledger` and `peers_converge` have two. A day is two ticks and an unpaid session
  expires after one, so that both fit before tick 4 (in `peers_converge`, where all are
  free, a day is one tick, and sessions end before the clock stops at 2); two partial
  payments complete a price; two requests make a rekey overtake another; one restart.
  `PurgeAfter` is one tick instead of thirty days.
* **`paid_liveness`** gives half of the price away and lets scans fail: a stale rekey
  undoes a credit, a failed scan shrinks the window, a restart loses an object.
* **Chain.** Heights to 4 with a depth of 2 and two reorganisations: a transfer can be
  moved, dropped into the pool and mined again while it is in the window.
* **Card payments.** Two intents that share a message (`server_parts`), or two that do
  and one of its own (`server_ends`), pages of one intent, coins for less than all
  retries, one or two restarts: a mark that fails is paid again, an answer is late, a
  scan passes over one, or newer ones fill its page.
* **Links.** Two links, two customers, a term of one tick, three requests.
* **Addresses.** Two sessions, one request thread, the refresh thread, a reboot, and
  three client keys for two usable addresses: a request can look while the other's peer
  is not on the interface, and find every address taken.
* **Descriptions.** Two posters and an operator, two documents out of five, revisions
  to 2: saves of an older and a newer revision overtake each other; refusals half-way.
* **Router.** One WireGuard service beside the three fixed children and two payments.
* **Client.** Two gates, one replacing the other or reached through it, three or four
  connections over time, one death; two TLS connections with a limit of one,
  and in `client_parts` a piece of data each way, passed on or dropped; two sessions, one of them free, with refused
  and lost calls and a stop, that expire after one tick or two and are purged one later; one connection in the main
  loop; two places of a gate with two keys, or one place with two sessions.

### Fairness

Weak fairness of each actor's operations (plain calls that return), of the loops that
run for ever (`Scan` and each `ProcessPayment`, the refresh thread, each WireGuard
service, `StripeManager`, the main loops, the proxy's two threads, the TLS threads,
`auto_connect`), and of the outside things that the code waits for with no limit: the
wallet daemon answers again and again though it may fail in between (`Scan`), change
is unlocked in the end (`Unlock`), a health check comes to an age (`Age`), the server
activates what is paid (`ActivateLater`) and tells it (`Learn`). The server may refuse
the client's question about a session again and again, but not for ever: `AskServer` has
strong fairness, and the rest of the refresh thread (`RefreshWork`) weak. Requests, payments,
blocks, failures and clocks may stop at any time. The loops do not survive every
exception; where a property is about failures the modules have them as actions
(`Fail`, `Raise`, `JoinRaises`, `CheckRaises`), elsewhere liveness is about processes
whose commands and statements succeed. `RefreshEnds` is fair only when the main loop
has ended: the thread looks at the flag then.

### What the code does otherwise than it says

* **contributions** – `tests/sessions.py:76` asserts that price and contributions
  make up the list price, and `server/arguments.py:39` says that "15% from price" is
  sent on. `add_contributions` runs in the constructor on every row that is read and
  lowers the price again each time (`lib/session.py:128`). A save keeps the lower
  price, which is the one payments are compared with: with the run's share of one
  half, two reads bring it to zero and the refresh thread activates the session unpaid.
* **free_term** – `--max-free-session-days` is the "Maximum length of free session in
  days" (`server/arguments.py:32`). A session for another type of gate than "wg" is
  activated and saved before its length is looked at (`server/http.py:206`), and that
  of a "wg" session is never looked at, because it still has its unpaid expiry.
* **deleted_free** – "Free WG sessions will be deleted after this seconds"
  (`server/arguments.py:34`). A rekey that read the session before saves it after, and
  `save()` clears the mark (`lib/session.py:316`).

These have a run that finds them. Others the models contain as the code has them, with
the properties saying what remains true; nothing in the repository says otherwise:

* the address is looked for among the peers only, so it may be given twice before a
  peer is added (`server/wg_service.py:133`; `contested` in `DistinctUnlessContested`);
* a link is looked at and then taken in two calls (`server/http.py:105`; `raced`);
* a revision is looked at before the transaction that replaces the row
  (`lib/vdpobject.py:148`; `AcceptedIsKept` excepts it);
* a moved transaction is credited again (`lib/session.py:243`; `CreditsBounded`);
* a mark that fails, or a restart, pays a card payment again, and a time-out counts as
  paid (`server/stripe.py:89`, `lib/wallet.py:269`; `OverpaymentBounded`);
* a second card payment with the same message as one that waits for its answer is passed
  over, and not listed again before a restart; nor is one beyond the first page
  (`server/stripe.py:24` and `:42`; `FoundIsServed` excepts what was overlooked);
* the TLS proxy drops what the other side does not take in 0.01 seconds, and what a
  partial `send()` leaves over, and an error of a socket counts as the end
  (`client/tlsproxy.py:57`; `ReadToTheEnd` is about what is read, not what is passed on);
* a row of the client whose expiry is thirty days ago leaves its table, also that of a
  session that was paid and credited without the client's having learned of it
  (`lib/sessions.py:21`; `PaidIsKnown` holds until the term the client knows of is over);
* with more connections in its list than the limit the TLS proxy waits for ever, for a
  list that it does not prune (`client/tlsproxy.py:118`; `AcceptedToLimit` excepts it);
* with every address on the interface a session gets none, and its activation ends the
  refresh thread or the server (`server/wg_service.py:142`; `EnoughUntilFull` says that
  this takes more keys than there are addresses);
* the health check removes from the list it runs through, so it skips a connection,
  and forgets a process that may still run (`client/connection.py:276`; `GhostsGo`
  says that it is found in the end, `NoStrayProcess` excepts what was given up);
* a new session is paid before it is saved, and again in each retry (`client.py:107`;
  `PaidIsKnown` allows one for each stop);
* a child that needs longer than a second to end is killed with the messages that
  close its connections unread (`client.py:370`; `EndsClean` excepts the killed).

## 4. Proofs

The theorems hold for every value of the constants that satisfies the named
assumptions: any number of sessions, transfers, processes, messages, and any bound on
time and requests. `ASSUME`s of `SessionRecord`, `ServerSessions`, `ChainScan` and
`WGClient` state them for those modules; the others define them as operators
(`KeyAssumption`, `PoolAssumption`, `OwnerAssumption`, …), which are hypotheses of their
theorems and are assumed in `MCServerSide` and `MCClientSide` (`PoolAssumed`,
`TLSAssumed`, …), so that TLC evaluates them for the values the runs use and the
theorems about these two modules can use them. They say what kind of value a constant
is: prices and limits are natural numbers, a transfer carries something, different
actors and the value None are different things. Two theorems assume more, and say so: `ListPriceCovered`
is about a provider without contributions (its property has this as a premise), and
`LedgerImplemented` one without contributions and without WireGuard gates.

| Module | Property of a run | Theorem |
|---|---|---|
| ServerSessionsProofs | `ActiveIsPaidFor`, `CreditIsSum`, `ActiveCoversListPrice`, `BuriedStaysBuried`, `CreditedAreMined` | `PaidFor`, `CreditsAddUp`, `ListPriceCovered`, `NoResurrection`, `PaymentsMined` |
| WGServerProofs | `WGTypeOK`, `PaidIsKept` | `WGTypeCorrect`, `PaidStays` |
| ServerLedgerProofs | `ImplementsLedger` | `LedgerImplemented` |
| PaymentProofs (ChainScan) | `CreditsBounded`, `PaidIsCovered` | `CreditsAreBounded`, `PaidIsAlwaysCovered` |
| PaymentProofs (Payout) | `MarkedWerePaid`, `OverpaymentBounded` | `MarkedArePaid`, `OverpaymentIsBounded` |
| PaymentProofs (PaymentLinks) | `LentOnceUnlessRaced` | `LentOnce` |
| PaymentProofs (ServerMain) | `OneAnswer` | `AnsweredOnce` |
| ServerSideProofs (AddressPool) | `DistinctUnlessContested`, `EnoughUntilFull`, `NotRobbed` | `AddressesDistinct`, `AddressesSuffice`, `NobodyIsRobbed` |
| ServerSideProofs (MCServerSide) | `ServerTypeOK`, and all others of `server_parts` | `ServerTypesCorrect`, `ServerPartsSafe` |
| VdpStoreProofs | `References`, `AcceptedIsKept` | `ReferencesAreStored`, `AcceptedStays` |
| ClientSideProofs (WGClient, TLSProxy) | `KeysAgree`, `ReadToTheEnd` | `KeysAgreeAlways`, `EndsAreReadToTheEnd` |
| ClientSideProofs (MCClientSide) | `ClientTypeOK`, and all others of `client_parts` | `ClientTypesCorrect`, `ClientPartsSafe` |
| ClientProofs (ClientSessions) | `DeletedForAReason`, `PaidIsKnown` | `RowsGoForAReason`, `PaidSessionsAreKnown` |
| ClientProofs (ClientProxy) | `NoStrayProcess`, `OneProcessPerGate` | `ProcessesAreListed`, `PortsAreFree` |
| ClientProofs (ClientMain) | `EndsClean` | `EndsCleanAlways` |

Each proof has the same plan: the inductive invariant holds initially, every action
keeps it (a step per action), and it implies the property; the invariant is a theorem
of its own (`Invariance`, `WGInvariance`, `ScanInvariant`, `PayInvariant`, …). Every
safety property of a passing run is a theorem, and so is the type invariant of each part
(`TypeCorrect`, `PayTypeCorrect`, …). None of the properties is inductive alone. What
they need besides:

* **Sessions** – `SessionInv`. What a row will be depends on objects that processes
  hold now, so each row, each object in the hands of an actor and each one in the
  wallet's batch is a `GoodSession`: its activity is paid and its term counted from
  the activation (`Sound`), its price is the list price where there are no
  contributions, and its credit is `Worth` of its payments. `CreditIsSum` adds up the
  payments in an order that a `CHOOSE` picks. That adding a payment adds
  its amount whatever the order is an induction over finite sets; the library's
  induction theorem cannot be instantiated here, so it is carried out by a smallest
  counterexample (`SmallestSet`), which well-foundedness of the strict subsets gives.
* **Payments** – `MinedInv` follows a transfer from the chain to the inbox, to a
  program, into an object and to a row, and says at each place that it is mined and
  the session's own.
* **Burial** – a session is buried when neither the table nor a copy nor a program
  has it. This is stable only because `find` and `get` read nothing but rows.
* **WireGuard rounds** – `WGInv`: a session has the same gate in the table and in
  every copy (`OneGate`), and only free sessions are marked for deletion (`MarksFree`);
  the marks were made from a state that may be gone.
* **Ledger** – `LedgerInv`: how far each actor's program has come (`PostFree`,
  `BeginTerm`, …) and what its object may do to the row when it is saved, which is what
  the ledger has as an action (`Supersedes`). A request works on a session that no
  transfer was sent to yet and that no other request has (`WorkersOk`, `Apart`); the
  refresher has only sessions it cannot activate (`RefresherOk`), because an unpaid row
  lacks some of its price (`RowsOk`); so the wallet's copy, which is the row or what
  comes of it, is the only one that is saved over a credit (`WalletOk`). Both
  assumptions are used here: a rekey saves an older copy, and a contribution lets the
  refresher activate and save a session that the wallet is crediting. TLC finds the
  refinement violated in the configuration of `ledger` with either of them.
* **Credits** – `ScanInv`: a transfer is listed at another height than now at most as
  often as it was moved (`MovesCounted`, `ElsewhereBounded`), and `paid` is what the
  payments say.
* **Card payments** – `PayInv`, per message: at most one question or answer is under
  way (`OneMessage`), who waits has asked (`Waits`), and the counts of marks,
  transfers, time-outs, failed marks and restarts balance (`Books`). `LinkInv` says
  what a customer's copy of a link showed when it decided to disable or to take it.
  `MainInv`: of each payment at most one message, the question or its
  answer, is under way, and none once it has been answered (`OneAnswer`).
* **Addresses** – `PoolInv`. A `Claim` is any record anywhere on the way from a
  request to the interface which says that the key of a session has an address. All
  claims of a key are of one session and one address (`KeyFixed`), the keys of requests
  that still look for an address are in none (`KeysNew`), and where two keys claim one
  address both sessions are contested (`OneKey`). `RoomInv` counts: peers have keys
  that came with requests, one address at most each, and the key that is looked for an
  address is not among them (`PeersKnown`). So with no more keys than addresses one is
  free (`AddressFound`), nobody claims "no address", and nothing fails for it.
* **Descriptions** – `StoreInv`: an object in the hand of a saver has its references
  stored, as what is stored has (`Grounds`); a saver that nobody overtook has no older
  revision in hand than the row (`Ahead`); and of a document that is being saved each
  object is still to be saved or stored in that revision or a newer one (`Saved`).
* **Client keys** – `KeyInv`: the interface has the newest key and all others are
  older (`Newest`, `Known`), so a key that was replaced never comes back; a process has
  a session of its own, that was created (`Owned`); a row, a copy or a rekey under way
  with the interface's key goes with the server's (`RowsAgree`, `CopiesAgree`,
  `Rekeying`). So what a process has compared stays true (`Kept`).
* **Tunnel** – `EndInv`: while a connection is copied and one of its sides was told of
  the end of the other, all that the other has sent was read, unless another
  connection's end has cut it off or a socket failed.
* **Limit of connections** – `LimitInv`: the list has at most one more entry than the
  limit, and while the loop waits for a connection at most as many. So no more than that
  are served at once (`ConnectionsLimited`), and beyond the limit nothing changes the
  list any more (`StuckBeyondLimit`): the exception in `AcceptedToLimit` is for ever.
* **The sides** – a step of `MCServerSide` or `MCClientSide` is a step of one part and a
  stutter of the others, so these specifications implement the specification of each
  part (`ServerPartsBehave`, `ClientPartsBehave`), and what is proved of a part holds of
  what the runs check (`ServerPartsSafe`, `ClientPartsSafe`).
* **Client's table** – `TableInv`: an answer "not known" stays true after the
  question, which is why a row deleted for it was deleted for a reason; only rows whose
  term is over are purged, and what `auto_connect` still has to save is one session.
* **Connections** – `ProxyInv`. That a gate's port is free is looked at when the
  message is taken, and used steps later. `WorkInv` bridges it: a start is the last
  step of the main thread's work, only processes that the health check gave up run
  for its gate then, and a connection that is being dropped does not run. Messages
  about children are the only ones that one thread sends to the other (`BusInv`), and
  `LifeInv` keeps the parents of connections fixed. `OnceInv`: a connection is announced
  once, and only before it is listed, so that it is in the list once.

### What is only model-checked

* **Liveness**: `PaymentsHonoured`, `ExpiredIsBuried`, `PeersConverge`, `FoundIsServed`,
  `AskedIsSettled`, `MinedIsCredited`, `EndIsNoticed`, `GhostsGo`, `EndIsPassedOn`,
  `PaymentIsLearned`, `ActiveComesUp`, `AcceptedToLimit`. They need fairness and ENABLED, which the
  proof system does not handle.
* **Induction over data** is needed for `CreditIsSum` only, and done there as described.
* The three **violations** are counterexamples and need no proof.

## 5. Not modelled

* Reuse of sessions beyond the fact that it fails; lock time-outs of SQLite statement
  by statement (a failing process is, in ServerMain and ClientMain).
* Certificates and signatures: values to the modules that use them, taken to be right.
* Creating and restoring wallets, whose effect is on the external wallet only.
* IPv6 addresses, pre-shared keys, routes and the text of the WireGuard commands.
* Deleting expired descriptions and fetching them from other managers.
* The outgoing payments that contributions and activation cause (`on_session_activation`
  and its commands), and several purposes of contribution.
* Transfers that are still in the pool; clients that pay before they are told the id.
* The lists of space and gate ids that a request has read: `VDP.save()` goes by the rows
  that are there (providers are as they were read).
* Listings and status answers, which change nothing; what goes through a ssh tunnel;
  widgets of the graphical client; the daemon's height; command-line tools other than
  `refresh-vdp`.

One hazard has no property: `lib/session.py:25` raises for a row whose gate is no longer
described, and every `find` with it. Gates do not go away in the modules.

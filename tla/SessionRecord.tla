---------------------------- MODULE SessionRecord ----------------------------
(***************************************************************************)
(* The Session object of lib/session.py as the server uses it: a record,   *)
(* and the pure part of each method, from a record (and the time) to a     *)
(* record.  What a method does to the database and to the WireGuard        *)
(* interface is in the modules that use this one.                          *)
(*                                                                         *)
(* Time is a number of ticks, DayTicks to the day; an event at tick t      *)
(* happens strictly after int(time.time()) = t, as in the code, where      *)
(* expiries are whole seconds and the clock they are compared with is not. *)
(***************************************************************************)
EXTENDS Integers, Sequences

CONSTANTS
  Gates,          \* local gates; a session is for one gate (and its space)
  WgGates,        \* the gates of type "wg"; the others are ssh or proxies
  DailyPrice,     \* price of a day on the gate, its space included
  Txs,            \* transfers to the provider's wallet
  TxAmount,       \* what each transfer carries
  Keys,           \* WireGuard public keys of clients
  NoKey,          \* no "wg" data in the session
  DayTicks,       \* a day
  UnpaidExpiry,   \* --unpaid-expiry
  FreeDays,       \* --free-session-days, when a free request names no days
  MaxFreeDays,    \* --max-free-session-days
  ContribPercent  \* --contributions: the share of the price given away, 0: none

ASSUME GateAssumption == WgGates \subseteq Gates /\ DailyPrice \in [Gates -> Nat]
ASSUME TxAssumption == TxAmount \in [Txs -> Nat \ {0}]
ASSUME KeyAssumption == NoKey \notin Keys
ASSUME TimeAssumption ==
  /\ DayTicks \in Nat \ {0}
  /\ UnpaidExpiry \in Nat \ {0}
  /\ FreeDays \in Nat \ {0}
  /\ MaxFreeDays \in Nat
ASSUME ContribAssumption == ContribPercent \in 0..100

(***************************************************************************)
(* payments is the list of credited transfers, without its order; credit   *)
(* is get_payment(), the sum over the list.  activated is 0 or the time of *)
(* activation.  contributions has one entry for the one configured         *)
(* purpose.  wg is the client key of the "wg" gate data, or NoKey.         *)
(***************************************************************************)
Session ==
  [gate : Gates, days : Nat, expires : Nat, paid : BOOLEAN,
   payments : SUBSET Txs, credit : Nat, activated : Nat,
   price : Int, contributions : Seq(Nat), wg : Keys \cup {NoKey}]

IsFree(g) == DailyPrice[g] = 0

IsActive(s) == s.activated # 0

IsFresh(s, now) == s.expires > now

\* What add_contributions(increase=False) gives away of a price.
Share(price) == (price * ContribPercent) \div 100

(***************************************************************************)
(* add_contributions(increase=False): the entry is added once, but its     *)
(* amount is taken off the price every time the method runs.               *)
(***************************************************************************)
AddContributions(s) ==
  IF ContribPercent = 0 THEN s
  ELSE LET entry == IF s.contributions = <<>> THEN <<Share(s.price)>>
                                               ELSE s.contributions
       IN [s EXCEPT !.contributions = entry, !.price = @ - entry[1]]

\* Mutant: the price of a day, whatever the days asked for.
GenerateFlatPrice(g, d, now) ==
  [gate |-> g, days |-> IF d = 0 THEN FreeDays ELSE d,
   expires |-> now + UnpaidExpiry, paid |-> FALSE,
   payments |-> {}, credit |-> 0, activated |-> 0,
   price |-> DailyPrice[g], contributions |-> <<>>, wg |-> NoKey]

(***************************************************************************)
(* Session.generate, up to the activate() of a free session that is not    *)
(* "wg"; d = 0 is a request that names no days.                            *)
(***************************************************************************)
Generate(g, d, now) ==
  LET s == [gate |-> g, days |-> IF d = 0 THEN FreeDays ELSE d,
            expires |-> now + UnpaidExpiry, paid |-> FALSE,
            payments |-> {}, credit |-> 0, activated |-> 0,
            price |-> DailyPrice[g] * d, contributions |-> <<>>, wg |-> NoKey]
  IN IF IsFree(g) THEN s ELSE AddContributions(s)

(***************************************************************************)
(* The constructor runs on every row read from the database.  It activates *)
(* a free "wg" session that is ready for it; any other session goes        *)
(* through add_contributions once more.                                    *)
(***************************************************************************)
ActivatesOnLoad(s) ==
  /\ IsFree(s.gate)
  /\ s.gate \in WgGates
  /\ s.wg # NoKey
  /\ ~IsActive(s)

Loaded(s) == IF ActivatesOnLoad(s) THEN s ELSE AddContributions(s)

\* Mutant: the payment is not looked at.
CanActivateUnpaid(s) == ~IsActive(s) /\ (s.gate \in WgGates => s.wg # NoKey)

\* The test of activate(), and the gate's: a "wg" gate needs the client's key.
CanActivate(s) ==
  /\ s.credit >= s.price
  /\ ~IsActive(s)
  /\ s.gate \in WgGates => s.wg # NoKey

\* Mutant: the term is added to the expiry of the unpaid session.
ActivatedFromExpiry(s, now) ==
  [s EXCEPT !.expires = @ + s.days * DayTicks, !.activated = now]

Activated(s, now) ==
  [s EXCEPT !.expires = now + s.days * DayTicks, !.activated = now]

\* add_payment on a transfer that is not in the list yet.
Credited(s, t) ==
  LET c == s.credit + TxAmount[t]
  IN [s EXCEPT !.payments = @ \cup {t}, !.credit = c, !.paid = c >= s.price]

\* prepare_server_session: the client's key (and fresh addresses) in the "wg" data.
Prepared(s, k) == [s EXCEPT !.wg = k]

\* days_left(), asked strictly after tick now, for a term that is not over.
DaysLeft(s, now) == (s.expires - now - 1) \div DayTicks

==============================================================================

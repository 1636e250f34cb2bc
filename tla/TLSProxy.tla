------------------------------- MODULE TLSProxy -------------------------------
(***************************************************************************)
(* The TLS proxy of the client (client/tlsproxy.py), one process for a     *)
(* gate: it accepts local connections and gives each a thread, which       *)
(* connects to the gate and then has two more threads copy what either     *)
(* side sends to the other.  All of them share one flag, eof, which says   *)
(* that a connection has ended.                                            *)
(***************************************************************************)
EXTENDS Naturals, FiniteSets

CONSTANTS
  Conns,            \* local connections
  MaxConnections,   \* --max-tls-connections
  MaxData           \* bound of the model: pieces of data sent each way

MaxAssumption == MaxConnections \in Nat /\ MaxData \in Nat

Sides == {"local", "gate"}

VARIABLES
  state,      \* of each connection: "none", "pending", "connecting", "copying", "closed" or "refused"
  eof,
  copier,     \* does the thread run that copies what a side sends?
  sent,       \* pieces of data each side has sent
  passed, dropped,   \* pieces passed on to the other side, and those read and dropped
  ended,      \* has a side ended the connection?
  loop,       \* what the main loop does next: "prune" or "accept"
  threads,    \* the main loop's list of threads
  cut,        \* connections during whose copying eof was set by the end of another
  failed,     \* connections that were stopped by an error of a socket
  revived     \* connections for which eof was reset when they had stopped copying one way

flows     == <<sent, passed, dropped, ended>>
loop_vars  == <<loop, threads>>
past      == <<cut, failed, revived>>
tls_vars  == <<state, eof, copier, flows, loop_vars, past>>

Alive(c) == state[c] \in {"connecting", "copying"}

\* What has been read of the data that side d sent.
Taken(c, d) == passed[c][d] + dropped[c][d]

TLSTypeOK ==
  /\ state \in [Conns -> {"none", "pending", "connecting", "copying", "closed", "refused"}]
  /\ eof \in BOOLEAN
  /\ copier \in [Conns -> [Sides -> BOOLEAN]]
  /\ sent \in [Conns -> [Sides -> 0..MaxData]]
  /\ passed \in [Conns -> [Sides -> 0..MaxData]] /\ dropped \in [Conns -> [Sides -> 0..MaxData]]
  /\ \A c \in Conns, d \in Sides : Taken(c, d) <= sent[c][d]
  /\ ended \in [Conns -> [Sides -> BOOLEAN]]
  /\ loop \in {"prune", "accept"} /\ {c \in Conns : Alive(c)} \subseteq threads
  /\ threads \subseteq Conns
  /\ cut \subseteq Conns /\ failed \subseteq Conns /\ revived \subseteq Conns

Both(v) == [d \in Sides |-> v]

TLSInit ==
  /\ state = [c \in Conns |-> "none"]
  /\ eof = FALSE
  /\ copier = [c \in Conns |-> Both(FALSE)]
  /\ sent = [c \in Conns |-> Both(0)]
  /\ passed = [c \in Conns |-> Both(0)] /\ dropped = [c \in Conns |-> Both(0)]
  /\ ended = [c \in Conns |-> Both(FALSE)]
  /\ loop = "prune" /\ threads = {}
  /\ cut = {} /\ failed = {} /\ revived = {}

Copying  == {c \in Conns : state[c] = "copying"}
\* One of the two threads that copy has stopped.
Half(c)  == c \in Copying /\ \E d \in Sides : ~copier[c][d]

-------------------------------------------------------------------------------
(***************************************************************************)
(* The local program and the gate.                                         *)
(***************************************************************************)
Open(c) ==
  /\ state[c] = "none"
  /\ state' = [state EXCEPT ![c] = "pending"]
  /\ UNCHANGED <<eof, copier, flows, loop_vars, past>>

Send(c, d) ==
  /\ state[c] \in (IF d = "local" THEN {"pending", "connecting", "copying"} ELSE {"copying"})
  /\ ~ended[c][d] /\ sent[c][d] < MaxData
  /\ sent' = [sent EXCEPT ![c][d] = @ + 1]
  /\ UNCHANGED <<state, eof, copier, passed, dropped, ended, loop_vars, past>>

\* The side ends the connection.
Ends(c, d) ==
  /\ state[c] \in (IF d = "local" THEN {"pending", "connecting", "copying"} ELSE {"copying"})
  /\ ~ended[c][d]
  /\ ended' = [ended EXCEPT ![c][d] = TRUE]
  /\ UNCHANGED <<state, eof, copier, sent, passed, dropped, loop_vars, past>>

-------------------------------------------------------------------------------
\* Mutant: a full list counts as too long.
PruneNotFull ==
  /\ loop = "prune" /\ Cardinality(threads) < MaxConnections
  /\ threads' = {c \in threads : Alive(c)}
  /\ loop' = "accept"
  /\ UNCHANGED <<state, eof, copier, flows, past>>

\* Those that ended leave the list, unless it is too long: then the loop waits for ever.
Prune ==
  /\ loop = "prune" /\ Cardinality(threads) <= MaxConnections
  /\ threads' = {c \in threads : Alive(c)}
  /\ loop' = "accept"
  /\ UNCHANGED <<state, eof, copier, flows, past>>

Accept(c) ==
  /\ loop = "accept" /\ state[c] = "pending"
  /\ state' = [state EXCEPT ![c] = "connecting"]
  /\ threads' = threads \cup {c}
  /\ loop' = "prune"
  /\ UNCHANGED <<eof, copier, flows, past>>

AcceptTimesOut ==
  /\ loop = "accept" /\ \A c \in Conns : state[c] # "pending"
  /\ loop' = "prune"
  /\ UNCHANGED <<state, eof, copier, flows, threads, past>>

-------------------------------------------------------------------------------
Begin(c, reached) ==
  /\ state[c] = "connecting"
  /\ state' = [state EXCEPT ![c] = "copying"]
  /\ eof' = FALSE
  /\ copier' = [copier EXCEPT ![c] = Both(TRUE)]
  /\ ended' = [ended EXCEPT ![c]["gate"] = ~reached]
  /\ revived' = revived \cup (IF eof THEN {o \in Copying : Half(o)} ELSE {})
  /\ UNCHANGED <<sent, passed, dropped, loop_vars, cut, failed>>

WrongCertificate(c) ==
  /\ state[c] = "connecting"
  /\ state' = [state EXCEPT ![c] = "refused"]
  /\ UNCHANGED <<eof, copier, flows, loop_vars, past>>

(***************************************************************************)
(* One round of a thread that copies what side d sends: a piece is read,   *)
(* and passed on.  Where the other side does not take it within 0.01       *)
(* seconds, or takes only a part of it, the rest is dropped: the time-out  *)
(* of the send is taken for one of the read, and nobody looks at what      *)
(* send() returns.                                                         *)
(***************************************************************************)
Copy(c, d) ==
  /\ copier[c][d] /\ ~eof
  /\ Taken(c, d) < sent[c][d]
  /\ \/ passed' = [passed EXCEPT ![c][d] = @ + 1] /\ UNCHANGED dropped
     \/ dropped' = [dropped EXCEPT ![c][d] = @ + 1] /\ UNCHANGED passed
  /\ UNCHANGED <<state, eof, copier, sent, ended, loop_vars, past>>

\* Reading or sending raises: that counts as the end, with data that are not read or not sent.
SocketFails(c, d) ==
  /\ copier[c][d] /\ ~eof
  /\ eof' = TRUE
  /\ copier' = [copier EXCEPT ![c][d] = FALSE]
  /\ cut' = cut \cup (Copying \ {c}) /\ failed' = failed \cup {c}
  /\ UNCHANGED <<state, flows, loop_vars, revived>>

\* Mutant: data that came together with the end are not looked at.
SeeEndEarly(c, d) ==
  /\ copier[c][d] /\ ~eof /\ ended[c][d]
  /\ eof' = TRUE
  /\ copier' = [copier EXCEPT ![c][d] = FALSE]
  /\ cut' = cut \cup (Copying \ {c})
  /\ UNCHANGED <<state, flows, loop_vars, failed, revived>>

\* Mutant: the other thread is not told.
SeeEndQuietly(c, d) ==
  /\ copier[c][d] /\ ~eof
  /\ ended[c][d] /\ Taken(c, d) = sent[c][d]
  /\ copier' = [copier EXCEPT ![c][d] = FALSE]
  /\ UNCHANGED <<state, eof, flows, loop_vars, past>>

\* Everything is read and the side has ended: the flag says so, to all connections.
SeeEnd(c, d) ==
  /\ copier[c][d] /\ ~eof
  /\ ended[c][d] /\ Taken(c, d) = sent[c][d]
  /\ eof' = TRUE
  /\ copier' = [copier EXCEPT ![c][d] = FALSE]
  /\ cut' = cut \cup (Copying \ {c})
  /\ UNCHANGED <<state, flows, loop_vars, failed, revived>>

StopCopying(c, d) ==
  /\ copier[c][d] /\ eof
  /\ copier' = [copier EXCEPT ![c][d] = FALSE]
  /\ UNCHANGED <<state, eof, flows, loop_vars, past>>

Close(c) ==
  /\ state[c] = "copying" /\ copier[c] = Both(FALSE)
  /\ state' = [state EXCEPT ![c] = "closed"]
  /\ UNCHANGED <<eof, copier, flows, loop_vars, past>>

-------------------------------------------------------------------------------
MainLoop   == Prune \/ (\E c \in Conns : Accept(c)) \/ AcceptTimesOut
Serve(c)   == (\E reached \in BOOLEAN : Begin(c, reached)) \/ WrongCertificate(c) \/ Close(c)
Copier(c, d) == Copy(c, d) \/ SeeEnd(c, d) \/ StopCopying(c, d)

TLSNext ==
  \/ MainLoop
  \/ \E c \in Conns :
       \/ Open(c) \/ Serve(c)
       \/ \E d \in Sides : Send(c, d) \/ Ends(c, d) \/ Copier(c, d) \/ SocketFails(c, d)

TLSSpec == TLSInit /\ [][TLSNext]_tls_vars

\* The threads run.
TLSFairSpec ==
  /\ TLSSpec /\ WF_tls_vars(MainLoop)
  /\ \A c \in Conns : WF_tls_vars(Serve(c)) /\ \A d \in Sides : WF_tls_vars(Copier(c, d))

-------------------------------------------------------------------------------
(***************************************************************************)
(* Properties.                                                             *)
(***************************************************************************)

(***************************************************************************)
(* A connection that is closed after copying, while no socket failed and   *)
(* no other connection ended, is closed because one of its sides ended it, *)
(* with everything that side had sent read: the last data that come with   *)
(* the end are looked at, and the end of a former connection does not      *)
(* count for a later one.  Not all that is read is passed on (see Copy).   *)
(***************************************************************************)
ReadToTheEnd ==
  \A c \in Conns :
    state[c] = "closed" /\ c \notin cut \cup failed =>
      \E d \in Sides : ended[c][d] /\ Taken(c, d) = sent[c][d]

(***************************************************************************)
(* The end of one side closes the connection also for the other, unless a  *)
(* connection that begins just then resets the flag.                       *)
(***************************************************************************)
EndIsPassedOn ==
  \A c \in Conns :
    ~<>[](c \in Copying \ revived /\ \E d \in Sides : ended[c][d])

(***************************************************************************)
(* A connection that waits is accepted, but where the list of threads has  *)
(* grown longer than the limit: then the loop waits for threads to leave   *)
(* the list, which nobody but the loop removes from it.                    *)
(***************************************************************************)
AcceptedToLimit ==
  \A c \in Conns : ~<>[](state[c] = "pending" /\ Cardinality(threads) <= MaxConnections)

==============================================================================

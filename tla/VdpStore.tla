------------------------------- MODULE VdpStore -------------------------------
(***************************************************************************)
(* The descriptions of providers, spaces and gates that a server keeps in  *)
(* its database.  Anybody may post a document with descriptions (post_vdp  *)
(* in server/http.py, a thread per request): VDP(vdpdata=...) saves them   *)
(* one after the other, and VDP.save() then saves again all that is known. *)
(* An operator refreshes the revisions of the server's own descriptions    *)
(* with mgmt.py.  VDPObject.save() looks for a newer revision and then, in *)
(* a transaction of its own, replaces the row.                             *)
(***************************************************************************)
EXTENDS Naturals, Sequences, SequencesExt, FiniteSets, NoValue

CONSTANTS
  Providers, Spaces, Gates,
  OwnerOf,      \* the provider of each object
  SpacesOf,     \* the spaces each gate is for
  Own,          \* the provider whose public key the server has
  IdGiven,      \* is --provider-id set to it?
  Data,         \* what a description says
  Docs,         \* documents, functions from some objects to descriptions
  Start,        \* the rows at first
  Ttl,          \* how long a revision is fresh
  Posters,      \* threads of the HTTP server
  Mgmt,         \* the operator's tool
  MaxClock, MaxPosts, MaxRefreshes   \* bounds of the model

Objects == Providers \cup Spaces \cup Gates
Workers == Posters \cup {Mgmt}
\* Revision 0 stands for a description without one.
Version == [revision : 0..MaxClock, data : Data]
Row     == [version : Version, my : BOOLEAN]

OwnerAssumption ==
  /\ IsFiniteSet(Objects) /\ Providers \cap (Spaces \cup Gates) = {}
  /\ OwnerOf \in [Objects -> Providers] /\ \A p \in Providers : OwnerOf[p] = p
  /\ SpacesOf \in [Gates -> SUBSET Spaces] /\ Own \in Providers
DocAssumption ==
  /\ Start \in [Objects -> Row \cup {None}]
  /\ \A d \in Docs : DOMAIN d \subseteq Objects /\ \A o \in DOMAIN d : d[o] \in Version
\* At first too, what a space or a gate refers to is stored.
StartAssumption ==
  \A o \in Spaces \cup Gates : Start[o] # None =>
    /\ Start[OwnerOf[o]] # None
    /\ o \in Gates => \A s \in SpacesOf[o] : Start[s] # None
VdpBounds ==
  /\ IdGiven \in BOOLEAN /\ Ttl \in Nat /\ Mgmt \notin Posters
  /\ MaxClock \in Nat \ {0} /\ MaxPosts \in Nat /\ MaxRefreshes \in Nat

VARIABLES
  rows,       \* the table vdp
  clock,
  readonly,   \* readonly_providers
  up,         \* does the server run?
  stage,      \* of each worker: "idle", "load" or "resave"
  doc,        \* the document it works on
  checkOnly,  \* the parameter of its request
  left,       \* objects it has still to save
  known,      \* fresh providers it has found in the database, or None
  copies,     \* the rows of providers that its request has read, or None
  hand,       \* the object it is about to write, or None
  overtaken,  \* workers whose object was written by another since they looked
  accepted,   \* revisions of objects in documents that were answered with 200
  weakened,   \* objects written with an older revision, or without one
  posts, refreshes

cache      == <<known, copies>>
worker     == <<stage, doc, checkOnly, left, cache, hand>>
vdp_past   == <<overtaken, accepted, weakened>>
vdp_bounds == <<posts, refreshes>>
vdp_vars   == <<rows, clock, readonly, up, worker, vdp_past, vdp_bounds>>

Item == [object : Objects, version : Version, my : BOOLEAN]
VdpNoneAssumption == None \notin Row \cup Item

Idle(w) == stage[w] = "idle"

VdpTypeOK ==
  /\ rows \in [Objects -> Row \cup {None}]
  /\ clock \in 1..MaxClock /\ readonly \subseteq Providers /\ up \in BOOLEAN
  /\ stage \in [Workers -> {"idle", "load", "resave"}]
  /\ doc \in [Workers -> Docs \cup {None}]
  /\ checkOnly \in [Workers -> BOOLEAN]
  /\ left \in [Workers -> Seq(Objects)]
  /\ known \in [Workers -> (SUBSET Providers) \cup {None}]
  /\ copies \in [Workers -> [Providers -> Row \cup {None}]]
  /\ hand \in [Workers -> Item \cup {None}]
  /\ overtaken \subseteq Workers /\ accepted \subseteq Objects \X (0..MaxClock)
  /\ weakened \subseteq Objects
  /\ posts \in 0..MaxPosts /\ refreshes \in 0..MaxRefreshes
  /\ \A w \in Posters : Idle(w) => hand[w] = None /\ left[w] = <<>>

Stored(o)  == rows[o] # None
Fresh(o)   == Stored(o) /\ (rows[o].version.revision = 0 \/ rows[o].version.revision + Ttl > clock)
\* The row of a provider as the request has read it, up to a minute ago, or as it is now.
Reads(w, p) == {copies[w][p], rows[p]} \ {None}
\* get_provider() and the objects of a provider: is it the server's own?
OwnRow(p, row) == row.my \/ (IdGiven /\ p = Own)
Local(p)       == Stored(p) /\ OwnRow(p, rows[p])
OwnObjects       == {p \in Providers : Stored(p) /\ rows[p].my /\ Fresh(p)}
InOrder(S) == SetToSeq(S \cap Providers) \o SetToSeq(S \cap Spaces) \o SetToSeq(S \cap Gates)

VdpInit ==
  /\ rows = Start
  /\ clock = 1
  /\ readonly = {p \in Providers : Start[p] # None /\ Start[p].my}
  /\ up = TRUE
  /\ stage = [w \in Workers |-> "idle"]
  /\ doc = [w \in Workers |-> None]
  /\ checkOnly = [w \in Workers |-> FALSE]
  /\ left = [w \in Workers |-> <<>>]
  /\ known = [w \in Workers |-> None]
  /\ copies = [w \in Workers |-> [p \in Providers |-> None]]
  /\ hand = [w \in Workers |-> None]
  /\ overtaken = {} /\ accepted = {} /\ weakened = {}
  /\ posts = 0 /\ refreshes = 0

-------------------------------------------------------------------------------
(***************************************************************************)
(* VDPObject.save(): first the look for a newer revision, then the         *)
(* replacement of the row.                                                 *)
(***************************************************************************)
\* Mutant: the revision in the database is not looked at.
NewerNever(o, v) == FALSE

Newer(o, v) == v.revision > 0 /\ Stored(o) /\ rows[o].version.revision > v.revision

Look(w, item) ==
  /\ hand' = [hand EXCEPT ![w] = IF Newer(item.object, item.version) THEN None ELSE item]
  /\ overtaken' = overtaken \ {w}

Write(w) ==
  /\ hand[w] # None
  /\ LET o == hand[w].object IN
       /\ rows' = [rows EXCEPT ![o] = [version |-> hand[w].version, my |-> hand[w].my]]
       /\ overtaken' = overtaken \cup {u \in Workers \ {w} : hand[u] # None /\ hand[u].object = o}
       /\ weakened' = IF w \in overtaken \/ hand[w].version.revision = 0
                      THEN weakened \cup {o} ELSE weakened
  /\ hand' = [hand EXCEPT ![w] = None]
  /\ UNCHANGED <<clock, readonly, up, stage, doc, checkOnly, left, cache, accepted, vdp_bounds>>

-------------------------------------------------------------------------------
(***************************************************************************)
(* post_vdp().                                                             *)
(***************************************************************************)
Post(w, d, check) ==
  /\ up /\ Idle(w) /\ posts < MaxPosts
  /\ posts' = posts + 1
  /\ stage' = [stage EXCEPT ![w] = "load"]
  /\ doc' = [doc EXCEPT ![w] = d]
  /\ checkOnly' = [checkOnly EXCEPT ![w] = check]
  /\ left' = [left EXCEPT ![w] = InOrder(DOMAIN d)]
  /\ UNCHANGED <<rows, clock, readonly, up, cache, hand, vdp_past, refreshes>>

\* The request ends.
Done(w) ==
  /\ stage' = [stage EXCEPT ![w] = "idle"]
  /\ doc' = [doc EXCEPT ![w] = None]
  /\ checkOnly' = [checkOnly EXCEPT ![w] = FALSE]
  /\ left' = [left EXCEPT ![w] = <<>>]
  /\ known' = [known EXCEPT ![w] = None]
  /\ copies' = [copies EXCEPT ![w] = [p \in Providers |-> None]]

Loading(w) == stage[w] = "load" /\ left[w] # <<>> /\ hand[w] = None

\* provider_ids(), which is asked once for a document.
Known(w) == IF known[w] # None THEN known[w] ELSE {p \in Providers : Fresh(p)}

LoadProvider(w) ==
  /\ Loading(w) /\ Head(left[w]) \in Providers
  /\ Look(w, [object |-> Head(left[w]), version |-> doc[w][Head(left[w])], my |-> FALSE])
  /\ left' = [left EXCEPT ![w] = Tail(@)]
  /\ UNCHANGED <<rows, clock, readonly, up, stage, doc, checkOnly, cache, accepted, weakened,
                 vdp_bounds>>

\* What a space or a gate refers to must be known, and fresh.
RefersTo(o) == {OwnerOf[o]} \cup (IF o \in Gates THEN SpacesOf[o] ELSE {})
\* Mutant: only the provider is looked for.
GroundedByOwner(w, o) == Stored(OwnerOf[o]) /\ OwnerOf[o] \in Known(w)

Grounded(w, o) ==
  /\ Stored(OwnerOf[o]) /\ OwnerOf[o] \in Known(w)
  /\ \A s \in RefersTo(o) \cap Spaces : Fresh(s)

Load(w) ==
  /\ Loading(w) /\ Head(left[w]) \in Spaces \cup Gates
  /\ LET o == Head(left[w]) IN
       /\ Grounded(w, o)
       /\ \E row \in Reads(w, OwnerOf[o]) :
            /\ Look(w, [object |-> o, version |-> doc[w][o], my |-> OwnRow(OwnerOf[o], row)])
            /\ copies' = [copies EXCEPT ![w][OwnerOf[o]] = row]
  /\ known' = [known EXCEPT ![w] = Known(w)]
  /\ left' = [left EXCEPT ![w] = Tail(@)]
  /\ UNCHANGED <<rows, clock, readonly, up, stage, doc, checkOnly, accepted, weakened, vdp_bounds>>

\* 443: what came before in the document stays saved.
Refuse(w) ==
  /\ Loading(w) /\ Head(left[w]) \in Spaces \cup Gates
  /\ ~Grounded(w, Head(left[w]))
  /\ Done(w)
  /\ UNCHANGED <<rows, clock, readonly, up, hand, vdp_past, vdp_bounds>>

Answered(w) == accepted' = accepted \cup {<<o, doc[w][o].revision>> : o \in DOMAIN doc[w]}

\* The document is read.  With checkOnly this is all.
Loaded(w) ==
  /\ stage[w] = "load" /\ left[w] = <<>> /\ hand[w] = None
  /\ \/ checkOnly[w] /\ Done(w) /\ Answered(w)
     \/ /\ ~checkOnly[w]
        /\ stage' = [stage EXCEPT ![w] = "resave"]
        /\ left' = [left EXCEPT ![w] = Reverse(InOrder({o \in Objects : Fresh(o)}))]
        /\ UNCHANGED <<doc, checkOnly, cache, accepted>>
  /\ UNCHANGED <<rows, clock, readonly, up, hand, overtaken, weakened, vdp_bounds>>

(***************************************************************************)
(* VDP.save(): everything that is known is saved as it is read, a provider *)
(* perhaps as it was read before, but for the objects of read-only         *)
(* providers.                                                              *)
(***************************************************************************)
Resave(w) ==
  /\ stage[w] = "resave" /\ left[w] # <<>> /\ hand[w] = None
  /\ LET o == Head(left[w]) IN
       \/ OwnerOf[o] \in readonly /\ UNCHANGED <<hand, overtaken>>
       \/ /\ OwnerOf[o] \notin readonly /\ o \in Providers
          /\ \E row \in Reads(w, o) :
               Look(w, [object |-> o, version |-> row.version, my |-> OwnRow(o, row)])
       \/ /\ OwnerOf[o] \notin readonly /\ o \notin Providers
          /\ Look(w, [object |-> o, version |-> rows[o].version,
                      my |-> rows[o].my \/ Local(OwnerOf[o])])
  /\ left' = [left EXCEPT ![w] = Tail(@)]
  /\ UNCHANGED <<rows, clock, readonly, up, stage, doc, checkOnly, cache, accepted, weakened,
                 vdp_bounds>>

Resaved(w) ==
  /\ stage[w] = "resave" /\ left[w] = <<>> /\ hand[w] = None
  /\ Done(w) /\ Answered(w)
  /\ UNCHANGED <<rows, clock, readonly, up, hand, overtaken, weakened, vdp_bounds>>

-------------------------------------------------------------------------------
\* mgmt.py refresh-vdp: an own object gets the time as its revision.
Refresh(o) ==
  /\ hand[Mgmt] = None /\ refreshes < MaxRefreshes
  /\ Stored(o) /\ rows[o].my
  /\ refreshes' = refreshes + 1
  /\ Look(Mgmt, [object |-> o, my |-> TRUE,
                  version |-> [rows[o].version EXCEPT !.revision = clock]])
  /\ UNCHANGED <<rows, clock, readonly, up, stage, doc, checkOnly, left, cache, accepted, weakened,
                 posts>>

(***************************************************************************)
(* The server is started again: what is read-only is found out anew, and   *)
(* without a fresh provider of its own it exits.                           *)
(***************************************************************************)
VdpRestart ==
  /\ \A w \in Posters : Idle(w)
  /\ readonly' = OwnObjects
  /\ up' = (OwnObjects # {})
  /\ <<readonly, up>> # <<readonly', up'>>
  /\ UNCHANGED <<rows, clock, worker, vdp_past, vdp_bounds>>

Tick ==
  /\ clock < MaxClock
  /\ clock' = clock + 1
  /\ UNCHANGED <<rows, readonly, up, worker, vdp_past, vdp_bounds>>

PosterStep(w) ==
  \/ \E d \in Docs, check \in BOOLEAN : Post(w, d, check)
  \/ LoadProvider(w) \/ Load(w) \/ Refuse(w) \/ Loaded(w) \/ Resave(w) \/ Resaved(w)

VdpNext ==
  \/ \E w \in Posters : PosterStep(w)
  \/ \E w \in Workers : Write(w)
  \/ \E o \in Objects : Refresh(o)
  \/ VdpRestart \/ Tick

VdpSpec == VdpInit /\ [][VdpNext]_vdp_vars

-------------------------------------------------------------------------------
(***************************************************************************)
(* Properties.                                                             *)
(***************************************************************************)

(***************************************************************************)
(* Whatever documents are posted at the same time, and wherever one of     *)
(* them is refused, a stored gate has its provider and its spaces stored.  *)
(***************************************************************************)
References == \A o \in Spaces \cup Gates : Stored(o) => \A r \in RefersTo(o) : Stored(r)

(***************************************************************************)
(* A description that was accepted is kept until there is a newer one: it  *)
(* is replaced by an older one only when that has no revision, or when two *)
(* savers overtook each other between their look and their write.          *)
(***************************************************************************)
AcceptedIsKept ==
  \A a \in accepted :
    a[1] \notin weakened => Stored(a[1]) /\ rows[a[1]].version.revision >= a[2]

==============================================================================

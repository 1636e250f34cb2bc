---------------------------- MODULE VdpStoreProofs ----------------------------
(***************************************************************************)
(* Proofs about VdpStore.  Nothing is ever deleted, so that what was known *)
(* when a saver looked is known when it writes.  A saver nobody overtook   *)
(* writes no older revision than the row has, so that revisions only grow, *)
(* but for the objects that are marked as weakened.                        *)
(***************************************************************************)
EXTENDS VdpStore, FiniteSetTheorems, TLAPS

StoreAssumptions ==
  OwnerAssumption /\ DocAssumption /\ StartAssumption /\ VdpBounds /\ VdpNoneAssumption

Has(s, o) == \E i \in 1..Len(s) : s[i] = o

\* What o refers to is stored.
RefsStored(o) == o \in Spaces \cup Gates => \A r \in RefersTo(o) : Stored(r)

\* Object o has revision r or a newer one.
AtLeast(o, r) == o \in weakened \/ (Stored(o) /\ rows[o].version.revision >= r)

StoreTypes ==
  /\ rows \in [Objects -> Row \cup {None}]
  /\ clock \in 1..MaxClock
  /\ stage \in [Workers -> {"idle", "load", "resave"}]
  /\ doc \in [Workers -> Docs \cup {None}]
  /\ \A w \in Workers : stage[w] # "idle" => doc[w] \in Docs
  /\ checkOnly \in [Workers -> BOOLEAN]
  /\ left \in [Workers -> Seq(Objects)]
  /\ copies \in [Workers -> [Providers -> Row \cup {None}]]
  /\ hand \in [Workers -> Item \cup {None}]
  /\ overtaken \subseteq Workers /\ accepted \subseteq Objects \X Nat

\* What is stored, is about to be, or is to be saved again, refers to what is stored.
Grounds ==
  /\ \A o \in Objects : Stored(o) => RefsStored(o)
  /\ \A w \in Workers : hand[w] # None => RefsStored(hand[w].object)
  /\ \A w \in Workers, o \in Objects : stage[w] = "resave" /\ Has(left[w], o) => Stored(o)
  /\ \A w \in Workers, o \in Objects : stage[w] = "load" /\ Has(left[w], o) => o \in DOMAIN doc[w]

\* A saver that was not overtaken still holds no older revision than the row.
Ahead ==
  \A w \in Workers :
    hand[w] # None /\ w \notin overtaken => ~Newer(hand[w].object, hand[w].version)

\* Object o of the document of w is not saved yet.
ToSave(w, o) ==
  \/ stage[w] = "load" /\ Has(left[w], o)
  \/ hand[w] # None /\ hand[w].object = o /\ hand[w].version = doc[w][o]

Saved ==
  /\ \A w \in Workers : stage[w] # "idle" =>
       \A o \in DOMAIN doc[w] : ToSave(w, o) \/ AtLeast(o, doc[w][o].revision)
  /\ \A a \in accepted : AtLeast(a[1], a[2])

StoreInv == StoreTypes /\ Grounds /\ Ahead /\ Saved

-------------------------------------------------------------------------------
\* All elements of a finite set, in some order.
LEMMA Listed ==
  ASSUME NEW S, IsFiniteSet(S)
  PROVE  SetToSeq(S) \in Seq(S) /\ \A o : Has(SetToSeq(S), o) <=> o \in S
<1>. DEFINE n == Cardinality(S)
<1>1. n \in Nat /\ IsFiniteSet(1..n) /\ Cardinality(1..n) = n
  BY FS_CardinalityType, FS_Interval
<1>2. PICK f : f \in Bijection(1..n, S)
  BY FS_CardinalityType DEF ExistsBijection
<1>3. f \in [1..n -> S] /\ IsInjective(f)
  BY <1>2 DEF Bijection, Injection
<1>. DEFINE q == SetToSeq(S)
<1>4. q \in [1..n -> S] /\ IsInjective(q)
  BY <1>3 DEF SetToSeq
<1>5. q \in Surjection(1..n, S)
  <2>1. q \in Injection(1..n, S)
    BY <1>4 DEF Injection
  <2>. QED BY <1>1, <2>1, FS_Injection
<1>. HIDE DEF q
<1>6. q \in Seq(S) /\ Len(q) = n
  BY <1>1, <1>4
<1>7. \A o : Has(q, o) <=> o \in S
  BY <1>1, <1>4, <1>5, <1>6 DEF Has, Surjection
<1>. QED BY <1>6, <1>7 DEF q

\* The elements of two sequences one after the other.
LEMMA Joined ==
  ASSUME NEW s \in Seq(Objects), NEW t \in Seq(Objects), NEW o
  PROVE  s \o t \in Seq(Objects) /\ (Has(s \o t, o) <=> Has(s, o) \/ Has(t, o))
<1>1. /\ s \o t \in Seq(Objects) /\ Len(s \o t) = Len(s) + Len(t)
      /\ Len(s) \in Nat /\ Len(t) \in Nat
      /\ \A i \in 1..Len(s) : (s \o t)[i] = s[i]
      /\ \A i \in 1..Len(t) : (s \o t)[Len(s) + i] = t[i]
  OBVIOUS
<1>2. ASSUME Has(s \o t, o) PROVE Has(s, o) \/ Has(t, o)
  <2>1. PICK i \in 1..Len(s) + Len(t) : (s \o t)[i] = o
    BY <1>1, <1>2 DEF Has
  <2>2. CASE i <= Len(s)
    BY <1>1, <2>1, <2>2 DEF Has
  <2>3. CASE i > Len(s)
    <3>1. i - Len(s) \in 1..Len(t) /\ Len(s) + (i - Len(s)) = i
      BY <1>1, <2>1, <2>3
    <3>. QED BY <1>1, <2>1, <3>1 DEF Has
  <2>. QED BY <1>1, <2>1, <2>2, <2>3
<1>3. ASSUME Has(s, o) PROVE Has(s \o t, o)
  BY <1>1, <1>3 DEF Has
<1>4. ASSUME Has(t, o) PROVE Has(s \o t, o)
  <2>1. PICK i \in 1..Len(t) : t[i] = o
    BY <1>4 DEF Has
  <2>2. Len(s) + i \in 1..Len(s) + Len(t)
    BY <1>1, <2>1
  <2>. QED BY <1>1, <2>1, <2>2 DEF Has
<1>. QED BY <1>1, <1>2, <1>3, <1>4

\* Providers, then spaces, then gates: all of them.
LEMMA Ordered ==
  ASSUME OwnerAssumption, NEW S \in SUBSET Objects
  PROVE  InOrder(S) \in Seq(Objects) /\ \A o : Has(InOrder(S), o) <=> o \in S
<1>1. \A T \in SUBSET S : IsFiniteSet(T)
  BY FS_Subset DEF OwnerAssumption
<1>2. \A T \in SUBSET S : SetToSeq(T) \in Seq(Objects) /\ \A o : Has(SetToSeq(T), o) <=> o \in T
  <2>. SUFFICES ASSUME NEW T \in SUBSET S
                PROVE  SetToSeq(T) \in Seq(Objects) /\ \A o : Has(SetToSeq(T), o) <=> o \in T
    OBVIOUS
  <2>1. SetToSeq(T) \in Seq(T) /\ \A o : Has(SetToSeq(T), o) <=> o \in T
    BY <1>1, Listed
  <2>. QED BY <2>1
<1>3. S \cap Providers \in SUBSET S /\ S \cap Spaces \in SUBSET S /\ S \cap Gates \in SUBSET S
  OBVIOUS
<1>. DEFINE p == SetToSeq(S \cap Providers)
            s == SetToSeq(S \cap Spaces)
            g == SetToSeq(S \cap Gates)
<1>4. /\ p \in Seq(Objects) /\ \A o : Has(p, o) <=> o \in S \cap Providers
      /\ s \in Seq(Objects) /\ \A o : Has(s, o) <=> o \in S \cap Spaces
      /\ g \in Seq(Objects) /\ \A o : Has(g, o) <=> o \in S \cap Gates
  BY <1>2, <1>3
<1>5. InOrder(S) = (p \o s) \o g
  BY DEF InOrder
<1>. HIDE DEF p, s, g
<1>6. p \o s \in Seq(Objects) /\ \A o : Has(p \o s, o) <=> Has(p, o) \/ Has(s, o)
  BY <1>4, Joined
<1>7. (p \o s) \o g \in Seq(Objects) /\ \A o : Has((p \o s) \o g, o) <=> Has(p \o s, o) \/ Has(g, o)
  BY <1>4, <1>6, Joined
<1>. QED BY <1>4, <1>5, <1>6, <1>7 DEF Objects

\* The other way round they are the same.
LEMMA Reversed ==
  ASSUME NEW s \in Seq(Objects)
  PROVE  Reverse(s) \in Seq(Objects) /\ \A o : Has(Reverse(s), o) => Has(s, o)
<1>1. Len(s) \in Nat /\ \A i \in 1..Len(s) : (Len(s) - i) + 1 \in 1..Len(s) /\ s[i] \in Objects
  OBVIOUS
<1>2. /\ Reverse(s) \in [1..Len(s) -> Objects]
      /\ \A i \in 1..Len(s) : Reverse(s)[i] = s[(Len(s) - i) + 1]
  BY <1>1 DEF Reverse
<1>3. Reverse(s) \in Seq(Objects) /\ Len(Reverse(s)) = Len(s)
  BY <1>1, <1>2
<1>. QED BY <1>1, <1>2, <1>3 DEF Has

\* The next object to save.
LEMMA First ==
  ASSUME NEW s \in Seq(Objects), s # <<>>
  PROVE  /\ Tail(s) \in Seq(Objects) /\ Head(s) \in Objects /\ Has(s, Head(s))
         /\ \A o : Has(s, o) <=> Has(Tail(s), o) \/ o = Head(s)
<1>1. /\ Tail(s) \in Seq(Objects) /\ Head(s) \in Objects /\ Head(s) = s[1]
      /\ Len(s) \in Nat /\ Len(s) > 0 /\ Len(Tail(s)) = Len(s) - 1
      /\ \A i \in 1..Len(s) - 1 : Tail(s)[i] = s[i + 1]
  OBVIOUS
<1>2. /\ \A i \in 1..Len(s) : i = 1 \/ (i - 1 \in 1..Len(s) - 1 /\ Tail(s)[i - 1] = s[i])
      /\ \A i \in 1..Len(s) - 1 : i + 1 \in 1..Len(s)
      /\ 1 \in 1..Len(s)
  BY <1>1
<1>3. ASSUME NEW o, Has(s, o) PROVE Has(Tail(s), o) \/ o = Head(s)
  BY <1>1, <1>2, <1>3 DEF Has
<1>4. ASSUME NEW o, Has(Tail(s), o) PROVE Has(s, o)
  BY <1>1, <1>2, <1>4 DEF Has
<1>5. Has(s, Head(s))
  BY <1>1, <1>2 DEF Has
<1>. QED BY <1>1, <1>3, <1>4, <1>5

-------------------------------------------------------------------------------
\* Steps that write nothing leave what is said of the rows as it is.
LEMMA Still ==
  ASSUME UNCHANGED <<rows, weakened>>
  PROVE  /\ \A o : (Stored(o)' <=> Stored(o)) /\ (RefsStored(o)' <=> RefsStored(o))
         /\ \A o, r : AtLeast(o, r)' <=> AtLeast(o, r)
         /\ \A o, v : Newer(o, v)' <=> Newer(o, v)
BY DEF Stored, RefsStored, AtLeast, Newer

\* The look for a newer revision: either there is one, or the object is to be written.
LEMMA Looked ==
  ASSUME StoreInv, NEW w \in Workers, NEW item \in Item, RefsStored(item.object),
         Look(w, item), UNCHANGED <<rows, weakened>>
  PROVE  /\ hand' \in [Workers -> Item \cup {None}] /\ overtaken' \subseteq Workers
         /\ \A u \in Workers : hand'[u] # None => RefsStored(hand'[u].object)
         /\ Ahead'
         /\ hand'[w] = IF Newer(item.object, item.version) THEN None ELSE item
         /\ \A u \in Workers \ {w} : hand'[u] = hand[u]
<1>1. /\ hand \in [Workers -> Item \cup {None}] /\ overtaken \subseteq Workers /\ Ahead
      /\ \A u \in Workers : hand[u] # None => RefsStored(hand[u].object)
  BY DEF StoreInv, StoreTypes, Grounds
<1>2. /\ hand' = [hand EXCEPT ![w] = IF Newer(item.object, item.version) THEN None ELSE item]
      /\ overtaken' = overtaken \ {w}
  BY DEF Look
<1>3. \A u \in Workers : hand'[u] = IF u # w THEN hand[u]
                                    ELSE IF Newer(item.object, item.version) THEN None ELSE item
  BY <1>1, <1>2
<1>4. hand' \in [Workers -> Item \cup {None}]
  BY <1>1, <1>2
<1>5. Ahead'
  <2>. SUFFICES ASSUME NEW u \in Workers, hand'[u] # None, u \notin overtaken'
                PROVE  ~Newer(hand[u].object, hand[u].version)'
    BY DEF Ahead
  <2>1. ~Newer(hand'[u].object, hand'[u].version)
    BY <1>1, <1>2, <1>3 DEF Ahead
  <2>. QED BY <2>1 DEF Newer, Stored
<1>6. \A u \in Workers : hand'[u] # None => RefsStored(hand'[u].object)
  BY <1>1, <1>3
<1>7. overtaken' \subseteq Workers
  BY <1>1, <1>2
<1>. QED BY <1>3, <1>4, <1>5, <1>6, <1>7

\* What is known of the documents when only worker w has gone on.
LEMMA OthersSave ==
  ASSUME StoreInv, NEW w \in Workers, UNCHANGED <<rows, weakened>>,
         \A u \in Workers \ {w} :
           stage'[u] = stage[u] /\ doc'[u] = doc[u] /\ left'[u] = left[u] /\ hand'[u] = hand[u],
         stage'[w] # "idle" =>
           \A o \in DOMAIN doc'[w] : ToSave(w, o)' \/ AtLeast(o, doc[w][o].revision)',
         \A a \in accepted' : a \in accepted \/ AtLeast(a[1], a[2])
  PROVE  Saved'
<1>1. \A u \in Workers \ {w} : stage'[u] # "idle" =>
        \A o \in DOMAIN doc'[u] : ToSave(u, o)' \/ AtLeast(o, doc[u][o].revision)'
  <2>1. \A u \in Workers \ {w} : \A o : ToSave(u, o)' <=> ToSave(u, o)
    BY DEF ToSave
  <2>2. \A u \in Workers \ {w} : \A o :
          AtLeast(o, doc[u][o].revision)' <=> AtLeast(o, doc[u][o].revision)
    BY DEF AtLeast, Stored
  <2>. QED BY <2>1, <2>2 DEF StoreInv, Saved
<1>2. \A a \in accepted' : AtLeast(a[1], a[2])'
  <2>1. \A a \in accepted' : AtLeast(a[1], a[2])
    BY DEF StoreInv, Saved
  <2>. QED BY <2>1 DEF AtLeast, Stored
<1>. QED BY <1>1, <1>2 DEF Saved

\* The rows at first refer to each other.
LEMMA InitStore == StoreAssumptions /\ VdpInit => StoreInv
<1>. SUFFICES ASSUME StoreAssumptions, VdpInit PROVE StoreInv
  OBVIOUS
<1>1. StoreTypes
  BY DEF VdpInit, StoreTypes, StoreAssumptions, DocAssumption, VdpBounds
<1>2. \A w \in Workers : stage[w] = "idle" /\ hand[w] = None
  BY DEF VdpInit
<1>3. Grounds
  BY <1>2 DEF VdpInit, Grounds, RefsStored, RefersTo, Stored, StoreAssumptions, StartAssumption,
             OwnerAssumption
<1>4. Ahead /\ Saved
  BY <1>2 DEF VdpInit, Ahead, Saved
<1>. QED BY <1>1, <1>3, <1>4 DEF StoreInv

\* What a request reads of a provider is a row.
LEMMA RowsRead ==
  ASSUME StoreAssumptions, StoreInv, NEW w \in Workers, NEW p \in Providers, NEW row \in Reads(w, p)
  PROVE  row \in Row /\ OwnRow(p, row) \in BOOLEAN
<1>1. copies[w][p] \in Row \cup {None} /\ rows[p] \in Row \cup {None}
  BY DEF StoreInv, StoreTypes, Objects
<1>2. row \in Row
  BY <1>1 DEF Reads
<1>. QED BY <1>2 DEF OwnRow, Row, StoreAssumptions, VdpBounds

\* A document comes.
LEMMA PostStore ==
  ASSUME StoreAssumptions, StoreInv, NEW w \in Posters, NEW d \in Docs, NEW check \in BOOLEAN,
         Post(w, d, check)
  PROVE  StoreInv'
<1>1. /\ w \in Workers /\ stage' = [stage EXCEPT ![w] = "load"] /\ doc' = [doc EXCEPT ![w] = d]
      /\ checkOnly' = [checkOnly EXCEPT ![w] = check]
      /\ left' = [left EXCEPT ![w] = InOrder(DOMAIN d)]
      /\ UNCHANGED <<rows, clock, copies, hand, overtaken, accepted, weakened>>
  BY DEF Post, vdp_past, cache, Workers
<1>2. DOMAIN d \subseteq Objects
  BY DEF StoreAssumptions, DocAssumption
<1>3. InOrder(DOMAIN d) \in Seq(Objects) /\ \A o : Has(InOrder(DOMAIN d), o) <=> o \in DOMAIN d
  BY <1>2, Ordered DEF StoreAssumptions
<1>4. /\ \A u \in Workers : stage'[u] = IF u = w THEN "load" ELSE stage[u]
      /\ \A u \in Workers : doc'[u] = IF u = w THEN d ELSE doc[u]
      /\ \A u \in Workers : left'[u] = IF u = w THEN InOrder(DOMAIN d) ELSE left[u]
  BY <1>1 DEF StoreInv, StoreTypes
<1>5. StoreTypes'
  BY <1>1, <1>3, <1>4 DEF StoreInv, StoreTypes
<1>6. Grounds' /\ Ahead'
  <2>1. \A o \in Objects : Stored(o)' => RefsStored(o)'
    BY <1>1, Still DEF StoreInv, Grounds
  <2>2. \A u \in Workers : hand'[u] # None => RefsStored(hand[u].object)'
    BY <1>1 DEF StoreInv, Grounds, RefsStored, Stored
  <2>3. \A u \in Workers, o \in Objects : stage'[u] = "resave" /\ Has(left[u], o)' => Stored(o)'
    BY <1>1, <1>4 DEF StoreInv, Grounds, Has, Stored
  <2>4. \A u \in Workers, o \in Objects : stage'[u] = "load" /\ Has(left[u], o)' => o \in DOMAIN doc'[u]
    BY <1>3, <1>4 DEF StoreInv, Grounds, Has
  <2>5. Ahead'
    BY <1>1 DEF StoreInv, Ahead, Newer, Stored
  <2>. QED BY <2>1, <2>2, <2>3, <2>4, <2>5 DEF Grounds
<1>7. Saved'
  <2>1. \A o \in DOMAIN doc'[w] : ToSave(w, o)'
    BY <1>1, <1>3, <1>4 DEF ToSave
  <2>. QED BY <1>1, <1>4, <2>1, OthersSave
<1>. QED BY <1>5, <1>6, <1>7 DEF StoreInv

\* The next object of a document is looked at.
LEMMA LoadStore ==
  ASSUME StoreAssumptions, StoreInv, NEW w \in Posters, LoadProvider(w) \/ Load(w)
  PROVE  StoreInv'
<1>. DEFINE o == Head(left[w])
<1>1. /\ w \in Workers /\ stage[w] = "load" /\ left[w] # <<>> /\ hand[w] = None
      /\ left \in [Workers -> Seq(Objects)] /\ left[w] \in Seq(Objects)
      /\ left' = [left EXCEPT ![w] = Tail(left[w])]
      /\ UNCHANGED <<rows, clock, stage, doc, checkOnly, accepted, weakened>>
  BY DEF LoadProvider, Load, Loading, Workers, StoreInv, StoreTypes
<1>2. /\ RefsStored(o)
      /\ copies' \in [Workers -> [Providers -> Row \cup {None}]]
      /\ \E my \in BOOLEAN : Look(w, [object |-> o, version |-> doc[w][o], my |-> my])
  <2>1. CASE LoadProvider(w)
    <3>1. RefsStored(o) /\ Look(w, [object |-> o, version |-> doc[w][o], my |-> FALSE])
      BY <2>1 DEF LoadProvider, RefsStored, StoreAssumptions, OwnerAssumption
    <3>. QED BY <2>1, <3>1 DEF LoadProvider, cache, StoreInv, StoreTypes
  <2>2. CASE Load(w)
    <3>1. PICK row \in Reads(w, OwnerOf[o]) :
            /\ Look(w, [object |-> o, version |-> doc[w][o], my |-> OwnRow(OwnerOf[o], row)])
            /\ copies' = [copies EXCEPT ![w][OwnerOf[o]] = row]
      BY <2>2 DEF Load
    <3>2. Grounded(w, o)
      BY <2>2 DEF Load
    <3>3. RefsStored(o)
      BY <3>2 DEF Grounded, RefsStored, RefersTo, Fresh, StoreAssumptions, OwnerAssumption
    <3>4. OwnerOf[o] \in Providers
      BY <1>1, First DEF StoreAssumptions, OwnerAssumption
    <3>5. row \in Row
      BY <1>1, <3>1, <3>4, RowsRead
    <3>6. copies' \in [Workers -> [Providers -> Row \cup {None}]]
      BY <3>1, <3>5 DEF StoreInv, StoreTypes
    <3>. QED BY <3>1, <3>3, <3>5, <3>6, RowsRead
  <2>. QED BY <2>1, <2>2
<1>3. PICK my \in BOOLEAN : Look(w, [object |-> o, version |-> doc[w][o], my |-> my])
  BY <1>2
<1>. DEFINE item == [object |-> o, version |-> doc[w][o], my |-> my]
<1>4. /\ Tail(left[w]) \in Seq(Objects) /\ o \in Objects
      /\ \A x : Has(left[w], x) <=> Has(Tail(left[w]), x) \/ x = o
  BY <1>1, First
<1>5. \A u \in Workers : left'[u] = IF u = w THEN Tail(left[w]) ELSE left[u]
  BY <1>1
<1>6. o \in DOMAIN doc[w] /\ doc[w][o] \in Version /\ item \in Item
  <2>1. o \in DOMAIN doc[w] /\ doc[w] \in Docs
    BY <1>1, <1>4 DEF StoreInv, Grounds, StoreTypes
  <2>. QED BY <1>4, <2>1 DEF StoreAssumptions, DocAssumption, Item
<1>7. item.object = o /\ item.version = doc[w][o]
  OBVIOUS
<1>8. /\ hand' \in [Workers -> Item \cup {None}] /\ overtaken' \subseteq Workers
      /\ \A u \in Workers : hand'[u] # None => RefsStored(hand'[u].object)
      /\ Ahead'
      /\ hand'[w] = IF Newer(o, doc[w][o]) THEN None ELSE item
      /\ \A u \in Workers \ {w} : hand'[u] = hand[u]
  BY <1>1, <1>2, <1>3, <1>6, <1>7, Looked
<1>9. StoreTypes'
  BY <1>1, <1>2, <1>4, <1>8 DEF StoreInv, StoreTypes
<1>10. Grounds'
  <2>1. \A x \in Objects : Stored(x)' => RefsStored(x)'
    BY <1>1, Still DEF StoreInv, Grounds
  <2>2. \A u \in Workers : hand'[u] # None => RefsStored(hand[u].object)'
    BY <1>1, <1>8 DEF RefsStored, Stored
  <2>3. \A u \in Workers, x \in Objects : Has(left[u], x)' => Has(left[u], x)
    BY <1>4, <1>5 DEF Has
  <2>. QED BY <1>1, <2>1, <2>2, <2>3, Still DEF StoreInv, Grounds
<1>11. Saved'
  <2>1. ASSUME NEW x \in DOMAIN doc[w] PROVE ToSave(w, x)' \/ AtLeast(x, doc[w][x].revision)'
    <3>1. ToSave(w, x) \/ AtLeast(x, doc[w][x].revision)
      BY <1>1, <2>1 DEF StoreInv, Saved
    <3>2. CASE AtLeast(x, doc[w][x].revision)
      BY <1>1, <3>2 DEF AtLeast, Stored
    <3>3. CASE Has(Tail(left[w]), x)
      BY <1>1, <1>5, <3>3 DEF ToSave
    <3>4. CASE x = o /\ Newer(o, doc[w][o])
      <4>1. Stored(o) /\ rows[o].version.revision > doc[w][o].revision
        BY <3>4 DEF Newer
      <4>2. rows[o].version.revision \in Nat /\ doc[w][o].revision \in Nat
        BY <1>4, <1>6, <4>1 DEF Stored, StoreInv, StoreTypes, Row, Version
      <4>3. AtLeast(o, doc[w][o].revision)
        BY <4>1, <4>2 DEF AtLeast
      <4>. QED BY <1>1, <3>4, <4>3 DEF AtLeast, Stored
    <3>5. CASE x = o /\ ~Newer(o, doc[w][o])
      <4>1. hand'[w] = item
        BY <1>8, <3>5
      <4>2. item # None
        BY <1>6 DEF StoreAssumptions, VdpNoneAssumption
      <4>. QED BY <1>1, <1>7, <3>5, <4>1, <4>2 DEF ToSave
    <3>. QED BY <1>1, <1>4, <3>1, <3>2, <3>3, <3>4, <3>5 DEF ToSave
  <2>2. doc' = doc
    BY <1>1
  <2>3. \A x \in DOMAIN doc'[w] : ToSave(w, x)' \/ AtLeast(x, doc[w][x].revision)'
    BY <2>1, <2>2
  <2>. QED BY <1>1, <1>5, <1>8, <2>3, OthersSave
<1>. QED BY <1>8, <1>9, <1>10, <1>11 DEF StoreInv

\* A request ends.  Answered with 200, all of its objects are as new as the document says.
LEMMA DoneStore ==
  ASSUME StoreAssumptions, StoreInv, NEW w \in Workers, Done(w),
         UNCHANGED <<rows, clock, hand, overtaken, weakened>>,
         accepted' = accepted \/ (stage[w] # "idle" /\ Answered(w) /\ \A o : ~ToSave(w, o))
  PROVE  StoreInv'
<1>1. /\ stage' = [stage EXCEPT ![w] = "idle"] /\ doc' = [doc EXCEPT ![w] = None]
      /\ checkOnly' = [checkOnly EXCEPT ![w] = FALSE] /\ left' = [left EXCEPT ![w] = <<>>]
      /\ copies' = [copies EXCEPT ![w] = [p \in Providers |-> None]]
  BY DEF Done
<1>2. /\ \A u \in Workers : stage'[u] = IF u = w THEN "idle" ELSE stage[u]
      /\ \A u \in Workers \ {w} : doc'[u] = doc[u] /\ left'[u] = left[u]
  BY <1>1 DEF StoreInv, StoreTypes
<1>3. StoreTypes'
  <2>1. accepted' \subseteq Objects \X Nat
    <3>1. CASE stage[w] # "idle" /\ Answered(w)
      <4>1. \A o \in DOMAIN doc[w] : o \in Objects /\ doc[w][o].revision \in Nat
        BY <3>1 DEF StoreInv, StoreTypes, StoreAssumptions, DocAssumption, Version
      <4>. QED BY <3>1, <4>1 DEF Answered, StoreInv, StoreTypes
    <3>. QED BY <3>1 DEF StoreInv, StoreTypes
  <2>. QED BY <1>1, <1>2, <2>1 DEF StoreInv, StoreTypes
<1>4. Grounds'
  <2>1. \A o \in Objects : Stored(o)' => RefsStored(o)'
    BY Still DEF StoreInv, Grounds
  <2>2. \A u \in Workers : hand'[u] # None => RefsStored(hand[u].object)'
    BY DEF StoreInv, Grounds, RefsStored, Stored
  <2>3. \A u \in Workers, o \in Objects : stage'[u] = "resave" /\ Has(left[u], o)' => Stored(o)'
    BY <1>2 DEF StoreInv, Grounds, Has, Stored
  <2>4. \A u \in Workers, o \in Objects : stage'[u] = "load" /\ Has(left[u], o)' => o \in DOMAIN doc'[u]
    BY <1>2 DEF StoreInv, Grounds, Has
  <2>. QED BY <2>1, <2>2, <2>3, <2>4 DEF Grounds
<1>5. Ahead'
  BY DEF StoreInv, Ahead, Newer, Stored
<1>6. Saved'
  <2>1. \A a \in accepted' : a \in accepted \/ AtLeast(a[1], a[2])
    <3>1. CASE accepted' = accepted
      BY <3>1
    <3>2. CASE stage[w] # "idle" /\ Answered(w) /\ \A o : ~ToSave(w, o)
      <4>1. \A o \in DOMAIN doc[w] : AtLeast(o, doc[w][o].revision)
        BY <3>2 DEF StoreInv, Saved
      <4>2. accepted' = accepted \cup {<<o, doc[w][o].revision>> : o \in DOMAIN doc[w]}
        BY <3>2 DEF Answered
      <4>. QED BY <4>1, <4>2
    <3>. QED BY <3>1, <3>2
  <2>. QED BY <1>2, <2>1, OthersSave
<1>. QED BY <1>3, <1>4, <1>5, <1>6 DEF StoreInv

\* A request is refused, or has been worked off.
LEMMA EndStore ==
  ASSUME StoreAssumptions, StoreInv, NEW w \in Posters, Refuse(w) \/ Loaded(w) \/ Resaved(w)
  PROVE  StoreInv'
<1>1. w \in Workers
  BY DEF Workers
<1>2. \A o : ~Has(<<>>, o)
  BY DEF Has
<1>3. CASE Refuse(w)
  BY <1>1, <1>3, DoneStore DEF Refuse, vdp_past
<1>4. CASE Resaved(w)
  <2>1. \A o : ~ToSave(w, o)
    BY <1>4 DEF Resaved, ToSave
  <2>. QED BY <1>1, <1>4, <2>1, DoneStore DEF Resaved
<1>5. CASE Loaded(w) /\ checkOnly[w]
  <2>1. \A o : ~ToSave(w, o)
    BY <1>2, <1>5 DEF Loaded, ToSave
  <2>. QED BY <1>1, <1>5, <2>1, DoneStore DEF Loaded
<1>6. CASE Loaded(w) /\ ~checkOnly[w]
  <2>. DEFINE F == {o \in Objects : Fresh(o)}
              q == Reverse(InOrder(F))
  <2>1. /\ stage[w] = "load" /\ left[w] = <<>> /\ hand[w] = None
        /\ stage' = [stage EXCEPT ![w] = "resave"] /\ left' = [left EXCEPT ![w] = q]
        /\ UNCHANGED <<rows, clock, doc, checkOnly, copies, hand, overtaken, accepted, weakened>>
    BY <1>6 DEF Loaded, cache
  <2>2. q \in Seq(Objects) /\ \A o : Has(q, o) => o \in F
    <3>1. InOrder(F) \in Seq(Objects) /\ \A o : Has(InOrder(F), o) <=> o \in F
      BY Ordered DEF StoreAssumptions
    <3>. QED BY <3>1, Reversed
  <2>3. \A o : Has(q, o) => Stored(o)
    BY <2>2 DEF Fresh
  <2>. HIDE DEF q
  <2>4. /\ \A u \in Workers : stage'[u] = IF u = w THEN "resave" ELSE stage[u]
        /\ \A u \in Workers : left'[u] = IF u = w THEN q ELSE left[u]
    BY <1>1, <2>1 DEF StoreInv, StoreTypes
  <2>5. StoreTypes'
    BY <1>1, <2>1, <2>2, <2>4 DEF StoreInv, StoreTypes
  <2>6. Grounds'
    <3>1. \A o \in Objects : Stored(o)' => RefsStored(o)'
      BY <2>1, Still DEF StoreInv, Grounds
    <3>2. \A u \in Workers : hand'[u] # None => RefsStored(hand[u].object)'
      BY <2>1 DEF StoreInv, Grounds, RefsStored, Stored
    <3>3. \A u \in Workers, o \in Objects : stage'[u] = "resave" /\ Has(left[u], o)' => Stored(o)'
      BY <2>1, <2>3, <2>4 DEF StoreInv, Grounds, Has, Stored
    <3>4. \A u \in Workers, o \in Objects :
            stage'[u] = "load" /\ Has(left[u], o)' => o \in DOMAIN doc'[u]
      BY <2>1, <2>4 DEF StoreInv, Grounds, Has
    <3>. QED BY <3>1, <3>2, <3>3, <3>4 DEF Grounds
  <2>7. Ahead'
    BY <2>1 DEF StoreInv, Ahead, Newer, Stored
  <2>8. Saved'
    <3>1. \A o : ~ToSave(w, o)
      BY <1>2, <2>1 DEF ToSave
    <3>2. \A o \in DOMAIN doc[w] : AtLeast(o, doc[w][o].revision)
      BY <1>1, <2>1, <3>1 DEF StoreInv, Saved
    <3>3. doc' = doc /\ \A o \in DOMAIN doc[w] : AtLeast(o, doc[w][o].revision)'
      BY <2>1, <3>2 DEF AtLeast, Stored
    <3>4. \A o \in DOMAIN doc'[w] : AtLeast(o, doc[w][o].revision)'
      BY <3>3
    <3>. QED BY <1>1, <2>1, <2>4, <3>4, OthersSave
  <2>. QED BY <2>5, <2>6, <2>7, <2>8 DEF StoreInv
<1>. QED BY <1>3, <1>4, <1>5, <1>6

\* A saver that looks at a stored object to write it again, with its revision or a new one.
LEMMA AgainStore ==
  ASSUME StoreAssumptions, StoreInv, NEW w \in Workers, NEW item \in Item,
         Look(w, item), hand[w] = None, Stored(item.object),
         left' = left \/ (/\ stage[w] = "resave" /\ left[w] # <<>>
                          /\ left' = [left EXCEPT ![w] = Tail(left[w])]),
         UNCHANGED <<rows, clock, stage, doc, checkOnly, copies, accepted, weakened>>
  PROVE  StoreInv'
<1>1. RefsStored(item.object) /\ item.object \in Objects
  BY DEF StoreInv, Grounds, Item
<1>2. /\ hand' \in [Workers -> Item \cup {None}] /\ overtaken' \subseteq Workers
      /\ \A u \in Workers : hand'[u] # None => RefsStored(hand'[u].object)
      /\ Ahead'
      /\ \A u \in Workers \ {w} : hand'[u] = hand[u]
  BY <1>1, Looked
<1>3. /\ left' \in [Workers -> Seq(Objects)]
      /\ \A u \in Workers : left'[u] = left[u] \/ stage[u] = "resave"
      /\ \A u \in Workers : \A o : Has(left'[u], o) => Has(left[u], o)
  <2>1. left \in [Workers -> Seq(Objects)]
    BY DEF StoreInv, StoreTypes
  <2>2. CASE left' = left
    BY <2>1, <2>2
  <2>3. CASE /\ stage[w] = "resave" /\ left[w] # <<>>
             /\ left' = [left EXCEPT ![w] = Tail(left[w])]
    <3>1. Tail(left[w]) \in Seq(Objects) /\ \A o : Has(Tail(left[w]), o) => Has(left[w], o)
      BY <2>1, <2>3, First
    <3>. QED BY <2>1, <2>3, <3>1
  <2>. QED BY <2>2, <2>3
<1>4. StoreTypes'
  BY <1>2, <1>3 DEF StoreInv, StoreTypes
<1>5. Grounds'
  <2>1. \A o \in Objects : Stored(o)' => RefsStored(o)'
    BY Still DEF StoreInv, Grounds
  <2>2. \A u \in Workers : hand'[u] # None => RefsStored(hand[u].object)'
    BY <1>2 DEF RefsStored, Stored
  <2>3. \A u \in Workers : \A o : Has(left[u], o)' => Has(left[u], o)
    BY <1>3 DEF Has
  <2>. QED BY <2>1, <2>2, <2>3, Still DEF StoreInv, Grounds
<1>6. Saved'
  <2>1. ASSUME stage'[w] # "idle"
        PROVE  \A o \in DOMAIN doc'[w] : ToSave(w, o)' \/ AtLeast(o, doc[w][o].revision)'
    <3>. SUFFICES ASSUME NEW o \in DOMAIN doc[w]
                  PROVE  ToSave(w, o)' \/ AtLeast(o, doc[w][o].revision)'
      OBVIOUS
    <3>1. ToSave(w, o) \/ AtLeast(o, doc[w][o].revision)
      BY <2>1 DEF StoreInv, Saved
    <3>2. ToSave(w, o) => stage[w] = "load" /\ Has(left[w], o) /\ left'[w] = left[w]
      BY <1>3 DEF ToSave
    <3>3. ToSave(w, o) => ToSave(w, o)'
      BY <3>2 DEF ToSave, Has
    <3>. QED BY <3>1, <3>3 DEF AtLeast, Stored
  <2>2. \A u \in Workers \ {w} : left'[u] = left[u]
    BY DEF StoreInv, StoreTypes
  <2>. QED BY <1>2, <2>1, <2>2, OthersSave
<1>. QED BY <1>2, <1>4, <1>5, <1>6 DEF StoreInv

\* Saving everything again, and the operator's new revisions.
LEMMA ResaveStore ==
  ASSUME StoreAssumptions, StoreInv,
         (\E w \in Posters : Resave(w)) \/ (\E o \in Objects : Refresh(o))
  PROVE  StoreInv'
<1>1. ASSUME NEW w \in Posters, Resave(w) PROVE StoreInv'
  <2>. DEFINE o == Head(left[w])
  <2>1. /\ w \in Workers /\ stage[w] = "resave" /\ left[w] # <<>> /\ hand[w] = None
        /\ left' = [left EXCEPT ![w] = Tail(left[w])] /\ left[w] \in Seq(Objects)
        /\ UNCHANGED <<rows, clock, stage, doc, checkOnly, copies, accepted, weakened>>
    BY <1>1 DEF Resave, cache, Workers, StoreInv, StoreTypes
  <2>2. o \in Objects /\ Stored(o)
    BY <2>1, First DEF StoreInv, Grounds
  <2>3. CASE OwnerOf[o] \in readonly
    <3>1. UNCHANGED <<hand, overtaken>>
      BY <1>1, <2>3 DEF Resave
    <3>2. Tail(left[w]) \in Seq(Objects) /\ \A x : Has(Tail(left[w]), x) => Has(left[w], x)
      BY <2>1, First
    <3>3. /\ left' \in [Workers -> Seq(Objects)]
          /\ \A u \in Workers : \A x : Has(left'[u], x) => Has(left[u], x)
          /\ \A u \in Workers \ {w} : left'[u] = left[u]
      BY <2>1, <3>2 DEF StoreInv, StoreTypes
    <3>4. StoreTypes'
      BY <2>1, <3>1, <3>3 DEF StoreInv, StoreTypes
    <3>5. Grounds'
      <4>1. \A x \in Objects : Stored(x)' => RefsStored(x)'
        BY <2>1, Still DEF StoreInv, Grounds
      <4>2. \A u \in Workers : hand'[u] # None => RefsStored(hand[u].object)'
        BY <2>1, <3>1 DEF StoreInv, Grounds, RefsStored, Stored
      <4>3. \A u \in Workers : \A x : Has(left[u], x)' => Has(left[u], x)
        BY <3>3 DEF Has
      <4>. QED BY <2>1, <4>1, <4>2, <4>3, Still DEF StoreInv, Grounds
    <3>6. Ahead'
      BY <2>1, <3>1 DEF StoreInv, Ahead, Newer, Stored
    <3>7. Saved'
      <4>1. \A x : ~ToSave(w, x)
        BY <2>1 DEF ToSave
      <4>2. \A x \in DOMAIN doc[w] : AtLeast(x, doc[w][x].revision)
        BY <2>1, <4>1 DEF StoreInv, Saved
      <4>3. doc' = doc /\ \A x \in DOMAIN doc[w] : AtLeast(x, doc[w][x].revision)'
        BY <2>1, <4>2 DEF AtLeast, Stored
      <4>4. \A x \in DOMAIN doc'[w] : AtLeast(x, doc[w][x].revision)'
        BY <4>3
      <4>. QED BY <2>1, <3>1, <3>3, <4>4, OthersSave
    <3>. QED BY <3>4, <3>5, <3>6, <3>7 DEF StoreInv
  <2>4. CASE OwnerOf[o] \notin readonly
    <3>1. CASE o \in Providers
      <4>1. PICK row \in Reads(w, o) :
              Look(w, [object |-> o, version |-> row.version, my |-> OwnRow(o, row)])
        BY <1>1, <2>4, <3>1 DEF Resave
      <4>. DEFINE item == [object |-> o, version |-> row.version, my |-> OwnRow(o, row)]
      <4>2. row \in Row /\ OwnRow(o, row) \in BOOLEAN
        BY <2>1, <3>1, RowsRead
      <4>3. item \in Item /\ item.object = o /\ Look(w, item)
        BY <2>2, <4>1, <4>2 DEF Item, Row
      <4>. HIDE DEF item
      <4>. QED BY <2>1, <2>2, <4>3, AgainStore
    <3>2. CASE o \notin Providers
      <4>. DEFINE item == [object |-> o, version |-> rows[o].version,
                           my |-> rows[o].my \/ Local(OwnerOf[o])]
      <4>1. Look(w, item)
        BY <1>1, <2>4, <3>2 DEF Resave
      <4>2. rows[o] \in Row
        BY <2>2 DEF Stored, StoreInv, StoreTypes
      <4>3. item \in Item /\ item.object = o
        BY <2>2, <4>2 DEF Item, Row, Local, OwnRow, Stored, StoreInv, StoreTypes, StoreAssumptions,
                          VdpBounds, OwnerAssumption, Objects
      <4>. HIDE DEF item
      <4>. QED BY <2>1, <2>2, <4>1, <4>3, AgainStore
    <3>. QED BY <3>1, <3>2
  <2>. QED BY <2>3, <2>4
<1>2. ASSUME NEW o \in Objects, Refresh(o) PROVE StoreInv'
  <2>. DEFINE v == [rows[o].version EXCEPT !.revision = clock]
              item == [object |-> o, my |-> TRUE, version |-> v]
  <2>1. /\ hand[Mgmt] = None /\ Stored(o) /\ Look(Mgmt, item) /\ Mgmt \in Workers
        /\ UNCHANGED <<rows, clock, stage, doc, checkOnly, copies, left, accepted, weakened>>
    BY <1>2 DEF Refresh, cache, Workers
  <2>2. rows[o].version \in Version /\ clock \in 0..MaxClock
    BY <2>1 DEF Stored, StoreInv, StoreTypes, Row, StoreAssumptions, VdpBounds
  <2>3. v \in Version
    BY <2>2 DEF Version
  <2>4. item \in Item /\ item.object = o
    BY <2>3 DEF Item
  <2>. HIDE DEF item
  <2>. QED BY <2>1, <2>4, AgainStore
<1>. QED BY <1>1, <1>2

\* The write: the row gets the revision that was held, which is as new, or the object is weakened.
LEMMA WriteStore ==
  ASSUME StoreAssumptions, StoreInv, NEW w \in Workers, Write(w)
  PROVE  StoreInv'
<1>0. PICK item \in Item : item = hand[w] /\ item # None
  BY DEF Write, StoreInv, StoreTypes
<1>. DEFINE o == item.object
            row == [version |-> item.version, my |-> item.my]
<1>1. /\ o \in Objects /\ item.version \in Version /\ row \in Row
      /\ hand \in [Workers -> Item \cup {None}] /\ rows \in [Objects -> Row \cup {None}]
  BY <1>0 DEF StoreInv, StoreTypes, Item, Row
<1>2. /\ rows' = [rows EXCEPT ![o] = row]
      /\ overtaken' = overtaken \cup {u \in Workers \ {w} : hand[u] # None /\ hand[u].object = o}
      /\ weakened' = IF w \in overtaken \/ item.version.revision = 0
                     THEN weakened \cup {o} ELSE weakened
      /\ hand' = [hand EXCEPT ![w] = None]
      /\ UNCHANGED <<clock, stage, doc, checkOnly, copies, left, accepted>>
  BY <1>0 DEF Write, cache
<1>3. /\ \A x \in Objects : rows'[x] = IF x = o THEN row ELSE rows[x]
      /\ \A u \in Workers : hand'[u] = IF u = w THEN None ELSE hand[u]
      /\ row # None
  BY <1>1, <1>2 DEF StoreAssumptions, VdpNoneAssumption
<1>4. StoreTypes'
  BY <1>1, <1>2 DEF StoreInv, StoreTypes
<1>5. \A x \in Objects : Stored(x)' <=> Stored(x) \/ x = o
  BY <1>3 DEF Stored
<1>6. \A x \in Objects : RefersTo(x) \subseteq Objects
  BY DEF RefersTo, Objects, StoreAssumptions, OwnerAssumption
<1>7. \A x \in Objects : RefsStored(x) => RefsStored(x)'
  BY <1>5, <1>6 DEF RefsStored
<1>8. \A u \in Workers : hand[u] # None => hand[u].object \in Objects /\ RefsStored(hand[u].object)
  BY <1>1 DEF StoreInv, Grounds, Item
<1>9. Grounds'
  <2>1. \A x \in Objects : Stored(x)' => RefsStored(x)'
    BY <1>0, <1>1, <1>5, <1>7, <1>8 DEF StoreInv, Grounds
  <2>2. \A u \in Workers : hand'[u] # None => RefsStored(hand[u].object)'
    <3>. SUFFICES ASSUME NEW u \in Workers, hand'[u] # None PROVE RefsStored(hand[u].object)'
      OBVIOUS
    <3>1. hand'[u] = hand[u] /\ hand[u] # None
      BY <1>3
    <3>2. \A r \in RefersTo(hand[u].object) :
            (Stored(r) /\ r \in Objects) \/ hand[u].object \notin Spaces \cup Gates
      BY <1>6, <1>8, <3>1 DEF RefsStored
    <3>. QED BY <1>5, <1>6, <1>8, <3>1 DEF RefsStored
  <2>3. \A u \in Workers, x \in Objects : stage'[u] = "resave" /\ Has(left[u], x)' => Stored(x)'
    BY <1>2, <1>5 DEF StoreInv, Grounds, Has
  <2>4. \A u \in Workers, x \in Objects : stage'[u] = "load" /\ Has(left[u], x)' => x \in DOMAIN doc'[u]
    BY <1>2 DEF StoreInv, Grounds, Has
  <2>. QED BY <2>1, <2>2, <2>3, <2>4 DEF Grounds
<1>10. Ahead'
  <2>. SUFFICES ASSUME NEW u \in Workers, hand'[u] # None, u \notin overtaken'
                PROVE  ~Newer(hand[u].object, hand[u].version)'
    BY DEF Ahead
  <2>1. u # w /\ hand'[u] = hand[u] /\ hand[u].object # o /\ u \notin overtaken /\ hand[u] # None
    BY <1>2, <1>3
  <2>2. hand[u].object \in Objects /\ ~Newer(hand[u].object, hand[u].version)
    BY <1>8, <2>1 DEF StoreInv, Ahead
  <2>3. rows'[hand[u].object] = rows[hand[u].object]
    BY <1>3, <2>1, <2>2
  <2>. QED BY <2>1, <2>2, <2>3 DEF Newer, Stored
<1>11. \A x \in Objects, r \in Nat : AtLeast(x, r) => AtLeast(x, r)'
  <2>. SUFFICES ASSUME NEW x \in Objects, NEW r \in Nat, AtLeast(x, r) PROVE AtLeast(x, r)'
    OBVIOUS
  <2>1. CASE x \in weakened
    BY <1>2, <2>1 DEF AtLeast
  <2>2. CASE x # o /\ x \notin weakened
    BY <1>3, <2>2 DEF AtLeast, Stored
  <2>3. CASE x = o /\ x \notin weakened /\ (w \in overtaken \/ item.version.revision = 0)
    BY <1>2, <2>3 DEF AtLeast
  <2>4. CASE x = o /\ x \notin weakened /\ w \notin overtaken /\ item.version.revision # 0
    <3>1. Stored(o) /\ rows[o].version.revision >= r
      BY <2>4 DEF AtLeast
    <3>2. item.version.revision \in Nat /\ item.version.revision > 0 /\ rows[o].version.revision \in Nat
      BY <1>1, <2>4, <3>1 DEF Version, Row, Stored
    <3>3. ~(rows[o].version.revision > item.version.revision)
      BY <1>0, <1>1, <2>4, <3>1, <3>2 DEF StoreInv, Ahead, Newer
    <3>4. Stored(o)' /\ rows'[o].version.revision = item.version.revision
      BY <1>1, <1>3 DEF Stored
    <3>. QED BY <2>4, <3>1, <3>2, <3>3, <3>4 DEF AtLeast
  <2>. QED BY <2>1, <2>2, <2>3, <2>4
<1>12. AtLeast(o, item.version.revision)'
  <2>1. Stored(o)' /\ rows'[o].version.revision = item.version.revision /\ item.version.revision \in Nat
    BY <1>1, <1>3 DEF Stored, Version
  <2>. QED BY <2>1 DEF AtLeast
<1>13. ASSUME NEW u \in Workers, stage[u] # "idle", NEW x \in DOMAIN doc[u]
       PROVE  ToSave(u, x)' \/ AtLeast(x, doc[u][x].revision)'
  <2>1. doc[u] \in Docs /\ x \in Objects /\ doc[u][x] \in Version /\ doc' = doc
    BY <1>2, <1>13 DEF StoreInv, StoreTypes, StoreAssumptions, DocAssumption
  <2>2. doc[u][x].revision \in Nat
    BY <2>1 DEF Version
  <2>3. ToSave(u, x) \/ AtLeast(x, doc[u][x].revision)
    BY <1>13 DEF StoreInv, Saved
  <2>4. CASE AtLeast(x, doc[u][x].revision)
    <3>1. \A r \in Nat : AtLeast(x, r) => AtLeast(x, r)'
      BY <1>11, <2>1
    <3>2. AtLeast(x, doc[u][x].revision)'
      BY <2>1, <2>2, <2>4, <3>1 DEF AtLeast
    <3>. QED BY <3>2
  <2>5. CASE stage[u] = "load" /\ Has(left[u], x)
    BY <1>2, <2>5 DEF ToSave, Has
  <2>6. CASE u = w /\ o = x /\ item.version = doc[u][x]
    BY <1>12, <2>1, <2>6
  <2>7. CASE u # w /\ hand[u] # None /\ hand[u].object = x /\ hand[u].version = doc[u][x]
    BY <1>3, <2>1, <2>7 DEF ToSave
  <2>. QED BY <1>0, <2>3, <2>4, <2>5, <2>6, <2>7 DEF ToSave
<1>14. Saved'
  <2>1. \A a \in accepted : a[1] \in Objects /\ a[2] \in Nat
    BY DEF StoreInv, StoreTypes
  <2>2. \A a \in accepted : AtLeast(a[1], a[2])'
    BY <1>11, <2>1 DEF StoreInv, Saved
  <2>. QED BY <1>2, <1>13, <2>2 DEF Saved
<1>. QED BY <1>4, <1>9, <1>10, <1>14 DEF StoreInv

\* The clock and the restarts touch neither rows nor savers.
LEMMA IdleStore ==
  ASSUME StoreAssumptions, StoreInv, VdpRestart \/ Tick \/ UNCHANGED vdp_vars
  PROVE  StoreInv'
<1>1. /\ UNCHANGED <<rows, stage, doc, checkOnly, left, copies, hand, overtaken, accepted, weakened>>
      /\ clock' \in 1..MaxClock
  BY DEF VdpRestart, Tick, vdp_vars, worker, cache, vdp_past, StoreInv, StoreTypes,
           StoreAssumptions, VdpBounds
<1>2. StoreTypes'
  BY <1>1 DEF StoreInv, StoreTypes
<1>3. Grounds'
  BY <1>1 DEF StoreInv, Grounds, RefsStored, Stored, Has
<1>4. Ahead' /\ Saved'
  BY <1>1 DEF StoreInv, Ahead, Newer, Stored, Saved, ToSave, AtLeast, Has
<1>. QED BY <1>2, <1>3, <1>4 DEF StoreInv

-------------------------------------------------------------------------------
(***************************************************************************)
(* The inductive invariant of the descriptions: what every saver holds, is *)
(* still to save and has been told, against the rows.                      *)
(***************************************************************************)
THEOREM StoreInvariant == ASSUME StoreAssumptions PROVE VdpSpec => []StoreInv
<1>1. VdpInit => StoreInv
  BY InitStore
<1>2. StoreInv /\ [VdpNext]_vdp_vars => StoreInv'
  BY PostStore, LoadStore, EndStore, ResaveStore, WriteStore, IdleStore DEF VdpNext, PosterStep
<1>. QED BY <1>1, <1>2, PTL DEF VdpSpec

(***************************************************************************)
(* Whatever is posted, refused and saved again at the same time, a stored  *)
(* space or gate has what it refers to stored.                             *)
(***************************************************************************)
THEOREM ReferencesAreStored == ASSUME StoreAssumptions PROVE VdpSpec => []References
<1>1. StoreInv => References
  BY DEF StoreInv, Grounds, RefsStored, References, Objects
<1>. QED BY <1>1, StoreInvariant, PTL

(***************************************************************************)
(* A description that was answered with 200 is replaced by an older one    *)
(* only when that has no revision or when savers overtook each other.      *)
(***************************************************************************)
THEOREM AcceptedStays == ASSUME StoreAssumptions PROVE VdpSpec => []AcceptedIsKept
<1>1. StoreInv => AcceptedIsKept
  BY DEF StoreInv, Saved, AtLeast, AcceptedIsKept
<1>. QED BY <1>1, StoreInvariant, PTL

-------------------------------------------------------------------------------
(***************************************************************************)
(* Types.                                                                  *)
(***************************************************************************)

\* What StoreInv leaves out of the types.
StoreRest ==
  /\ readonly \subseteq Providers /\ up \in BOOLEAN
  /\ known \in [Workers -> (SUBSET Providers) \cup {None}]
  /\ accepted \subseteq Objects \X (0..MaxClock) /\ weakened \subseteq Objects
  /\ posts \in 0..MaxPosts /\ refreshes \in 0..MaxRefreshes
  /\ \A w \in Posters : Idle(w) => hand[w] = None /\ left[w] = <<>>

\* The answer to a document is about objects and their revisions.
LEMMA AnswerTyped ==
  ASSUME StoreAssumptions, StoreInv, StoreRest, NEW w \in Workers, stage[w] # "idle", Answered(w)
  PROVE  accepted' \subseteq Objects \X (0..MaxClock)
<1>1. doc[w] \in Docs
  BY DEF StoreInv, StoreTypes
<1>2. \A o \in DOMAIN doc[w] : o \in Objects /\ doc[w][o].revision \in 0..MaxClock
  BY <1>1 DEF StoreAssumptions, DocAssumption, Version
<1> QED BY <1>2 DEF Answered, StoreRest

\* What is known of the providers, for one worker.
LEMMA KnownTyped ==
  ASSUME StoreRest, NEW w \in Workers, NEW ps \in (SUBSET Providers) \cup {None},
         known' = [known EXCEPT ![w] = ps]
  PROVE  known' \in [Workers -> (SUBSET Providers) \cup {None}]
<1>. DEFINE K == (SUBSET Providers) \cup {None}
<1>1. known \in [Workers -> K] /\ ps \in K
  BY DEF StoreRest
<1>. HIDE DEF K
<1>2. known' \in [Workers -> K]
  BY <1>1
<1> QED BY <1>2 DEF K

\* The end of a request, accepted or refused.
LEMMA DoneTyped ==
  ASSUME StoreInv, StoreRest, NEW w \in Posters, Done(w), hand[w] = None,
         accepted' \subseteq Objects \X (0..MaxClock),
         UNCHANGED <<readonly, up, hand, weakened, vdp_bounds>>
  PROVE  StoreRest'
<1>1. w \in Workers /\ Posters \subseteq Workers
  BY DEF Workers
<1>2. known' \in [Workers -> (SUBSET Providers) \cup {None}]
  BY <1>1, KnownTyped DEF Done
<1>3. /\ left'[w] = <<>>
      /\ \A u \in Posters \ {w} : stage'[u] = stage[u] /\ left'[u] = left[u]
  BY <1>1 DEF Done, StoreInv, StoreTypes
<1> QED BY <1>1, <1>2, <1>3 DEF StoreRest, Idle, vdp_bounds

\* The steps of a request up to its end.
LEMMA PosterTyped ==
  ASSUME StoreAssumptions, StoreInv, StoreRest, NEW w \in Posters, PosterStep(w)
  PROVE  StoreRest'
<1>1. w \in Workers /\ Posters \subseteq Workers
  BY DEF Workers
<1>2. ASSUME NEW d \in Docs, NEW check \in BOOLEAN, Post(w, d, check)
      PROVE  StoreRest'
  <2>1. posts' \in 0..MaxPosts
    BY <1>2 DEF Post, StoreRest, StoreAssumptions, VdpBounds
  <2>2. known' \in [Workers -> (SUBSET Providers) \cup {None}]
    BY <1>2 DEF Post, cache, StoreRest
  <2>3. /\ stage'[w] = "load"
        /\ \A u \in Posters \ {w} : stage'[u] = stage[u] /\ left'[u] = left[u]
    BY <1>1, <1>2 DEF Post, StoreInv, StoreTypes
  <2> QED BY <1>2, <2>1, <2>2, <2>3 DEF Post, StoreRest, Idle, vdp_past
<1>3. ASSUME LoadProvider(w) \/ Load(w) \/ Resave(w)
      PROVE  StoreRest'
  <2>1. known' \in [Workers -> (SUBSET Providers) \cup {None}]
    BY <1>1, <1>3 DEF LoadProvider, Load, Resave, Known, cache, StoreRest
  <2>2. /\ stage[w] # "idle" /\ stage' = stage
        /\ \A u \in Posters \ {w} : left'[u] = left[u] /\ hand'[u] = hand[u]
    BY <1>1, <1>3 DEF LoadProvider, Load, Loading, Resave, Look, StoreInv, StoreTypes
  <2> QED BY <1>3, <2>1, <2>2 DEF LoadProvider, Load, Resave, StoreRest, Idle, vdp_bounds
<1>4. CASE Refuse(w)
  BY <1>4, DoneTyped DEF Refuse, Loading, vdp_past, StoreRest
<1>5. CASE Resaved(w)
  <2>1. accepted' \subseteq Objects \X (0..MaxClock)
    BY <1>1, <1>5, AnswerTyped DEF Resaved
  <2> QED BY <1>5, <2>1, DoneTyped DEF Resaved
<1>6. CASE Loaded(w) /\ checkOnly[w]
  <2>1. accepted' \subseteq Objects \X (0..MaxClock)
    BY <1>1, <1>6, AnswerTyped DEF Loaded
  <2> QED BY <1>6, <2>1, DoneTyped DEF Loaded
<1>7. CASE Loaded(w) /\ ~checkOnly[w]
  <2>1. /\ stage[w] # "idle" /\ stage'[w] = "resave"
        /\ \A u \in Posters \ {w} : stage'[u] = stage[u] /\ left'[u] = left[u]
    BY <1>1, <1>7 DEF Loaded, StoreInv, StoreTypes
  <2> QED BY <1>7, <2>1 DEF Loaded, StoreRest, Idle, cache, vdp_bounds
<1> QED BY <1>2, <1>3, <1>4, <1>5, <1>6, <1>7 DEF PosterStep

LEMMA StoreRestTyped ==
  ASSUME StoreAssumptions, StoreInv, StoreRest, [VdpNext]_vdp_vars
  PROVE  StoreRest'
<1>1. ASSUME NEW w \in Workers, Write(w)
      PROVE  StoreRest'
  <2>1. hand[w].object \in Objects
    BY <1>1 DEF Write, StoreInv, StoreTypes, Item
  <2>2. weakened' \subseteq Objects
    BY <1>1, <2>1 DEF Write, StoreRest
  <2>3. \A u \in Posters : hand[u] = None => hand'[u] = None
    BY <1>1 DEF Write, StoreInv, StoreTypes, Workers
  <2> QED BY <1>1, <2>2, <2>3 DEF Write, StoreRest, Idle, cache, vdp_bounds
<1>2. ASSUME NEW o \in Objects, Refresh(o)
      PROVE  StoreRest'
  <2>1. refreshes' \in 0..MaxRefreshes
    BY <1>2 DEF Refresh, StoreRest, StoreAssumptions, VdpBounds
  <2>2. \A u \in Posters : u # Mgmt /\ hand'[u] = hand[u]
    BY <1>2 DEF Refresh, Look, StoreInv, StoreTypes, Workers, StoreAssumptions, VdpBounds
  <2> QED BY <1>2, <2>1, <2>2 DEF Refresh, StoreRest, Idle, cache
<1>3. CASE VdpRestart
  BY <1>3 DEF VdpRestart, OwnObjects, StoreRest, Idle, worker, cache, vdp_past, vdp_bounds
<1>4. CASE Tick \/ UNCHANGED vdp_vars
  BY <1>4 DEF Tick, StoreRest, Idle, vdp_vars, worker, cache, vdp_past, vdp_bounds
<1> QED BY <1>1, <1>2, <1>3, <1>4, PosterTyped DEF VdpNext

(***************************************************************************)
(* Every variable of the model of the descriptions keeps its type: a       *)
(* thread between two requests holds no object and has none left to save.  *)
(***************************************************************************)
THEOREM VdpTypeCorrect == ASSUME StoreAssumptions PROVE VdpSpec => []VdpTypeOK
<1>1. VdpInit => StoreRest
  <2>. SUFFICES ASSUME VdpInit PROVE StoreRest
    OBVIOUS
  <2>1. known \in [Workers -> (SUBSET Providers) \cup {None}]
    BY DEF VdpInit
  <2>2. \A w \in Posters : hand[w] = None /\ left[w] = <<>>
    BY DEF VdpInit, Workers
  <2>3. posts \in 0..MaxPosts /\ refreshes \in 0..MaxRefreshes
    BY DEF VdpInit, StoreAssumptions, VdpBounds
  <2>4. readonly \subseteq Providers /\ up \in BOOLEAN /\ accepted = {} /\ weakened = {}
    BY DEF VdpInit
  <2> QED BY <2>1, <2>2, <2>3, <2>4 DEF StoreRest
<1>2. StoreInv /\ StoreRest /\ [VdpNext]_vdp_vars => StoreRest'
  BY StoreRestTyped
<1>3. StoreInv /\ StoreRest => VdpTypeOK
  BY DEF StoreInv, StoreTypes, StoreRest, VdpTypeOK
<1> QED BY <1>1, <1>2, <1>3, StoreInvariant, PTL DEF VdpSpec
===============================================================================

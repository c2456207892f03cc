--------------------------- MODULE MapPartsProofs ---------------------------
(***************************************************************************)
(* What holds of the parts of a map that share no state: the tile memory   *)
(* cache, what the map reports of its tiles, overlays and options, the     *)
(* loop of the interactive map, and the view. They are checked together    *)
(* (MCMapParts) and proved here one after the other, each for every value  *)
(* of its own constants; nothing of one is used for another.               *)
(***************************************************************************)
EXTENDS TileCache, MapReport, HostLoop, MapView, FoldTheorems, SequenceTheorems

-----------------------------------------------------------------------------
(***************************************************************************)
(* The tile memory cache.                                                  *)
(*                                                                         *)
(* Need comes first: nothing short of a purge makes what a live view draws *)
(* worse (DrawnStays). Each settling keeps the first tile on hand of every *)
(* chain it is given (SettlingKeepsNeed), and what an operation adds to    *)
(* the cache before it settles can only put a nearer tile in that place.   *)
(* Over its cap the cache holds need alone (NeedAloneIsOver): a settling   *)
(* drops the oldest it can spare until the bytes left fit, so that the     *)
(* bytes counted must be the bytes kept, a sum in every state (CacheInv).  *)
(***************************************************************************)

\* A chain with anything on hand has a first place on hand.
LEMMA SomeFirst ==
    ASSUME NEW chain \in Seq(Keys), NEW S, OnHand(chain, S) # {}
    PROVE  \E i \in DOMAIN chain : IsFirst(i, chain, S)
<1> DEFINE earlier == {p \in Nat \X Nat : p[1] < p[2]}
<1>1. OnHand(chain, S) \subseteq Nat
  BY DEF OnHand
<1>2. IsWellFoundedOn(earlier, Nat)
  BY NatLessThanWellFounded DEF OpToRel
<1>3. \A i, j \in Nat : i < j => <<i, j>> \in earlier
  OBVIOUS
<1> HIDE DEF earlier
<1>4. PICK i \in OnHand(chain, S) : \A j \in OnHand(chain, S) : <<j, i>> \notin earlier
  BY <1>1, <1>2, WFMin
<1>5. ASSUME NEW j \in OnHand(chain, S) PROVE i <= j
  <2>1. i \in Nat /\ j \in Nat
    BY <1>1
  <2>2. ~(j < i)
    BY <2>1, <1>3, <1>4
  <2> QED
    BY <2>1, <2>2
<1> QED
  BY <1>5 DEF OnHand, IsFirst

\* The first place on hand of a live view's chain holds a needed tile.
LEMMA FirstIsNeeded ==
    ASSUME NEW S, NEW live, NEW wanted, NEW m \in live,
           NEW chain \in wanted[m],
           NEW i \in DOMAIN chain, IsFirst(i, chain, S)
    PROVE  chain[i] \in neededLocked(S, live, wanted)
<1>1. chain[i] \in firstLocked(chain, S)
  BY DEF firstLocked
<1> QED
  BY <1>1 DEF neededLocked

\* Settling keeps, of every chain of a live view, a place at or before any that
\* was on hand.
LEMMA SettlingKeepsNeed ==
    ASSUME NEW S, NEW weigh, NEW total, NEW order, NEW live, NEW wanted,
           settleLocked(S, weigh, total, order, live, wanted),
           NEW m \in live, NEW chain \in wanted[m], chain \in Seq(Keys),
           NEW i \in OnHand(chain, S)
    PROVE  \E j \in OnHand(chain, items') : j <= i
<1>1. PICK f \in DOMAIN chain : IsFirst(f, chain, S)
  BY SomeFirst
<1>2. chain[f] \in neededLocked(S, live, wanted)
  BY <1>1, FirstIsNeeded
<1>3. PICK shed \in SUBSET S :
         /\ IsShed(shed, S, weigh, total, order, neededLocked(S, live, wanted))
         /\ items' = S \ shed
  BY DEF settleLocked
<1>4. chain[f] \in items'
  BY <1>1, <1>2, <1>3 DEF IsShed, IsFirst, OnHand
<1> QED
  BY <1>1, <1>4 DEF IsFirst, OnHand

\* What DrawnNeverWorse rests on: a registered view's chains are sequences.
ChainsTyped ==
    /\ views \subseteq Maps
    /\ chains \in [Maps -> Wanted]

LEMMA InitTyped == Init => ChainsTyped
  BY CacheAssumption DEF Init, ChainsTyped

LEMMA NextTyped == ChainsTyped /\ [Next]_vars => ChainsTyped'
<1> SUFFICES ASSUME ChainsTyped, [Next]_vars PROVE ChainsTyped'
  OBVIOUS
<1> USE DEF ChainsTyped
<1>1. ASSUME NEW k \in Keys, NEW n \in Sizes, Put(k, n) PROVE ChainsTyped'
  BY <1>1 DEF Put, settleLocked
<1>2. ASSUME NEW k \in Keys, Read(k) PROVE ChainsTyped'
  BY <1>2 DEF Read
<1>3. ASSUME NEW m \in Maps, Register(m) PROVE ChainsTyped'
  BY <1>3, CacheAssumption DEF Register
<1>4. ASSUME NEW m \in Maps, Withdraw(m) PROVE ChainsTyped'
  BY <1>4, CacheAssumption DEF Withdraw, settleLocked
<1>5. ASSUME NEW m \in Maps, NEW wanted \in Wanted, Publish(m, wanted)
      PROVE  ChainsTyped'
  BY <1>5 DEF Publish, settleLocked
<1>6. CASE EmptyFetched
  BY <1>6 DEF EmptyFetched
<1>7. CASE TakeWarning
  BY <1>7 DEF TakeWarning
<1>8. CASE UNCHANGED vars
  BY <1>8 DEF vars
<1> QED
  BY <1>1, <1>2, <1>3, <1>4, <1>5, <1>6, <1>7, <1>8 DEF Next

\* One operation keeps or betters every chain a live view did not give up.
LEMMA StepKeepsDrawn ==
    ASSUME ChainsTyped, [Next]_vars, ~EmptyFetched,
           NEW m \in views \cap views', NEW chain \in chains[m] \cap chains'[m]
    PROVE  KeptOrBetter(chain)
<1>1. chain \in Seq(Keys)
  BY CacheAssumption DEF ChainsTyped
<1> SUFFICES ASSUME NEW i \in OnHand(chain, items)
             PROVE  \E j \in OnHand(chain, items') : j <= i
  BY DEF KeptOrBetter
<1>2. i \in Nat
  BY <1>1 DEF OnHand
<1>3. ASSUME NEW k \in Keys, NEW n \in Sizes, Put(k, n)
      PROVE  \E j \in OnHand(chain, items') : j <= i
  <2>1. i \in OnHand(chain, items \cup {k})
    BY DEF OnHand
  <2>2. settleLocked(items \cup {k}, [bytes EXCEPT ![k] = n],
                     held - bytes[k] + n, Touched(older, items, k), views, chains)
    BY <1>3 DEF Put
  <2> QED
    BY <1>1, <2>1, <2>2, SettlingKeepsNeed
<1>4. ASSUME NEW w \in Maps, Withdraw(w)
      PROVE  \E j \in OnHand(chain, items') : j <= i
  <2> DEFINE left == [chains EXCEPT ![w] = {}]
  <2>1. settleLocked(items, bytes, held, older, views \ {w}, left)
    BY <1>4 DEF Withdraw
  <2>2. m \in views \ {w} /\ chain \in left[m]
    BY <2>1 DEF settleLocked
  <2> HIDE DEF left
  <2> QED
    BY <1>1, <2>1, <2>2, SettlingKeepsNeed
<1>5. ASSUME NEW w \in Maps, NEW wanted \in Wanted, Publish(w, wanted)
      PROVE  \E j \in OnHand(chain, items') : j <= i
  <2> DEFINE now == [chains EXCEPT ![w] = wanted]
  <2>1. settleLocked(items, bytes, held, older, views, now)
    BY <1>5 DEF Publish
  <2>2. m \in views /\ chain \in now[m]
    BY <2>1 DEF settleLocked
  <2> HIDE DEF now
  <2> QED
    BY <1>1, <2>1, <2>2, SettlingKeepsNeed
<1>6. ASSUME items' = items
      PROVE  \E j \in OnHand(chain, items') : j <= i
  BY <1>2, <1>6
<1>7. (\E k \in Keys : Read(k)) \/ (\E w \in Maps : Register(w)) \/ TakeWarning
          \/ UNCHANGED vars => items' = items
  BY DEF Read, Register, TakeWarning, vars
<1> QED
  BY <1>3, <1>4, <1>5, <1>6, <1>7 DEF Next

\* "A tile a live view draws is never evicted", for every cache.
THEOREM DrawnStays == Spec => DrawnNeverWorse
<1>1. ChainsTyped /\ [Next]_vars =>
         [EmptyFetched \/
            \A m \in views \cap views' : \A chain \in chains[m] \cap chains'[m] :
                KeptOrBetter(chain)]_vars
  BY StepKeepsDrawn
<1> QED
  BY <1>1, InitTyped, NextTyped, PTL DEF Spec, DrawnNeverWorse

-----------------------------------------------------------------------------
(* The count of bytes, and the cap.                                        *)

\* The bytes of a set of tiles are a sum.
LEMMA BytesAreASum ==
    ASSUME NEW S, NEW weigh
    PROVE  BytesOf(S, weigh) = SumOf(weigh, S)
BY DEF BytesOf, SumOf, SumsUp, MapThenSumSet, MapThenFoldSet

LEMMA NeedIsOnHand ==
    ASSUME NEW S, NEW live, NEW wanted
    PROVE  neededLocked(S, live, wanted) \subseteq S
BY DEF neededLocked, firstLocked, IsFirst, OnHand

\* Giving up spares changes nothing about what is need.
LEMMA NeedStaysNeed ==
    ASSUME NEW S, NEW live \in SUBSET Maps, NEW wanted \in [Maps -> Wanted],
           NEW T \in SUBSET S, neededLocked(S, live, wanted) \subseteq T
    PROVE  neededLocked(T, live, wanted) = neededLocked(S, live, wanted)
<1>1. ASSUME NEW m \in live, NEW chain \in wanted[m]
      PROVE  firstLocked(chain, T) = firstLocked(chain, S)
  <2>1. chain \in Seq(Keys)
    BY CacheAssumption DEF CacheAssumption
  <2>2. DOMAIN chain \subseteq Nat
    BY <2>1
  <2>3. ASSUME NEW i \in DOMAIN chain, IsFirst(i, chain, S)
        PROVE  IsFirst(i, chain, T)
    <3>1. chain[i] \in T
      BY <1>1, <2>3, FirstIsNeeded
    <3> QED
      BY <2>3, <3>1 DEF IsFirst, OnHand
  <2>4. ASSUME NEW i \in DOMAIN chain, IsFirst(i, chain, T)
        PROVE  IsFirst(i, chain, S)
    <3>1. i \in OnHand(chain, S)
      BY <2>4 DEF IsFirst, OnHand
    <3>2. PICK f \in DOMAIN chain : IsFirst(f, chain, S)
      BY <2>1, <3>1, SomeFirst
    <3>3. f <= i /\ i <= f
      BY <2>3, <2>4, <3>1, <3>2 DEF IsFirst
    <3> QED
      BY <2>2, <3>2, <3>3
  <2> QED
    BY <2>3, <2>4 DEF firstLocked
<1> QED
  BY <1>1 DEF neededLocked

\* Over the cap, the cache holds need alone; and it is over it only while need
\* is, or was when it was last settled.
CapInv ==
    /\ OnlyNeedIsOverCap
    /\ ~over => held <= Cap

CacheInv == TypeOK /\ CapInv

\* What a settling needs to find, and to be told.
Settles(S, weigh, total, order, live, wanted) ==
    /\ S \subseteq Keys
    /\ weigh \in [Keys -> Sizes \cup {0}]
    /\ \A k \in Keys : weigh[k] = 0 <=> k \notin S
    /\ order \subseteq S \X S
    /\ \A a, b \in S : a # b => (<<a, b>> \in order <=> <<b, a>> \notin order)
    /\ total = BytesOf(S, weigh)
    /\ live \subseteq Maps /\ wanted \in [Maps -> Wanted]

LEMMA SizesAreNumbers ==
    ASSUME NEW S, NEW weigh, S \subseteq Keys, weigh \in [Keys -> Sizes \cup {0}]
    PROVE  IsFiniteSet(S) /\ \A k \in S : weigh[k] \in Nat /\ weigh[k] \in Int
<1>1. IsFiniteSet(S)
  BY CacheAssumption, FS_Subset DEF CacheAssumption
<1>2. ASSUME NEW k \in S PROVE weigh[k] \in Nat /\ weigh[k] \in Int
  <2>1. weigh[k] \in Sizes \cup {0}
    OBVIOUS
  <2>2. Sizes \cup {0} \subseteq Nat
    BY CacheAssumption DEF CacheAssumption
  <2>3. weigh[k] \in Nat
    BY <2>1, <2>2
  <2> QED
    BY <2>3
<1> QED
  BY <1>1, <1>2

\* Settling counts what it keeps, and keeps spares only under the cap.
LEMMA SettlingHoldsTheCap ==
    ASSUME NEW S, NEW weigh, NEW total, NEW order, NEW live, NEW wanted,
           Settles(S, weigh, total, order, live, wanted),
           settleLocked(S, weigh, total, order, live, wanted),
           over \in BOOLEAN, warning \in BOOLEAN
    PROVE  /\ CacheInv'
           /\ Need(items', bytes', views', chains') = Need(S, weigh, live, wanted)
<1> DEFINE needed == neededLocked(S, live, wanted)
<1>1. PICK shed \in SUBSET S :
         /\ IsShed(shed, S, weigh, total, order, needed)
         /\ items' = S \ shed
         /\ bytes' = [k \in Keys |-> IF k \in shed THEN 0 ELSE weigh[k]]
         /\ older' = {p \in order : p[1] \notin shed /\ p[2] \notin shed}
         /\ held' = total - BytesOf(shed, weigh)
  BY DEF settleLocked
<1>2. /\ over' = (Need(S, weigh, live, wanted) > Cap)
      /\ warning' = (warning \/ Warns(Need(S, weigh, live, wanted)))
      /\ views' = live /\ chains' = wanted
  BY DEF settleLocked, Need
<1>3. needed \subseteq S \ shed
  BY <1>1, NeedIsOnHand DEF IsShed
<1>4. neededLocked(items', live, wanted) = needed
  BY <1>1, <1>3, NeedStaysNeed DEF Settles
<1>5. /\ IsFiniteSet(S) /\ IsFiniteSet(S \ shed) /\ IsFiniteSet(needed)
      /\ \A k \in S : weigh[k] \in Nat /\ weigh[k] \in Int
  BY <1>3, SizesAreNumbers, FS_Subset DEF Settles
<1>6. \A k \in S \ shed : bytes'[k] = weigh[k]
  BY <1>1 DEF Settles
<1> HIDE DEF needed
<1>7. held' = SumOf(weigh, S \ shed) /\ held' \in Nat
  <2>1. SumOf(weigh, S) = SumOf(weigh, shed) + SumOf(weigh, S \ shed)
    BY <1>5, SumSplits
  <2>2. SumOf(weigh, shed) \in Nat /\ SumOf(weigh, S \ shed) \in Nat
    BY <1>5, SumIsNatural, FS_Subset
  <2>3. held' = SumOf(weigh, S) - SumOf(weigh, shed)
    BY <1>1, BytesAreASum DEF Settles
  <2> QED
    BY <2>1, <2>2, <2>3
<1>8. held' = BytesOf(items', bytes')
  <2>1. SumOf(weigh, S \ shed) = SumOf(bytes', S \ shed)
    BY <1>5, <1>6, SumsOfSame
  <2> QED
    BY <1>1, <1>7, <2>1, BytesAreASum
<1>9. Need(items', bytes', views', chains') = SumOf(weigh, needed)
  <2>1. \A k \in needed : bytes'[k] = weigh[k]
    BY <1>3, <1>6
  <2>2. SumOf(bytes', needed) = SumOf(weigh, needed)
    BY <1>5, <2>1, SumsOfSame
  <2> QED
    BY <1>2, <1>4, <2>2, BytesAreASum DEF Need
<1>10. Need(S, weigh, live, wanted) = SumOf(weigh, needed)
  BY BytesAreASum DEF Need, needed
<1>11. held' <= Cap \/ items' = needed
  <2>1. total - BytesOf(shed, weigh) <= Cap \/ shed = S \ needed
    BY <1>1 DEF IsShed
  <2>2. shed = S \ needed => S \ shed = needed
    BY <1>3
  <2> QED
    BY <1>1, <2>1, <2>2
<1>12. CapInv'
  <2>1. Cap \in Nat
    BY CacheAssumption DEF CacheAssumption
  <2>2. OnlyNeedIsOverCap'
    BY <1>2, <1>4, <1>7, <1>11, <2>1 DEF OnlyNeedIsOverCap
  <2>3. ASSUME ~over' PROVE held' <= Cap
    <3>0. SumOf(weigh, needed) \in Nat
      BY <1>3, <1>5, SumIsNatural
    <3>3. ~(Need(S, weigh, live, wanted) > Cap)
      BY <1>2, <2>3, Zenon
    <3>1. SumOf(weigh, needed) <= Cap
      BY <1>10, <2>1, <3>0, <3>3
    <3>2. items' = needed => held' = SumOf(weigh, needed)
      BY <1>1, <1>7
    <3> QED
      BY <1>11, <3>0, <3>1, <3>2
  <2> QED
    BY <2>2, <2>3 DEF CapInv
<1>13. TypeOK'
  <2>1. items' \subseteq Keys /\ bytes' \in [Keys -> Sizes \cup {0}]
    BY <1>1 DEF Settles
  <2>2. \A k \in Keys : bytes'[k] = 0 <=> k \notin items'
    BY <1>1 DEF Settles
  <2>3. older' \subseteq items' \X items'
    BY <1>1 DEF Settles
  <2>4. \A a, b \in items' : a # b => (<<a, b>> \in older' <=> <<b, a>> \notin older')
    BY <1>1 DEF Settles
  <2>5. views' \subseteq Maps /\ chains' \in [Maps -> Wanted]
    BY <1>2 DEF Settles
  <2>6. over' \in BOOLEAN /\ warning' \in BOOLEAN
    BY <1>2 DEF Warns
  <2> QED
    BY <1>8, <2>1, <2>2, <2>3, <2>4, <2>5, <2>6 DEF TypeOK
<1> QED
  BY <1>9, <1>10, <1>12, <1>13 DEF CacheInv

\* Each operation that settles hands on what it found, with its own change.
LEMMA PutSettles ==
    ASSUME TypeOK, NEW k \in Keys, NEW n \in Sizes
    PROVE  Settles(items \cup {k}, [bytes EXCEPT ![k] = n], held - bytes[k] + n,
                   Touched(older, items, k), views, chains)
<1> DEFINE S == items \cup {k}
           weigh == [bytes EXCEPT ![k] = n]
           order == Touched(older, items, k)
<1>1. /\ S \subseteq Keys /\ weigh \in [Keys -> Sizes \cup {0}]
      /\ views \subseteq Maps /\ chains \in [Maps -> Wanted]
  BY DEF TypeOK
<1>2. n \in Nat /\ n # 0
  BY CacheAssumption DEF CacheAssumption
<1>3. \A j \in Keys : weigh[j] = 0 <=> j \notin S
  BY <1>2 DEF TypeOK
<1>4. order \subseteq S \X S
  BY DEF TypeOK, Touched
<1>5. \A a, b \in S : a # b => (<<a, b>> \in order <=> <<b, a>> \notin order)
  BY DEF TypeOK, Touched
<1>6. held - bytes[k] + n = BytesOf(S, weigh)
  <2> DEFINE others == items \ {k}
  <2>1. /\ IsFiniteSet(S) /\ IsFiniteSet(items) /\ IsFiniteSet(others)
        /\ \A j \in S : weigh[j] \in Nat /\ weigh[j] \in Int
        /\ \A j \in items : bytes[j] \in Nat /\ bytes[j] \in Int
    BY <1>1, SizesAreNumbers, FS_Subset DEF TypeOK
  <2>2. S = others \cup {k} /\ S \ {k} = others /\ weigh[k] = n
    BY DEF TypeOK
  <2>3. \A j \in others : weigh[j] = bytes[j]
    BY DEF TypeOK
  <2> HIDE DEF others, S, weigh
  <2>4. SumOf(weigh, others) = SumOf(bytes, others)
    BY <2>1, <2>3, SumsOfSame
  <2>5. k \in S
    BY <2>2
  <2>6. SumOf(weigh, S) = n + SumOf(weigh, others)
    BY <2>1, <2>2, <2>5, SumWithout
  <2>7. held = SumOf(bytes, items)
    BY BytesAreASum DEF TypeOK
  <2>8. SumOf(bytes, items) = bytes[k] + SumOf(bytes, others) /\ bytes[k] \in Nat
    <3>1. CASE k \in items
      BY <2>1, <3>1, SumWithout DEF others
    <3>2. CASE k \notin items
      <4>1. bytes[k] = 0 /\ others = items
        BY <3>2 DEF TypeOK, others
      <4>2. SumOf(bytes, items) \in Int
        BY <2>1, SumIsANumber
      <4> QED
        BY <4>1, <4>2
    <3> QED
      BY <3>1, <3>2
  <2>9. SumOf(bytes, others) \in Int
    <3>1. \A j \in others : bytes[j] \in Int
      BY <2>1 DEF others
    <3> QED
      BY <2>1, <3>1, SumIsANumber
  <2>10. BytesOf(S, weigh) = SumOf(weigh, S)
    BY BytesAreASum
  <2> QED
    BY <1>2, <2>4, <2>6, <2>7, <2>8, <2>9, <2>10
<1> QED
  BY <1>1, <1>3, <1>4, <1>5, <1>6 DEF Settles

LEMMA PublishSettles ==
    ASSUME TypeOK, NEW live \in SUBSET Maps, NEW wanted \in [Maps -> Wanted]
    PROVE  Settles(items, bytes, held, older, live, wanted)
BY DEF TypeOK, Settles

\* What a purge leaves of need is need, and the bytes it took were counted.
LEMMA PurgeHoldsTheCap ==
    ASSUME CacheInv, EmptyFetched
    PROVE  CacheInv'
<1> DEFINE gone == items \cap Fetched
<1>1. /\ items' = items \ gone
      /\ bytes' = [k \in Keys |-> IF k \in gone THEN 0 ELSE bytes[k]]
      /\ older' = {p \in older : p[1] \notin gone /\ p[2] \notin gone}
      /\ held' = held - BytesOf(gone, bytes)
      /\ UNCHANGED <<views, chains, over, warning>>
  BY DEF EmptyFetched
<1>2. gone \subseteq items
  OBVIOUS
<1> HIDE DEF gone
<1>3. /\ IsFiniteSet(items) /\ IsFiniteSet(gone) /\ IsFiniteSet(items \ gone)
      /\ \A k \in items : bytes[k] \in Nat /\ bytes[k] \in Int
  BY <1>2, SizesAreNumbers, FS_Subset DEF CacheInv, TypeOK
<1>4. \A k \in items \ gone : bytes'[k] = bytes[k]
  BY <1>1 DEF CacheInv, TypeOK
<1>5. /\ held = SumOf(bytes, gone) + SumOf(bytes, items \ gone)
      /\ SumOf(bytes, gone) \in Nat /\ SumOf(bytes, items \ gone) \in Nat
  BY <1>2, <1>3, SumSplits, SumIsNatural, BytesAreASum DEF CacheInv, TypeOK
<1>6. held' = SumOf(bytes, items \ gone) /\ held' \in Nat /\ held' <= held /\ held \in Nat
  BY <1>1, <1>5, BytesAreASum
<1>7. held' = BytesOf(items', bytes')
  <2>1. SumOf(bytes, items \ gone) = SumOf(bytes', items \ gone)
    BY <1>3, <1>4, SumsOfSame
  <2> QED
    BY <1>1, <1>6, <2>1, BytesAreASum
<1>8. TypeOK'
  <2>1. items' \subseteq Keys /\ bytes' \in [Keys -> Sizes \cup {0}]
    BY <1>1 DEF CacheInv, TypeOK
  <2>2. \A k \in Keys : bytes'[k] = 0 <=> k \notin items'
    BY <1>1 DEF CacheInv, TypeOK
  <2>3. older' \subseteq items' \X items'
    BY <1>1 DEF CacheInv, TypeOK
  <2>4. \A a, b \in items' : a # b => (<<a, b>> \in older' <=> <<b, a>> \notin older')
    BY <1>1 DEF CacheInv, TypeOK
  <2> QED
    BY <1>1, <1>7, <2>1, <2>2, <2>3, <2>4 DEF CacheInv, TypeOK
<1>9. ASSUME held > Cap PROVE items' = neededLocked(items', views, chains)
  <2>1. items = neededLocked(items, views, chains)
    BY <1>9 DEF CacheInv, CapInv, OnlyNeedIsOverCap
  <2>2. ASSUME NEW k \in items' PROVE k \in neededLocked(items', views, chains)
    <3>3. k \in items
      BY <1>1, <2>2
    <3>4. k \in neededLocked(items, views, chains)
      BY <2>1, <3>3
    <3>0. PICK m \in views : \E chain \in chains[m] : k \in firstLocked(chain, items)
      BY <3>4 DEF neededLocked
    <3>1. PICK chain \in chains[m] : \E i \in DOMAIN chain :
             IsFirst(i, chain, items) /\ k = chain[i]
      BY <3>0 DEF firstLocked
    <3> PICK i \in DOMAIN chain : IsFirst(i, chain, items) /\ k = chain[i]
      BY <3>1
    <3>2. IsFirst(i, chain, items')
      BY <1>1, <2>2, <3>1 DEF IsFirst, OnHand
    <3> QED
      BY <3>1, <3>2, FirstIsNeeded
  <2> QED
    BY <2>2, NeedIsOnHand
<1>10. CapInv'
  <2>1. Cap \in Nat
    BY CacheAssumption DEF CacheAssumption
  <2>2. held' > Cap => held > Cap
    BY <1>6, <2>1
  <2>3. OnlyNeedIsOverCap'
    BY <1>1, <1>9, <2>2 DEF OnlyNeedIsOverCap
  <2>4. ~over' => held' <= Cap
    BY <1>1, <1>6, <2>1 DEF CacheInv, CapInv
  <2> QED
    BY <2>3, <2>4 DEF CapInv
<1> QED
  BY <1>8, <1>10 DEF CacheInv

\* A read makes its tile the youngest.
LEMMA ReadKeepsTheCap ==
    ASSUME CacheInv, NEW k \in Keys, Read(k)
    PROVE  CacheInv'
<1>1. k \in items /\ older' = Touched(older, items, k)
      /\ UNCHANGED <<items, bytes, held, views, chains, over, warning>>
  BY DEF Read
<1>2. older' \subseteq items \X items
  BY <1>1 DEF CacheInv, TypeOK, Touched
<1>3. \A a, b \in items : a # b => (<<a, b>> \in older' <=> <<b, a>> \notin older')
  BY <1>1 DEF CacheInv, TypeOK, Touched
<1>4. TypeOK'
  BY <1>1, <1>2, <1>3 DEF CacheInv, TypeOK
<1> QED
  BY <1>1, <1>4 DEF CacheInv, CapInv, OnlyNeedIsOverCap

\* A map that joins wants nothing yet.
LEMMA JoiningKeepsTheCap ==
    ASSUME CacheInv, NEW m \in Maps, Register(m)
    PROVE  CacheInv'
<1>1. /\ m \notin views /\ views' = views \cup {m}
      /\ chains' = [chains EXCEPT ![m] = {}]
      /\ UNCHANGED <<items, bytes, older, held, over, warning>>
  BY DEF Register
<1>2. chains' \in [Maps -> Wanted] /\ views' \subseteq Maps
  BY <1>1, CacheAssumption DEF CacheInv, TypeOK, CacheAssumption
<1>3. TypeOK'
  BY <1>1, <1>2 DEF CacheInv, TypeOK
<1>4. chains'[m] = {} /\ \A v \in views : chains'[v] = chains[v]
  BY <1>1 DEF CacheInv, TypeOK
<1>5. neededLocked(items, views', chains') = neededLocked(items, views, chains)
  BY <1>1, <1>4 DEF neededLocked
<1> QED
  BY <1>1, <1>3, <1>5 DEF CacheInv, CapInv, OnlyNeedIsOverCap

LEMMA StepKeepsTheCap == CacheInv /\ [Next]_vars => CacheInv'
<1> SUFFICES ASSUME CacheInv, [Next]_vars PROVE CacheInv'
  OBVIOUS
<1>0. over \in BOOLEAN /\ warning \in BOOLEAN /\ TypeOK
  BY DEF CacheInv, TypeOK
<1>1. ASSUME NEW k \in Keys, NEW n \in Sizes, Put(k, n) PROVE CacheInv'
  BY <1>0, <1>1, PutSettles, SettlingHoldsTheCap DEF Put
<1>2. ASSUME NEW m \in Maps, Withdraw(m) PROVE CacheInv'
  <2>1. [chains EXCEPT ![m] = {}] \in [Maps -> Wanted] /\ views \ {m} \in SUBSET Maps
    BY <1>0, CacheAssumption DEF TypeOK, CacheAssumption
  <2> QED
    BY <1>0, <1>2, <2>1, PublishSettles, SettlingHoldsTheCap DEF Withdraw
<1>3. ASSUME NEW m \in Maps, NEW wanted \in Wanted, Publish(m, wanted) PROVE CacheInv'
  <2>1. [chains EXCEPT ![m] = wanted] \in [Maps -> Wanted] /\ views \in SUBSET Maps
    BY <1>0 DEF TypeOK
  <2> QED
    BY <1>0, <1>3, <2>1, PublishSettles, SettlingHoldsTheCap DEF Publish
<1>4. CASE TakeWarning
  BY <1>4 DEF TakeWarning, CacheInv, TypeOK, CapInv, OnlyNeedIsOverCap
<1>5. CASE UNCHANGED vars
  BY <1>5 DEF vars, CacheInv, TypeOK, CapInv, OnlyNeedIsOverCap
<1> QED
  BY <1>1, <1>2, <1>3, <1>4, <1>5, PurgeHoldsTheCap, ReadKeepsTheCap, JoiningKeepsTheCap
     DEF Next

\* Whatever the maps put, read and drop, the bytes counted are the bytes kept.
THEOREM CacheInvariant == Spec => []CacheInv
<1>1. Init => CacheInv
  <2> SUFFICES ASSUME Init PROVE CacheInv
    OBVIOUS
  <2>1. held = BytesOf(items, bytes)
    BY BytesAreASum, SumOfNone DEF Init
  <2>2. TypeOK
    BY <2>1, CacheAssumption DEF Init, TypeOK, CacheAssumption
  <2>3. CapInv
    BY CacheAssumption DEF Init, CapInv, OnlyNeedIsOverCap, CacheAssumption
  <2> QED
    BY <2>2, <2>3 DEF CacheInv
<1> QED
  BY <1>1, StepKeepsTheCap, PTL DEF Spec

\* "Need comes first and the cap second", for every cache.
THEOREM NeedAloneIsOver == Spec => []OnlyNeedIsOverCap
<1>1. CacheInv => OnlyNeedIsOverCap
  BY DEF CacheInv, CapInv
<1> QED
  BY <1>1, CacheInvariant, PTL

\* The counts and the order of reads are what they are taken for, in every cache.
THEOREM CacheIsTyped == Spec => []TypeOK
<1>1. CacheInv => TypeOK
  BY DEF CacheInv
<1> QED
  BY <1>1, CacheInvariant, PTL

\* A cache that was not over the cap when last settled needs no more than it.
LEMMA NeedIsUnderTheCap ==
    ASSUME CacheInv, ~over
    PROVE  Need(items, bytes, views, chains) <= Cap
<1> DEFINE needed == neededLocked(items, views, chains)
<1>1. needed \subseteq items
  BY NeedIsOnHand
<1> HIDE DEF needed
<1>2. IsFiniteSet(items) /\ IsFiniteSet(needed) /\ \A k \in items : bytes[k] \in Nat
  BY <1>1, SizesAreNumbers, FS_Subset DEF CacheInv, TypeOK
<1>3. SumOf(bytes, needed) <= SumOf(bytes, items)
  BY <1>1, <1>2, SumOfPart
<1>4. SumOf(bytes, needed) \in Nat /\ SumOf(bytes, items) \in Nat /\ Cap \in Nat
  BY <1>1, <1>2, SumIsNatural, CacheAssumption DEF CacheAssumption
<1>5. SumOf(bytes, items) <= Cap
  BY BytesAreASum DEF CacheInv, TypeOK, CapInv
<1>6. Need(items, bytes, views, chains) = SumOf(bytes, needed)
  BY BytesAreASum DEF Need, needed
<1> QED
  BY <1>3, <1>4, <1>5, <1>6

LEMMA StepTellsOnce ==
    ASSUME CacheInv, [Next]_vars, ~warning, warning'
    PROVE  /\ Need(items, bytes, views, chains) <= Cap
           /\ Need(items', bytes', views', chains') > Cap
<1>0. over \in BOOLEAN /\ warning \in BOOLEAN /\ TypeOK
  BY DEF CacheInv, TypeOK
<1>1. ASSUME NEW S, NEW weigh, NEW total, NEW order, NEW live, NEW wanted,
             Settles(S, weigh, total, order, live, wanted),
             settleLocked(S, weigh, total, order, live, wanted)
      PROVE  /\ Need(items, bytes, views, chains) <= Cap
             /\ Need(items', bytes', views', chains') > Cap
  <2>1. warning' = (warning \/ Warns(Need(S, weigh, live, wanted)))
    BY <1>1 DEF settleLocked, Need
  <2>2. Warns(Need(S, weigh, live, wanted))
    BY <2>1
  <2>3. Need(S, weigh, live, wanted) > Cap /\ ~over
    BY <2>2 DEF Warns
  <2>4. Need(items', bytes', views', chains') = Need(S, weigh, live, wanted)
    BY <1>0, <1>1, SettlingHoldsTheCap
  <2> QED
    BY <2>3, <2>4, NeedIsUnderTheCap
<1>2. ASSUME NEW k \in Keys, NEW n \in Sizes, Put(k, n)
      PROVE  /\ Need(items, bytes, views, chains) <= Cap
             /\ Need(items', bytes', views', chains') > Cap
  BY <1>0, <1>1, <1>2, PutSettles DEF Put
<1>3. ASSUME NEW m \in Maps, Withdraw(m)
      PROVE  /\ Need(items, bytes, views, chains) <= Cap
             /\ Need(items', bytes', views', chains') > Cap
  <2>1. [chains EXCEPT ![m] = {}] \in [Maps -> Wanted] /\ views \ {m} \in SUBSET Maps
    BY <1>0, CacheAssumption DEF TypeOK, CacheAssumption
  <2> QED
    BY <1>0, <1>1, <1>3, <2>1, PublishSettles DEF Withdraw
<1>4. ASSUME NEW m \in Maps, NEW wanted \in Wanted, Publish(m, wanted)
      PROVE  /\ Need(items, bytes, views, chains) <= Cap
             /\ Need(items', bytes', views', chains') > Cap
  <2>1. [chains EXCEPT ![m] = wanted] \in [Maps -> Wanted] /\ views \in SUBSET Maps
    BY <1>0 DEF TypeOK
  <2> QED
    BY <1>0, <1>1, <1>4, <2>1, PublishSettles DEF Publish
<1>5. ~((\E k \in Keys : Read(k)) \/ (\E m \in Maps : Register(m)) \/ EmptyFetched
        \/ TakeWarning \/ UNCHANGED vars)
  BY DEF Read, Register, EmptyFetched, TakeWarning, vars
<1> QED
  BY <1>2, <1>3, <1>4, <1>5 DEF Next

\* The warning rises only as need goes over the cap: a cache not over it when
\* last settled cannot have come to need more since but by an operation that
\* settles.
THEOREM WarningsAreOneAStretch == Spec => ToldOnceAStretch
<1>1. CacheInv /\ [Next]_vars =>
         [~warning /\ warning' =>
            /\ Need(items, bytes, views, chains) <= Cap
            /\ Need(items', bytes', views', chains') > Cap]_vars
  BY StepTellsOnce
<1> QED
  BY <1>1, CacheInvariant, PTL DEF Spec, ToldOnceAStretch

-----------------------------------------------------------------------------
(***************************************************************************)
(* What the map reports.                                                   *)
(*                                                                         *)
(* What landed is told of (LandingsAreTold), and tiles are asked for with  *)
(* the options the map shows (OptionsAreTheSources), for every number of   *)
(* goroutines inside Work and Settle and every order of calls. A call that *)
(* ends telling of nothing must not have been the one that would have      *)
(* told: what each call read is kept no later than what has landed         *)
(* (WorkTyped), and the call still to tell is another one than the call    *)
(* that ends. A kept report serves as a new one would (KeptReportsServe):  *)
(* what it was made from is what is there, or a count it was marked with   *)
(* has moved on (ReportInv), the areas measured for it and the next turn   *)
(* of the sun included.                                                    *)
(***************************************************************************)

WorkTyped ==
  /\ landed \in Nat
  /\ before \in [Workers -> Nat \union {-1}]
  /\ \A w \in Workers : before[w] <= landed

LandingInv == WorkTyped /\ LandingIsTold

\* Every step that neither lands nor ends a call leaves the rest of it alone
\* but for what is told, which it can only tell.
LEMMA OthersOnlyTell ==
  ASSUME ReportNext
  PROVE  \/ \E w \in Workers : Work(w) \/ NoteLanded(w) \/ \E id \in Ids : Land(w, id)
         \/ /\ UNCHANGED <<landed, before>>
            /\ untold' => untold
            /\ ~shut' => ~shut
<1> USE DEF Tell, ReportCall
<1>1. CASE Asking
  BY <1>1 DEF Asking, ReportBegins, ReportEnds, Render, workVars
<1>2. CASE Working
  BY <1>2 DEF Working
<1>3. CASE Changing
  <2>1. ASSUME NEW id \in Ids, NEW o \in Offers, SetOverlay(id, o)
        PROVE  UNCHANGED <<landed, before, shut>> /\ untold' = FALSE
    BY <2>1 DEF SetOverlay
  <2>2. ASSUME NEW id \in Ids, RemoveOverlay(id)
        PROVE  UNCHANGED <<landed, before, shut>> /\ untold' = FALSE
    BY <2>2 DEF RemoveOverlay
  <2>3. ASSUME NEW p \in AllPlaces, AddPlace(p) \/ RemovePlace(p)
        PROVE  UNCHANGED <<landed, before, shut>> /\ untold' = FALSE
    BY <2>3 DEF AddPlace, RemovePlace, SetPlaces
  <2>4. ASSUME NEW want \in BOOLEAN, Units(want)
        PROVE  UNCHANGED <<landed, before, shut>> /\ untold' = FALSE
    BY <2>4 DEF Units
  <2>5. ASSUME NEW km \in 0..1, SetNearby(km)
        PROVE  UNCHANGED <<landed, before, shut>> /\ untold' = FALSE
    BY <2>5 DEF SetNearby
  <2>6. ASSUME NEW v \in Views, MoveView(v)
        PROVE  UNCHANGED <<landed, before, shut>> /\ untold' = FALSE
    BY <2>6 DEF MoveView
  <2>7. ASSUME NEW to \in Looks, Relook(to)
        PROVE  UNCHANGED <<landed, before, shut>> /\ untold' = FALSE
    BY <2>7 DEF Relook
  <2>8. CASE Warnings
    BY <2>8 DEF Warnings, workVars
  <2>9. ASSUME NEW a \in Addresses \union {None}, Source(a)
        PROVE  UNCHANGED <<landed, before, shut>> /\ (untold' => untold)
    BY <2>9 DEF Source, UseSource
  <2>10. ASSUME NEW opts \in Options, SetFetchOptions(opts)
         PROVE  UNCHANGED <<landed, before, shut>> /\ (untold' => untold)
    BY <2>10 DEF SetFetchOptions, UseSource
  <2>11. CASE CloseMap
    BY <2>11 DEF CloseMap, workVars
  <2> QED
    BY <1>3, <2>1, <2>2, <2>3, <2>4, <2>5, <2>6, <2>7, <2>8, <2>9, <2>10, <2>11 DEF Changing
<1> QED
  BY <1>1, <1>2, <1>3 DEF ReportNext

LEMMA LandingNext == LandingInv /\ [ReportNext]_reportVars => LandingInv'
<1> SUFFICES ASSUME LandingInv, [ReportNext]_reportVars PROVE LandingInv'
  OBVIOUS
<1> USE DEF LandingInv, WorkTyped, LandingIsTold
<1>1. ASSUME NEW w \in Workers, Work(w) PROVE LandingInv'
  BY <1>1 DEF Work, rest
<1>2. ASSUME NEW w \in Workers, NoteLanded(w) PROVE LandingInv'
  <2>1. WorkTyped'
    BY <1>2 DEF NoteLanded
  <2>2. ASSUME untold', ~shut' PROVE \E v \in Workers : before'[v] \in 0..(landed' - 1)
    <3>1. landed = before[w] /\ landed' = landed /\ untold /\ ~shut
      BY <1>2, <2>2 DEF NoteLanded, rest
    <3>2. PICK v \in Workers : before[v] \in 0..(landed - 1)
      BY <3>1
    <3>3. v # w
      BY <3>1, <3>2
    <3>4. before'[v] = before[v]
      BY <1>2, <3>3 DEF NoteLanded
    <3> QED
      BY <3>1, <3>2, <3>4
  <2> QED
    BY <2>1, <2>2
<1>3. ASSUME NEW w \in Workers, NEW id \in Ids, Land(w, id) PROVE LandingInv'
  <2>1. landed' = landed + 1 /\ before' = before /\ before[w] \in 0..landed
    BY <1>3 DEF Land
  <2> QED
    BY <2>1
<1>4. ASSUME UNCHANGED <<landed, before>>, untold' => untold, ~shut' => ~shut
      PROVE  LandingInv'
  BY <1>4
<1>5. CASE UNCHANGED reportVars
  BY <1>5 DEF reportVars, workVars
<1> QED
  BY <1>1, <1>2, <1>3, <1>4, <1>5, OthersOnlyTell

\* What landed in the background moves Changed: until it has, a call that
\* will tell of it is still inside Work or Settle, however many run and
\* whichever of them ran the job.
THEOREM LandingsAreTold == ReportSpec => []LandingIsTold
<1>1. ReportInit => LandingInv
  BY DEF ReportInit, LandingInv, WorkTyped, LandingIsTold
<1> QED
  BY <1>1, LandingNext, PTL DEF ReportSpec, LandingInv

-----------------------------------------------------------------------------

\* Only Source and SetFetchOptions touch the source.
LEMMA OthersKeepTheSource ==
  ASSUME ReportNext
  PROVE  \/ \E a \in Addresses \union {None} : Source(a)
         \/ \E opts \in Options : SetFetchOptions(opts)
         \/ UNCHANGED sourceVars
<1>1. CASE Asking
  BY <1>1 DEF Asking, ReportBegins, ReportEnds, Render
<1>2. CASE Working
  BY <1>2 DEF Working, Work, NoteLanded, Land, rest
<1>3. CASE Changing
  <2>1. ASSUME NEW id \in Ids, NEW o \in Offers, SetOverlay(id, o) PROVE UNCHANGED sourceVars
    BY <2>1 DEF SetOverlay
  <2>2. ASSUME NEW id \in Ids, RemoveOverlay(id) PROVE UNCHANGED sourceVars
    BY <2>2 DEF RemoveOverlay
  <2>3. ASSUME NEW p \in AllPlaces, AddPlace(p) \/ RemovePlace(p) PROVE UNCHANGED sourceVars
    BY <2>3 DEF AddPlace, RemovePlace, SetPlaces
  <2>4. ASSUME NEW want \in BOOLEAN, Units(want) PROVE UNCHANGED sourceVars
    BY <2>4 DEF Units
  <2>5. ASSUME NEW km \in 0..1, SetNearby(km) PROVE UNCHANGED sourceVars
    BY <2>5 DEF SetNearby
  <2>6. ASSUME NEW v \in Views, MoveView(v) PROVE UNCHANGED sourceVars
    BY <2>6 DEF MoveView
  <2>7. ASSUME NEW to \in Looks, Relook(to) PROVE UNCHANGED sourceVars
    BY <2>7 DEF Relook
  <2>8. CASE Warnings
    BY <2>8 DEF Warnings
  <2>9. CASE CloseMap
    BY <2>9 DEF CloseMap
  <2> QED
    BY <1>3, <2>1, <2>2, <2>3, <2>4, <2>5, <2>6, <2>7, <2>8, <2>9 DEF Changing
<1> QED
  BY <1>1, <1>2, <1>3 DEF ReportNext

\* A map without a source has no fetcher either, which SetFetchOptions relies
\* on when it only keeps the options.
SourceInv == SourceHasTheOptions /\ (address = None => fetcher = None)

\* A refused Source or SetFetchOptions leaves the map asking as it did: the
\* fetcher in use is made of the address and the options the map shows.
THEOREM OptionsAreTheSources == ReportSpec => []SourceHasTheOptions
<1>1. ReportInit => SourceInv
  BY DEF ReportInit, SourceInv, SourceHasTheOptions
<1>2. SourceInv /\ [ReportNext]_reportVars => SourceInv'
  <2> SUFFICES ASSUME SourceInv, [ReportNext]_reportVars PROVE SourceInv'
    OBVIOUS
  <2> USE DEF SourceInv, SourceHasTheOptions, sourceVars
  <2>1. ASSUME NEW a \in Addresses, NEW opts \in Options, UseSource(a, opts) PROVE SourceInv'
    BY <2>1, ReportAssumption DEF UseSource
  <2>2. ASSUME NEW a \in Addresses \union {None}, Source(a) PROVE SourceInv'
    <3>1. ASSUME <<a, fetchOpts>> \in Allowed PROVE a \in Addresses /\ fetchOpts \in Options
      BY <3>1, ReportAssumption
    <3> QED
      BY <2>1, <2>2, <3>1 DEF Source
  <2>3. ASSUME NEW opts \in Options, SetFetchOptions(opts) PROVE SourceInv'
    <3>1. ASSUME <<address, opts>> \in Allowed PROVE address \in Addresses
      BY <3>1, ReportAssumption
    <3> QED
      BY <2>1, <2>3, <3>1 DEF SetFetchOptions
  <2>4. CASE UNCHANGED sourceVars
    BY <2>4
  <2>5. CASE UNCHANGED reportVars
    BY <2>5 DEF reportVars
  <2> QED
    BY <2>2, <2>3, <2>4, <2>5, OthersKeepTheSource
<1> QED
  BY <1>1, <1>2, PTL DEF ReportSpec, SourceInv

-----------------------------------------------------------------------------
(* What is kept of a report.                                               *)

\* But for the pictures, the staleness and the daylight, r says what is so,
\* as it was asked.
Says(r, sought, near, seen) ==
  r = [inView |-> {id \in Alerts : seen \in overlay[id].views},
       measured |-> [key \in Alerts \X sought |-> Measure(key)],
       classes |-> r.classes, images |-> Images, stale |-> r.stale, day |-> r.day,
       nearby |-> near, view |-> seen, units |-> units]

\* While a report is worked out only pictures land.
PendingIsTrue ==
  pending # None /\ ~shut =>
    /\ Says(pending.answer, pending.asked, nearby, viewNow)
    /\ pending.answer.stale = StaleIds(wallClock)
    /\ pending.answer.day = Daylight(pending.asked, wallClock)
    /\ pending.landed \in Nat /\ pending.landed <= landed
    /\ landed = pending.landed => pending.answer.classes = Images \intersect decoded

\* A report kept is that of the overlays and the units there are, of the
\* clock at some earlier time, and of the pictures unless more have landed.
KeptIsTrue ==
  reported # None /\ ~shut =>
    /\ Says(reported, reportedKey.asked, reportedKey.nearby, reportedKey.view)
    /\ reported.stale = StaleIds(wallClock) \/ staleWhich = StaleIds(wallClock)
    /\ reportedKey.landed \in Nat /\ reportedKey.landed <= landed
    /\ ~raced /\ reportedKey.landed = landed => reported.classes = Images \intersect decoded
    /\ \E wall \in Nat :
         /\ wall <= wallClock /\ reported.day = Daylight(reportedKey.asked, wall)
         /\ reportedKey.daylight = {p \in reportedKey.asked : wall # 0 /\ Day(p, wall)}
         /\ reportedKey.clocked = (wall # 0)

\* The measures kept are those of the overlays they are kept for.
MeasuresAreTrue ==
  /\ areas.overlays \in Nat /\ areas.overlays <= overlays
  /\ ~shut /\ areas.overlays = overlays =>
       \A key \in DOMAIN areas.kept : areas.kept[key] = <<overlay[key[1]], key[2], areas.units>>

ReportTyped == {landed, overlays, wallClock} \subseteq Nat /\ places \subseteq AllPlaces

ReportInv == ReportTyped /\ PendingIsTrue /\ KeptIsTrue /\ MeasuresAreTrue

LEMMA SameOverlays ==
  ASSUME UNCHANGED overlay
  PROVE  Held' = Held /\ Alerts' = Alerts /\ Images' = Images
  BY DEF Held, Alerts, Images

\* Without a change of overlay or unit what a report says is the same.
LEMMA SaysStill ==
  ASSUME UNCHANGED <<overlay, units>>
  PROVE  /\ Alerts' = Alerts /\ Images' = Images
         /\ \A sought : [key \in Alerts' \X sought |-> Measure(key)'] = [key \in Alerts \X sought |-> Measure(key)]
         /\ \A seen : {id \in Alerts' : seen \in overlay'[id].views} = {id \in Alerts : seen \in overlay[id].views}
  BY SameOverlays DEF Measure

LEMMA PendingStays ==
  ASSUME ReportInv, UNCHANGED <<overlay, units, nearby, viewNow, decoded, landed, wallClock, pending, shut>>
  PROVE  PendingIsTrue'
<1> SUFFICES ASSUME pending # None, ~shut PROVE PendingIsTrue'
  BY DEF PendingIsTrue
<1>1. Says(pending.answer, pending.asked, nearby, viewNow)'
  <2>1. Says(pending.answer, pending.asked, nearby, viewNow)
    BY DEF ReportInv, PendingIsTrue
  <2> QED
    BY <2>1, SaysStill DEF Says
<1>2. StaleIds(wallClock)' = StaleIds(wallClock) /\ Images' = Images
  BY SameOverlays DEF StaleIds
<1>3. Daylight(pending.asked, wallClock)' = Daylight(pending.asked, wallClock)
  OBVIOUS
<1> QED
  BY <1>1, <1>2, <1>3 DEF ReportInv, PendingIsTrue

LEMMA KeptStays ==
  ASSUME ReportInv, UNCHANGED <<overlay, units, decoded, landed, wallClock, staleWhich, reported, reportedKey, shut, raced>>
  PROVE  KeptIsTrue'
<1> SUFFICES ASSUME reported # None, ~shut PROVE KeptIsTrue'
  BY DEF KeptIsTrue
<1>1. Says(reported, reportedKey.asked, reportedKey.nearby, reportedKey.view)'
  <2>1. Says(reported, reportedKey.asked, reportedKey.nearby, reportedKey.view)
    BY DEF ReportInv, KeptIsTrue
  <2> QED
    BY <2>1, SaysStill DEF Says
<1>2. StaleIds(wallClock)' = StaleIds(wallClock) /\ Images' = Images
  BY SameOverlays DEF StaleIds
<1>3. \A wall : Daylight(reportedKey.asked, wall)' = Daylight(reportedKey.asked, wall)
  OBVIOUS
<1> QED
  BY <1>1, <1>2, <1>3 DEF ReportInv, KeptIsTrue

LEMMA MeasuresStay ==
  ASSUME ReportInv, UNCHANGED <<overlay, overlays, areas, shut>>
  PROVE  MeasuresAreTrue'
  BY DEF ReportInv, MeasuresAreTrue

\* A change of an overlay ends the report kept and the measures with it; one
\* of the places or the units ends the report.
LEMMA ChangesForget ==
  ASSUME ReportInv, UNCHANGED <<landed, wallClock, pending, areas>>, pending = None, reported' = None,
         places' \subseteq AllPlaces, overlays' \in {overlays, overlays + 1},
         overlays' = overlays => UNCHANGED <<overlay, shut>>
  PROVE  ReportInv'
<1>1. ReportTyped' /\ PendingIsTrue' /\ KeptIsTrue'
  BY DEF ReportInv, ReportTyped, PendingIsTrue, KeptIsTrue
<1>2. MeasuresAreTrue'
  BY DEF ReportInv, ReportTyped, MeasuresAreTrue
<1> QED
  BY <1>1, <1>2 DEF ReportInv

\* What a report is asked with may change under the one kept.
LEMMA RestKeeps ==
  ASSUME ReportInv, pending = None \/ UNCHANGED <<nearby, viewNow>>,
         UNCHANGED <<overlay, overlays, units, places, decoded, landed, clockVars, memoVars, shut, raced>>
  PROVE  ReportInv'
<1>1. pending # None => UNCHANGED <<nearby, viewNow>>
  OBVIOUS
<1>2. PendingIsTrue'
  BY <1>1, PendingStays DEF clockVars, memoVars, PendingIsTrue
<1>3. KeptIsTrue'
  BY KeptStays DEF clockVars, memoVars
<1>4. MeasuresAreTrue' /\ ReportTyped'
  BY MeasuresStay DEF clockVars, memoVars, ReportInv, ReportTyped
<1> QED
  BY <1>2, <1>3, <1>4 DEF ReportInv

LEMMA ReportChanging ==
  ASSUME ReportInv, Changing
  PROVE  ReportInv'
<1> USE DEF ReportCall, Unlocked, Tell
<1>1. ASSUME NEW id \in Ids, NEW o \in Offers, SetOverlay(id, o) PROVE ReportInv'
  <2>1. overlays' = overlays + 1 /\ overlays \in Nat
    BY <1>1 DEF SetOverlay, ReportInv, ReportTyped
  <2> QED
    BY <1>1, <2>1, ChangesForget DEF SetOverlay, clockVars, ReportInv, ReportTyped
<1>2. ASSUME NEW id \in Ids, RemoveOverlay(id) PROVE ReportInv'
  <2>1. overlays' = overlays + 1 /\ overlays \in Nat
    BY <1>2 DEF RemoveOverlay, ReportInv, ReportTyped
  <2> QED
    BY <1>2, <2>1, ChangesForget DEF RemoveOverlay, clockVars, ReportInv, ReportTyped
<1>3. ASSUME NEW p \in AllPlaces, AddPlace(p) \/ RemovePlace(p) PROVE ReportInv'
  <2>1. PICK now : SetPlaces(now) /\ now \subseteq AllPlaces
    BY <1>3 DEF AddPlace, RemovePlace, ReportInv, ReportTyped
  <2> QED
    BY <2>1, ChangesForget DEF SetPlaces, clockVars
<1>4. ASSUME NEW want \in BOOLEAN, Units(want) PROVE ReportInv'
  BY <1>4, ChangesForget DEF Units, clockVars, ReportInv, ReportTyped
<1>5. ASSUME NEW km \in 0..1, SetNearby(km) PROVE ReportInv'
  BY <1>5, RestKeeps DEF SetNearby, memoVars
<1>6. ASSUME NEW v \in Views, MoveView(v) PROVE ReportInv'
  BY <1>6, RestKeeps DEF MoveView, memoVars
<1>7. ASSUME NEW to \in Looks, Relook(to) PROVE ReportInv'
  <2>1. UNCHANGED <<answerVars, clockVars, memoVars, landed, shut, raced>>
    BY <1>7 DEF Relook, memoVars
  <2> QED
    BY <2>1, RestKeeps DEF answerVars
<1>8. CASE Warnings
  BY <1>8, RestKeeps DEF Warnings, answerVars, memoVars, workVars
<1>9. ASSUME NEW a \in Addresses \union {None}, Source(a) PROVE ReportInv'
  BY <1>9, RestKeeps DEF Source, answerVars, memoVars
<1>10. ASSUME NEW opts \in Options, SetFetchOptions(opts) PROVE ReportInv'
  BY <1>10, RestKeeps DEF SetFetchOptions, answerVars, memoVars
<1>11. CASE CloseMap
  BY <1>11 DEF CloseMap, ReportInv, ReportTyped, PendingIsTrue, KeptIsTrue, MeasuresAreTrue,
               clockVars, memoVars, workVars
<1> QED
  BY <1>1, <1>2, <1>3, <1>4, <1>5, <1>6, <1>7, <1>8, <1>9, <1>10, <1>11 DEF Changing

LEMMA ReportWorking ==
  ASSUME ReportInv, Working
  PROVE  ReportInv'
<1>1. ASSUME NEW w \in Workers, Work(w) \/ NoteLanded(w) PROVE ReportInv'
  BY <1>1, RestKeeps DEF Work, NoteLanded, rest, answerVars
<1>2. ASSUME NEW w \in Workers, NEW id \in Ids, Land(w, id) PROVE ReportInv'
  <2>1. /\ landed' = landed + 1 /\ landed \in Nat
        /\ UNCHANGED <<overlay, overlays, places, units, nearby, viewNow, clockVars, memoVars, shut, raced>>
    BY <1>2 DEF Land, rest, ReportInv, ReportTyped
  <2> USE DEF clockVars, memoVars
  <2>2. ReportTyped' /\ MeasuresAreTrue'
    BY <2>1, MeasuresStay DEF ReportInv, ReportTyped
  <2>3. StaleIds(wallClock)' = StaleIds(wallClock)
    BY <2>1, SameOverlays DEF StaleIds
  <2>4. PendingIsTrue'
    <3> SUFFICES ASSUME pending # None, ~shut PROVE PendingIsTrue'
      BY <2>1 DEF PendingIsTrue
    <3>1. Says(pending.answer, pending.asked, nearby, viewNow)
      BY DEF ReportInv, PendingIsTrue
    <3>2. Says(pending.answer, pending.asked, nearby, viewNow)'
      BY <2>1, <3>1, SaysStill DEF Says
    <3>3. Daylight(pending.asked, wallClock)' = Daylight(pending.asked, wallClock)
      BY <2>1
    <3> QED
      BY <2>1, <2>3, <3>2, <3>3 DEF ReportInv, PendingIsTrue
  <2>5. KeptIsTrue'
    <3> SUFFICES ASSUME reported # None, ~shut PROVE KeptIsTrue'
      BY <2>1 DEF KeptIsTrue
    <3>1. Says(reported, reportedKey.asked, reportedKey.nearby, reportedKey.view)
      BY DEF ReportInv, KeptIsTrue
    <3>2. Says(reported, reportedKey.asked, reportedKey.nearby, reportedKey.view)'
      BY <2>1, <3>1, SaysStill DEF Says
    <3>3. \A wall : Daylight(reportedKey.asked, wall)' = Daylight(reportedKey.asked, wall)
      BY <2>1
    <3> QED
      BY <2>1, <2>3, <3>2, <3>3 DEF ReportInv, KeptIsTrue
  <2> QED
    BY <2>2, <2>4, <2>5 DEF ReportInv
<1> QED
  BY <1>1, <1>2 DEF Working

\* A report worked out with the measures kept is one worked out afresh.
LEMMA MeasuresServe ==
  ASSUME ReportInv, ~shut, NEW sought
  PROVE  /\ \A key \in DOMAIN Measured(sought) : Measured(sought)[key] = Measure(key)
         /\ Alerts \X sought \subseteq DOMAIN Measured(sought)
<1> DEFINE standing == /\ areas.overlays = overlays /\ areas.units = units
                       /\ Cardinality(DOMAIN areas.kept) < MaxMeasures
           old == IF standing THEN areas.kept ELSE << >>
<1>1. \A key \in DOMAIN old : old[key] = Measure(key)
  <2>1. CASE standing
    <3>1. old = areas.kept /\ areas.overlays = overlays /\ areas.units = units
      BY <2>1
    <3> QED
      BY <3>1 DEF ReportInv, MeasuresAreTrue, Measure
  <2>2. CASE ~standing
    <3>1. DOMAIN old = {}
      BY <2>2
    <3> QED
      BY <3>1
  <2> QED
    BY <2>1, <2>2
<1>2. Measured(sought) = [key \in DOMAIN old \union (Alerts \X sought) |->
                           IF key \in DOMAIN old THEN old[key] ELSE Measure(key)]
  BY DEF Measured
<1> HIDE DEF old
<1> QED
  BY <1>1, <1>2

LEMMA ReportAsking ==
  ASSUME ReportInv, Asking
  PROVE  ReportInv'
<1>1. ASSUME NEW given \in SUBSET AllPlaces, ReportBegins(given) PROVE ReportInv'
  <2> DEFINE sought == Asked(given)
             kept == Measured(sought)
  <2>1. /\ ~shut /\ pending = None
        /\ areas' = [overlays |-> overlays, units |-> units, kept |-> kept]
        /\ pending' = [asked |-> sought, answer |-> Answer(sought, kept), landed |-> landed]
        /\ UNCHANGED <<answerVars, clockVars, landed, reported, reportedKey, shut, raced>>
    BY <1>1 DEF ReportBegins, Unlocked, workVars
  <2> USE DEF answerVars, clockVars
  <2>2. /\ \A key \in DOMAIN kept : kept[key] = Measure(key)
        /\ Alerts \X sought \subseteq DOMAIN kept
    BY <2>1, MeasuresServe
  <2>3. KeptIsTrue' /\ ReportTyped'
    BY <2>1, KeptStays DEF ReportInv, ReportTyped
  <2>4. MeasuresAreTrue'
    <3>1. areas'.overlays = overlays /\ areas'.kept = kept /\ areas'.units = units
      BY <2>1
    <3>2. \A key \in DOMAIN kept : kept[key] = <<overlay[key[1]], key[2], units>>
      BY <2>2 DEF Measure
    <3> QED
      BY <2>1, <3>1, <3>2 DEF MeasuresAreTrue, ReportInv, ReportTyped
  <2>5. PendingIsTrue'
    <3> HIDE DEF sought, kept
    <3>1. pending'.asked = sought /\ pending'.answer = Answer(sought, kept) /\ pending'.landed = landed
      BY <2>1
    <3>2. [key \in Alerts \X sought |-> kept[key]] = [key \in Alerts \X sought |-> Measure(key)]
      BY <2>2
    <3>3. Says(Answer(sought, kept), sought, nearby, viewNow)
      BY <3>2 DEF Says, Answer
    <3>4. Says(pending.answer, pending.asked, nearby, viewNow)'
      BY <2>1, <3>1, <3>3, SaysStill DEF Says
    <3>5. /\ pending'.answer.stale = StaleIds(wallClock)
          /\ pending'.answer.day = Daylight(sought, wallClock)
          /\ pending'.answer.classes = Images \intersect decoded
      BY <3>1 DEF Answer
    <3>6. StaleIds(wallClock)' = StaleIds(wallClock) /\ Images' = Images
      BY <2>1, SameOverlays DEF StaleIds
    <3>7. Daylight(pending.asked, wallClock)' = Daylight(sought, wallClock)
      BY <2>1, <3>1 DEF Daylight, Day, TurnOf
    <3> QED
      BY <2>1, <3>1, <3>4, <3>5, <3>6, <3>7 DEF PendingIsTrue, ReportInv, ReportTyped
  <2> QED
    BY <2>3, <2>4, <2>5 DEF ReportInv
<1>2. CASE ReportEnds
  <2>1. /\ pending # None /\ pending' = None
        /\ reported' = pending.answer /\ reportedKey' = DescribeKey(pending.asked)
        /\ raced' = (landed # pending.landed)
        /\ UNCHANGED <<shut, answerVars, clockVars, areas, landed>>
    BY <1>2 DEF ReportEnds, workVars
  <2> USE DEF answerVars, clockVars
  <2>2. ReportTyped' /\ PendingIsTrue' /\ MeasuresAreTrue'
    BY <2>1, MeasuresStay DEF ReportInv, ReportTyped, PendingIsTrue
  <2>3. KeptIsTrue'
    <3> SUFFICES ASSUME ~shut PROVE KeptIsTrue'
      BY <2>1 DEF KeptIsTrue
    <3>1. /\ Says(pending.answer, pending.asked, nearby, viewNow)
          /\ pending.answer.stale = StaleIds(wallClock)
          /\ pending.answer.day = Daylight(pending.asked, wallClock)
          /\ landed = pending.landed => pending.answer.classes = Images \intersect decoded
      BY <2>1 DEF ReportInv, PendingIsTrue
    <3>2. /\ reportedKey'.asked = pending.asked /\ reportedKey'.nearby = nearby /\ reportedKey'.view = viewNow
          /\ reportedKey'.landed = landed /\ reportedKey'.clocked = (wallClock # 0)
          /\ reportedKey'.daylight = {p \in pending.asked : wallClock # 0 /\ Day(p, wallClock)}
      BY <2>1 DEF DescribeKey
    <3>3. Says(reported, reportedKey.asked, reportedKey.nearby, reportedKey.view)'
      BY <2>1, <3>1, <3>2, SaysStill DEF Says
    <3>4. StaleIds(wallClock)' = StaleIds(wallClock) /\ Images' = Images
      BY <2>1, SameOverlays DEF StaleIds
    <3>5. reported'.day = Daylight(reportedKey'.asked, wallClock)
      BY <2>1, <3>1, <3>2
    <3>6. wallClock \in Nat /\ landed \in Nat
      BY DEF ReportInv, ReportTyped
    <3>7. \E wall \in Nat :
            /\ wall <= wallClock' /\ reported'.day = Daylight(reportedKey'.asked, wall)
            /\ reportedKey'.daylight = {p \in reportedKey'.asked : wall # 0 /\ Day(p, wall)}
            /\ reportedKey'.clocked = (wall # 0)
      <4>1. wallClock <= wallClock'
        BY <2>1, <3>6
      <4> QED
        BY <3>2, <3>5, <3>6, <4>1
    <3>8. ~raced' => reported'.classes = Images' \intersect decoded'
      BY <2>1, <3>1, <3>4
    <3>9. reported'.stale = StaleIds(wallClock)'
      BY <2>1, <3>1, <3>4
    <3>10. reportedKey'.landed \in Nat /\ reportedKey'.landed <= landed'
      BY <2>1, <3>2, <3>6
    <3> QED
      BY <3>3, <3>7, <3>8, <3>9, <3>10 DEF KeptIsTrue
  <2> QED
    BY <2>2, <2>3 DEF ReportInv
<1>3. ASSUME NEW now \in Times, Render(now) PROVE ReportInv'
  <2>1. /\ now \in Nat /\ wallClock \in Nat
        /\ UNCHANGED <<shut, answerVars, memoVars, landed, raced>>
        /\ pending = None
        /\ \/ now = 0 /\ UNCHANGED clockVars
           \/ now # 0 /\ now >= wallClock /\ wallClock' = now /\ staleWhich' = StaleIds(now)
    BY <1>3, ReportAssumption DEF Render, Unlocked, workVars, ReportInv, ReportTyped, clockVars
  <2> USE DEF answerVars, memoVars
  <2>2. CASE now = 0 /\ UNCHANGED clockVars
    BY <2>1, <2>2, RestKeeps
  <2>3. CASE now # 0 /\ now >= wallClock /\ wallClock' = now /\ staleWhich' = StaleIds(now)
    <3>1. ReportTyped' /\ PendingIsTrue' /\ MeasuresAreTrue'
      BY <2>1, <2>3, MeasuresStay DEF ReportInv, ReportTyped, PendingIsTrue
    <3>2. StaleIds(wallClock)' = StaleIds(now)
      BY <2>1, <2>3, SameOverlays DEF StaleIds
    <3>3. KeptIsTrue'
      <4> SUFFICES ASSUME reported # None, ~shut PROVE KeptIsTrue'
        BY <2>1 DEF KeptIsTrue
      <4>1. Says(reported, reportedKey.asked, reportedKey.nearby, reportedKey.view)
        BY DEF ReportInv, KeptIsTrue
      <4>2. Says(reported, reportedKey.asked, reportedKey.nearby, reportedKey.view)'
        BY <2>1, <4>1, SaysStill DEF Says
      <4>3. staleWhich' = StaleIds(wallClock)'
        BY <2>3, <3>2
      <4>4. PICK wall \in Nat :
              /\ wall <= wallClock /\ reported.day = Daylight(reportedKey.asked, wall)
              /\ reportedKey.daylight = {p \in reportedKey.asked : wall # 0 /\ Day(p, wall)}
              /\ reportedKey.clocked = (wall # 0)
        BY DEF ReportInv, KeptIsTrue
      <4>5. wall <= wallClock'
        BY <2>1, <2>3, <4>4
      <4>6. Images' = Images
        BY <2>1, SameOverlays
      <4> QED
        BY <2>1, <4>2, <4>3, <4>4, <4>5, <4>6 DEF KeptIsTrue, ReportInv
    <3> QED
      BY <3>1, <3>3 DEF ReportInv
  <2> QED
    BY <2>1, <2>2, <2>3
<1> QED
  BY <1>1, <1>2, <1>3 DEF Asking

LEMMA ReportInvNext == ReportInv /\ [ReportNext]_reportVars => ReportInv'
<1>1. ASSUME ReportInv, UNCHANGED reportVars PROVE ReportInv'
  BY <1>1, RestKeeps DEF reportVars, answerVars, workVars
<1> QED
  BY <1>1, ReportAsking, ReportChanging, ReportWorking DEF ReportNext

-----------------------------------------------------------------------------
(* Day and night.                                                          *)

\* The turn looked for is the first one, when one comes in time.
LEMMA FirstTurn ==
  ASSUME NEW p \in AllPlaces, NEW wall \in Nat, TurnOf(p, wall) # 0
  PROVE  /\ TurnOf(p, wall) \in Turns[p] /\ TurnOf(p, wall) \in Nat
         /\ wall < TurnOf(p, wall) /\ TurnOf(p, wall) <= wall + TurnAhead
         /\ \A u \in Turns[p] : wall < u /\ u <= wall + TurnAhead => TurnOf(p, wall) <= u
<1> DEFINE next == {t \in Turns[p] : wall < t /\ t <= wall + TurnAhead}
<1>1. next \subseteq Nat /\ Turns[p] \subseteq Nat
  BY ReportAssumption DEF ReportAssumption
<1>2. next # {} /\ TurnOf(p, wall) = CHOOSE t \in next : \A u \in next : t <= u
  BY DEF TurnOf
<1>3. \E t \in next : \A u \in next : t <= u
  <2>1. PICK t \in next : \A u \in Nat : <<u, t>> \in OpToRel(<, Nat) => u \notin next
    BY <1>1, <1>2, NatLessThanWellFounded, WFMin
  <2>2. ASSUME NEW u \in next PROVE t <= u
    <3>1. ~(u < t)
      BY <1>1, <2>1 DEF OpToRel
    <3> QED
      BY <1>1, <3>1
  <2> QED
    BY <2>2
<1> HIDE DEF next
<1>4. TurnOf(p, wall) \in next /\ \A u \in next : TurnOf(p, wall) <= u
  BY <1>2, <1>3
<1> QED
  BY <1>1, <1>4 DEF next

LEMMA DaysAreSaid == \A p, wall : \A t \in Nat : <<Day(p, wall), t>> # None /\ <<Day(p, wall), t>>[2] = t
<1>1. \A day \in BOOLEAN, t \in Nat : <<day, t>> # None /\ <<day, t>>[2] = t
  BY ReportAssumption DEF ReportAssumption
<1>2. \A p, wall : Day(p, wall) \in BOOLEAN
  BY DEF Day
<1> QED
  BY <1>1, <1>2, Zenon

\* Daylight kept since an earlier clock is that of now, when its key says it
\* is still the same time of day and no turn it told of has passed.
LEMMA DayIsKept ==
  ASSUME NEW sought \in SUBSET AllPlaces, NEW wall \in Nat, NEW now \in Nat, wall <= now,
         (wall # 0) <=> (now # 0),
         \A p \in sought : wall # 0 => (Day(p, wall) <=> Day(p, now)),
         \A p \in sought : wall # 0 /\ TurnOf(p, wall) # 0 => now < TurnOf(p, wall)
  PROVE  SameDay(Daylight(sought, wall), Daylight(sought, now))
<1>1. DOMAIN Daylight(sought, now) = sought
  BY DEF Daylight
<1> SUFFICES ASSUME NEW p \in sought
             PROVE  LET kept == Daylight(sought, wall)
                        new == Daylight(sought, now)
                    IN IF kept[p] # None /\ kept[p][2] = 0 THEN kept[p][1] = new[p][1] ELSE kept[p] = new[p]
  BY <1>1 DEF SameDay
<1>2. CASE wall = 0
  BY <1>2 DEF Daylight
<1>3. CASE wall # 0
  <2>1. /\ Daylight(sought, wall)[p] = <<Day(p, wall), TurnOf(p, wall)>>
        /\ Daylight(sought, now)[p] = <<Day(p, now), TurnOf(p, now)>>
    BY <1>3 DEF Daylight
  <2>2. Day(p, wall) = Day(p, now)
    BY <1>3 DEF Day
  <2>3. CASE TurnOf(p, wall) = 0
    <3>1. <<Day(p, wall), TurnOf(p, wall)>> # None
      BY <2>3, DaysAreSaid
    <3> QED
      BY <2>1, <2>2, <2>3, <3>1
  <2>4. CASE TurnOf(p, wall) # 0
    <3> DEFINE t == TurnOf(p, wall)
               later == {u \in Turns[p] : now < u /\ u <= now + TurnAhead}
    <3>1. /\ t \in Turns[p] /\ t \in Nat /\ t <= wall + TurnAhead /\ now < t
          /\ \A u \in Turns[p] : wall < u /\ u <= wall + TurnAhead => t <= u
          /\ Turns[p] \subseteq Nat /\ TurnAhead \in Nat
      BY <1>3, <2>4, FirstTurn, ReportAssumption DEF ReportAssumption
    <3> HIDE DEF t
    <3>2. t \in later
      BY <3>1
    <3>3. \A u \in later : t <= u
      <4> SUFFICES ASSUME NEW u \in later PROVE t <= u
        OBVIOUS
      <4>1. u \in Nat /\ wall < u
        BY <3>1
      <4>2. CASE u <= wall + TurnAhead
        BY <3>1, <4>1, <4>2
      <4>3. CASE ~(u <= wall + TurnAhead)
        BY <3>1, <4>1, <4>3
      <4> QED
        BY <4>2, <4>3
    <3>4. later \subseteq Nat
      BY <3>1
    <3>5. TurnOf(p, now) = CHOOSE u \in later : \A v \in later : u <= v
      BY <3>2 DEF TurnOf
    <3>6. TurnOf(p, now) \in later /\ \A v \in later : TurnOf(p, now) <= v
      <4> HIDE DEF later
      <4> QED
        BY <3>2, <3>3, <3>5
    <3>7. TurnOf(p, now) = t
      <4>1. TurnOf(p, now) <= t /\ t <= TurnOf(p, now) /\ TurnOf(p, now) \in Nat
        BY <3>2, <3>3, <3>4, <3>6
      <4> QED
        BY <3>1, <4>1
    <3>8. Daylight(sought, wall)[p] = Daylight(sought, now)[p]
      BY <2>1, <2>2, <3>7 DEF t
    <3>9. <<Day(p, wall), TurnOf(p, wall)>>[2] # 0
      BY <2>4
    <3> QED
      BY <2>1, <3>8, <3>9
  <2> QED
    BY <2>3, <2>4
<1> QED
  BY <1>2, <1>3

\* A report given back without being worked out is the one that working it
\* out would give: nothing an answer is made of is missing from its key, and
\* no measure kept outlives the geometry or the units it is in.
THEOREM KeptReportsServe == ReportSpec => []KeptReportIsFresh
<1>1. ReportInit => ReportInv
  <2> SUFFICES ASSUME ReportInit PROVE ReportInv
    OBVIOUS
  <2>1. DOMAIN << >> = {}
    OBVIOUS
  <2> QED
    BY <2>1 DEF ReportInit, ReportInv, ReportTyped, PendingIsTrue, KeptIsTrue, MeasuresAreTrue
<1>2. ReportInv => KeptReportIsFresh
  <2> SUFFICES ASSUME ReportInv, NEW given \in SUBSET AllPlaces, ~shut, Remembered(Asked(given)), ~raced,
                      reported.stale = reportedKey.stale \intersect Held
               PROVE  Kept(Asked(given))
    BY DEF KeptReportIsFresh
  <2> DEFINE sought == Asked(given)
             now == FreshAnswer(sought)
  <2>1. reported # None /\ reportedKey = DescribeKey(sought) /\ ~TurnPassed(reported)
    BY DEF Remembered
  <2>2. sought \in SUBSET AllPlaces
    BY DEF Asked, ReportInv, ReportTyped
  <2> HIDE DEF sought
  <2>3. /\ reportedKey.asked = sought /\ reportedKey.nearby = nearby /\ reportedKey.view = viewNow
        /\ reportedKey.landed = landed /\ reportedKey.clocked = (wallClock # 0)
        /\ reportedKey.stale = staleWhich
        /\ reportedKey.daylight = {p \in sought : wallClock # 0 /\ Day(p, wallClock)}
    BY <2>1 DEF DescribeKey
  <2>4. Says(reported, sought, nearby, viewNow) /\ reported.classes = Images \intersect decoded
    BY <2>1, <2>3 DEF ReportInv, KeptIsTrue
  <2>5. reported.stale = StaleIds(wallClock)
    <3>1. StaleIds(wallClock) \subseteq Held
      BY DEF StaleIds
    <3>2. reported.stale = StaleIds(wallClock) \/ staleWhich = StaleIds(wallClock)
      BY <2>1 DEF ReportInv, KeptIsTrue
    <3> QED
      BY <2>3, <3>1, <3>2
  <2>6. /\ now.day = Daylight(sought, wallClock)
        /\ reported = [now EXCEPT !.day = reported.day]
    <3>1. [key \in Alerts \X sought |-> [k \in Alerts \X sought |-> Measure(k)][key]]
          = [key \in Alerts \X sought |-> Measure(key)]
      OBVIOUS
    <3>2. now = [inView |-> {id \in Alerts : viewNow \in overlay[id].views},
                 measured |-> [key \in Alerts \X sought |-> Measure(key)],
                 classes |-> Images \intersect decoded, images |-> Images,
                 stale |-> StaleIds(wallClock), day |-> Daylight(sought, wallClock),
                 nearby |-> nearby, view |-> viewNow, units |-> units]
      BY <3>1 DEF FreshAnswer, Answer
    <3>3. reported = [inView |-> {id \in Alerts : viewNow \in overlay[id].views},
                      measured |-> [key \in Alerts \X sought |-> Measure(key)],
                      classes |-> Images \intersect decoded, images |-> Images,
                      stale |-> StaleIds(wallClock), day |-> reported.day,
                      nearby |-> nearby, view |-> viewNow, units |-> units]
      BY <2>4, <2>5, Zenon DEF Says
    <3> HIDE DEF now
    <3>4. \A i, m, c, im, s, d, n, v, u, x :
            [[inView |-> i, measured |-> m, classes |-> c, images |-> im, stale |-> s, day |-> d,
              nearby |-> n, view |-> v, units |-> u] EXCEPT !.day = x]
            = [inView |-> i, measured |-> m, classes |-> c, images |-> im, stale |-> s, day |-> x,
               nearby |-> n, view |-> v, units |-> u]
      OBVIOUS
    <3>5. now.day = Daylight(sought, wallClock)
      BY <3>2
    <3>6. [now EXCEPT !.day = reported.day]
          = [inView |-> {id \in Alerts : viewNow \in overlay[id].views},
             measured |-> [key \in Alerts \X sought |-> Measure(key)],
             classes |-> Images \intersect decoded, images |-> Images,
             stale |-> StaleIds(wallClock), day |-> reported.day,
             nearby |-> nearby, view |-> viewNow, units |-> units]
      <4> DEFINE i == {id \in Alerts : viewNow \in overlay[id].views}
                 m == [key \in Alerts \X sought |-> Measure(key)]
                 c == Images \intersect decoded
                 s == StaleIds(wallClock)
                 d == Daylight(sought, wallClock)
      <4>1. now = [inView |-> i, measured |-> m, classes |-> c, images |-> Images, stale |-> s, day |-> d,
                   nearby |-> nearby, view |-> viewNow, units |-> units]
        BY <3>2
      <4>2. \A x : [now EXCEPT !.day = x]
                   = [inView |-> i, measured |-> m, classes |-> c, images |-> Images, stale |-> s, day |-> x,
                      nearby |-> nearby, view |-> viewNow, units |-> units]
        <5> HIDE DEF i, m, c, s, d
        <5> QED
          BY <3>4, <4>1
      <4> QED
        BY <4>2
    <3> QED
      BY <3>3, <3>5, <3>6
  <2>7. SameDay(reported.day, now.day)
    <3>1. PICK wall \in Nat :
            /\ wall <= wallClock /\ reported.day = Daylight(sought, wall)
            /\ reportedKey.daylight = {p \in sought : wall # 0 /\ Day(p, wall)}
            /\ reportedKey.clocked = (wall # 0)
      BY <2>1, <2>3 DEF ReportInv, KeptIsTrue
    <3>2. (wall # 0) <=> (wallClock # 0)
      BY <2>3, <3>1
    <3>3. \A p \in sought : wall # 0 => (Day(p, wall) <=> Day(p, wallClock))
      BY <2>3, <3>1, <3>2
    <3>4. ASSUME NEW p \in sought, wall # 0, TurnOf(p, wall) # 0 PROVE wallClock < TurnOf(p, wall)
      <4>1. reported.day[p] = <<Day(p, wall), TurnOf(p, wall)>> /\ p \in DOMAIN reported.day
        BY <3>1, <3>4 DEF Daylight
      <4>2. TurnOf(p, wall) \in Nat
        BY <2>2, <3>4, FirstTurn
      <4>3. reported.day[p] # None /\ reported.day[p][2] = TurnOf(p, wall)
        <5>1. /\ <<Day(p, wall), TurnOf(p, wall)>> # None
              /\ <<Day(p, wall), TurnOf(p, wall)>>[2] = TurnOf(p, wall)
          BY <4>2, DaysAreSaid
        <5>2. reported.day[p] = <<Day(p, wall), TurnOf(p, wall)>>
          BY <4>1
        <5> HIDE DEF sought
        <5> QED
          BY <5>1, <5>2, Zenon
      <4>4. ~(wallClock >= TurnOf(p, wall))
        BY <2>1, <3>4, <4>1, <4>3 DEF TurnPassed
      <4> QED
        BY <4>2, <4>4 DEF ReportInv, ReportTyped
    <3>5. wallClock \in Nat
      BY DEF ReportInv, ReportTyped
    <3> QED
      BY <2>2, <2>6, <3>1, <3>2, <3>3, <3>4, <3>5, DayIsKept
  <2> QED
    BY <2>6, <2>7 DEF Kept, sought
<1> QED
  BY <1>1, <1>2, ReportInvNext, PTL DEF ReportSpec

-----------------------------------------------------------------------------
(***************************************************************************)
(* The loop of the interactive map.                                        *)
(*                                                                         *)
(* While the loop waits nothing it should draw is waiting too              *)
(* (PictureIsCurrent), however the program ends the terminal is given back *)
(* and the map closed (LeavesNothingBehind), and the app ends up with the  *)
(* last size of the terminal (AppHasTheLastSize), for any number of pump   *)
(* goroutines, any room in the channel and any keys. FrameIsDue is not     *)
(* inductive: an event on the channel excuses the loop, but an event that  *)
(* draws nothing, a size the app already has, may be all there is.         *)
(* FrameInv excuses it only while the work done is still to be told of,    *)
(* and says besides that a failure is heard with the frame that the work   *)
(* brings.                                                                 *)
(***************************************************************************)

\* The work done is still to be told of.
Untold == \/ \E i \in DOMAIN events : events[i] = <<"worked">>
          \/ \E p \in Pumps : pump[p] = "send"

Typed ==
  /\ "failed" \in DOMAIN app
  /\ jobs \in Nat
  /\ \E S : events \in Seq(S)
  /\ pump \in [Pumps -> {"work", "busy", "send", "asleep", "done"}]

Busy == jobs > 0 \/ \E p \in Pumps : pump[p] = "busy"

FrameInv ==
  /\ Typed
  /\ lost => app.failed \/ warned
  /\ phase = "wait" /\ ~Untold => /\ shown = Picture(app) /\ ~warned
                                  /\ lost => due \/ Busy

-----------------------------------------------------------------------------
(* The channel.                                                            *)

LEMMA Appended ==
  ASSUME NEW STATE e, events' = Append(events, e), \E S : events \in Seq(S)
  PROVE  /\ \E S : events' \in Seq(S)
         /\ \A i \in DOMAIN events : i \in DOMAIN events' /\ events'[i] = events[i]
         /\ \E i \in DOMAIN events' : events'[i] = e
<1>1. PICK S : events \in Seq(S)
  OBVIOUS
<1>2. events \in Seq(S \union {e}) /\ e \in S \union {e}
  BY <1>1
<1>3. events' \in Seq(S \union {e})
  BY <1>2
<1>4. Len(events') = Len(events) + 1 /\ events'[Len(events) + 1] = e /\ Len(events) \in Nat
  BY <1>2
<1>5. DOMAIN events' = 1..(Len(events) + 1) /\ DOMAIN events = 1..Len(events)
  BY <1>2, <1>3, <1>4
<1>6. \A i \in 1..Len(events) : events'[i] = events[i]
  BY <1>2
<1> QED
  BY <1>3, <1>4, <1>5, <1>6

LEMMA Taken ==
  ASSUME events # << >>, events' = Tail(events), \E S : events \in Seq(S)
  PROVE  /\ \E S : events' \in Seq(S)
         /\ \A i \in DOMAIN events :
              events[i] = Head(events) \/ \E j \in DOMAIN events' : events'[j] = events[i]
<1>1. PICK S : events \in Seq(S)
  OBVIOUS
<1>2. events' \in Seq(S)
  BY <1>1
<1>3. Len(events') = Len(events) - 1 /\ Len(events) \in Nat \ {0}
  BY <1>1
<1>4. DOMAIN events = 1..Len(events) /\ DOMAIN events' = 1..(Len(events) - 1)
  BY <1>1, <1>2, <1>3
<1>5. ASSUME NEW i \in DOMAIN events, i # 1
      PROVE  \E j \in DOMAIN events' : events'[j] = events[i]
  <2>1. i - 1 \in 1..(Len(events) - 1)
    BY <1>3, <1>4, <1>5
  <2>2. events'[i - 1] = events[(i - 1) + 1]
    BY <1>1, <2>1
  <2>3. (i - 1) + 1 = i
    BY <1>3, <1>4
  <2> QED
    BY <1>4, <2>1, <2>2, <2>3
<1>6. Head(events) = events[1]
  BY <1>1
<1> QED
  BY <1>2, <1>5, <1>6

-----------------------------------------------------------------------------
(* What the answer to an event may be.                                     *)

\* A key draws or ends the loop, and touches no word of a failure.
LEMMA ActDraws ==
  ASSUME NEW STATE key, Act(key), "failed" \in DOMAIN app
  PROVE  /\ phase' \in {"draw", "stop"}
         /\ "failed" \in DOMAIN app' /\ app'.failed = app.failed
<1>1. \/ UNCHANGED app
      \/ \E what : app' = [app EXCEPT !.panel = what]
      \/ \E what : app' = [app EXCEPT !.said = what]
      \/ \E what, word : app' = [app EXCEPT !.focus = what, !.said = word]
      \/ \E what, word : app' = [app EXCEPT !.on = what, !.said = word]
  BY Zenon DEF Act, Moves, Focuses, Panels, Plays, Switches
<1>2. phase' \in {"draw", "stop"}
  BY DEF Act, Finishes, Redraws
<1> QED
  BY <1>1, <1>2

-----------------------------------------------------------------------------
(* The steps that the loop does not take part in.                          *)

\* A step of the pump, of the keys or of the size that leaves the picture
\* alone, and hides nothing that is still to be told of.
Bystands ==
  /\ UNCHANGED <<phase, app, shown, version, mapOn, looking, playing, lost, warned, due>>
  /\ jobs' \in Nat /\ \E S : events' \in Seq(S)
  /\ pump' \in [Pumps -> {"work", "busy", "send", "asleep", "done"}]
  /\ phase = "wait" => (Untold => Untold') /\ (Busy => Busy')

LEMMA BystandersKeep == FrameInv /\ Bystands => FrameInv'
<1> SUFFICES ASSUME FrameInv, Bystands PROVE FrameInv'
  OBVIOUS
<1>1. Picture(app)' = Picture(app)
  BY DEF Bystands, Picture
<1> QED
  BY <1>1 DEF FrameInv, Typed, Bystands

LEMMA PumpBystands ==
  ASSUME FrameInv, NEW p \in Pumps, TakeJob(p) \/ Wakes(p) \/ PumpEnds(p)
  PROVE  Bystands
<1> USE DEF FrameInv, Typed, pumpRest, termVars, drawVars
<1>1. CASE TakeJob(p)
  <2>1. CASE jobs > 0 /\ jobs' = jobs - 1 /\ pump' = [pump EXCEPT ![p] = "busy"]
    <3>1. pump[p] = "work" /\ pump'[p] = "busy" /\ \A q \in Pumps : q # p => pump'[q] = pump[q]
      BY <1>1, <2>1 DEF TakeJob
    <3>2. Busy'
      BY <3>1 DEF Busy
    <3>3. events' = events
      BY <1>1 DEF TakeJob
    <3>4. Untold => Untold'
      BY <3>1, <3>3 DEF Untold
    <3> QED
      BY <1>1, <2>1, <3>2, <3>4 DEF TakeJob, Bystands
  <2>2. CASE pump' = [pump EXCEPT ![p] = "asleep"] /\ UNCHANGED jobs
    <3>1. pump[p] = "work" /\ \A q \in Pumps : q # p => pump'[q] = pump[q]
      BY <1>1, <2>2 DEF TakeJob
    <3>2. events' = events
      BY <1>1 DEF TakeJob
    <3>3. Untold => Untold'
      BY <3>1, <3>2 DEF Untold
    <3>4. Busy => Busy'
      BY <3>1, <2>2 DEF Busy
    <3> QED
      BY <1>1, <2>2, <3>3, <3>4 DEF TakeJob, Bystands
  <2> QED
    BY <1>1, <2>1, <2>2 DEF TakeJob
<1>2. CASE Wakes(p)
  <2>1. /\ pump[p] = "asleep" /\ \A q \in Pumps : q # p => pump'[q] = pump[q]
        /\ pump' \in [Pumps -> {"work", "busy", "send", "asleep", "done"}]
        /\ events' = events /\ jobs' = jobs
    BY <1>2 DEF Wakes
  <2>2. (Untold => Untold') /\ (Busy => Busy')
    BY <2>1 DEF Untold, Busy
  <2> QED
    BY <1>2, <2>1, <2>2 DEF Wakes, Bystands
<1>3. CASE PumpEnds(p)
  <2>1. phase # "wait" /\ pump' \in [Pumps -> {"work", "busy", "send", "asleep", "done"}]
    BY <1>3 DEF PumpEnds, Ended
  <2> QED
    BY <1>3, <2>1 DEF PumpEnds, Bystands
<1> QED
  BY <1>1, <1>2, <1>3

\* A job that ends, and the word of it, are still to be told of.
LEMMA WorkIsToldOf ==
  ASSUME FrameInv, NEW p \in Pumps, JobEnds(p) \/ SaysSo(p)
  PROVE  FrameInv'
<1> USE DEF FrameInv, Typed, termVars, drawVars
<1>1. CASE JobEnds(p)
  <2>1. /\ pump' \in [Pumps -> {"work", "busy", "send", "asleep", "done"}] /\ pump'[p] = "send"
        /\ events' = events /\ jobs' = jobs /\ app' = app
        /\ lost' => warned'
    BY <1>1, Zenon DEF JobEnds
  <2>2. Untold'
    BY <2>1 DEF Untold
  <2> QED
    BY <2>1, <2>2
<1>2. CASE SaysSo(p)
  <2>1. (\E S : events' \in Seq(S)) /\ Untold'
    BY <1>2, Appended DEF SaysSo, Untold
  <2>2. /\ pump' \in [Pumps -> {"work", "busy", "send", "asleep", "done"}]
        /\ UNCHANGED <<jobs, app, lost, warned>>
    BY <1>2 DEF SaysSo, pumpRest
  <2> QED
    BY <2>1, <2>2
<1> QED
  BY <1>1, <1>2

LEMMA WatchBystands ==
  ASSUME FrameInv,
         \/ \E to \in Screens : SizeChanges(to)
         \/ TakesSignal \/ LooksAtSize \/ SendsSize
         \/ \E chunk \in Reads : TerminalRead(chunk)
         \/ SendsKey
  PROVE  Bystands
<1>1. /\ UNCHANGED <<termVars, drawVars, jobVars, due>>
      /\ \/ UNCHANGED events
         \/ events' = Append(events, <<"size", watcher>>)
         \/ events' = Append(events, <<"key", Head(typed)>>)
  BY DEF SizeChanges, TakesSignal, LooksAtSize, SendsSize, TerminalRead, SendsKey
<1>2. (\E S : events' \in Seq(S)) /\ (Untold => Untold')
  <2>1. CASE UNCHANGED events
    BY <1>1, <2>1 DEF Untold, FrameInv, Typed, jobVars
  <2>2. CASE events' = Append(events, <<"size", watcher>>)
    BY <1>1, <2>2, Appended DEF Untold, FrameInv, Typed, jobVars
  <2>3. CASE events' = Append(events, <<"key", Head(typed)>>)
    BY <1>1, <2>3, Appended DEF Untold, FrameInv, Typed, jobVars
  <2> QED
    BY <1>1, <2>1, <2>2, <2>3
<1>3. Busy' = Busy
  BY <1>1 DEF Busy, jobVars
<1> QED
  BY <1>1, <1>2, <1>3 DEF Bystands, FrameInv, Typed, termVars, drawVars, jobVars

-----------------------------------------------------------------------------
(* The loop's own steps.                                                   *)

LEMMA LoopKeeps ==
  ASSUME FrameInv, Drawn \/ DrawFails \/ Hears \/ Due \/ Ends \/ Crashes
  PROVE  FrameInv'
<1> USE DEF FrameInv, Typed
<1>1. CASE Drawn
  <2>1. "failed" \in DOMAIN app' /\ app'.failed = ((app.failed \/ warned) /\ ~Whole)
    BY <1>1 DEF Drawn, Heard
  <2>2. lost => ~Whole
    BY DEF Whole
  <2>3. shown' = Picture(app)'
    BY <1>1 DEF Drawn, Picture
  <2>4. /\ UNCHANGED <<events, pump, lost>> /\ ~warned' /\ jobs' \in {jobs, jobs + 1}
        /\ due' = (lost /\ jobs' = jobs)
    BY <1>1 DEF Drawn
  <2>5. lost' => due' \/ Busy'
    <3>1. jobs' # jobs => Busy'
      BY <2>4 DEF Busy
    <3>2. lost /\ jobs' = jobs => due'
      BY <2>4, Zenon
    <3> QED
      BY <2>4, <3>1, <3>2
  <2>6. lost' => app'.failed
    <3>1. lost => (app.failed \/ warned) /\ ~Whole
      BY <2>2
    <3> QED
      BY <2>1, <2>4, <3>1, Zenon
  <2>7. UNCHANGED events /\ pump' = pump /\ jobs' \in Nat
    BY <2>4
  <2> QED
    BY <2>1, <2>3, <2>4, <2>5, <2>6, <2>7, Zenon
<1>2. CASE DrawFails
  BY <1>2 DEF DrawFails, drawVars, jobVars
<1>3. CASE Hears
  <2>1. /\ phase = "wait" /\ AnswerTo(Head(events)) /\ due' = (lost /\ phase' = "wait")
        /\ UNCHANGED <<shown, version, jobs, lost, warned, pump>>
    BY <1>3 DEF Hears, jobVars
  <2>2. /\ \E S : events' \in Seq(S)
        /\ \A i \in DOMAIN events :
             events[i] = Head(events) \/ \E j \in DOMAIN events' : events'[j] = events[i]
    BY <1>3, Taken DEF Hears
  <2>3. CASE Head(events)[1] = "key" /\ Act(Head(events)[2])
    BY <2>1, <2>2, <2>3, ActDraws
  <2>4. CASE Head(events)[1] = "worked" /\ Worked
    BY <2>1, <2>2, <2>4 DEF Worked, Redraws
  <2>5. CASE Head(events)[1] = "size" /\ Resized(Head(events)[2])
    <3>1. CASE phase' = "draw" /\ app' = [app EXCEPT !.size = Head(events)[2]]
      BY <2>1, <2>2, <3>1
    <3>2. CASE UNCHANGED <<app, phase>>
      <4>1. UNCHANGED <<mapOn, looking, playing>>
        BY <2>5 DEF Resized
      <4>2. Picture(app)' = Picture(app)
        BY <2>1, <3>2, <4>1 DEF Picture
      <4>3. Head(events) # <<"worked">>
        BY <2>5
      <4>4. Untold => Untold'
        BY <2>1, <2>2, <4>3 DEF Untold
      <4>5. lost' => due'
        BY <2>1, <3>2
      <4> QED
        BY <2>1, <2>2, <3>2, <4>2, <4>4, <4>5
    <3> QED
      BY <2>5, <3>1, <3>2 DEF Resized
  <2> QED
    BY <2>1, <2>3, <2>4, <2>5 DEF AnswerTo
<1>4. CASE Due
  BY <1>4 DEF Due, Redraws, drawVars, jobVars
<1>5. CASE Ends \/ Crashes
  BY <1>5 DEF Ends, Crashes, drawVars, jobVars
<1> QED
  BY <1>1, <1>2, <1>3, <1>4, <1>5

LEMMA StartingKeeps ==
  ASSUME FrameInv,
         \/ \E mode \in {"headless", "describe", "maintain"} : Once(mode)
         \/ Answered
         \/ \E slots \in 0..1, loop \in BOOLEAN, asks \in SizesAsked \union {"none"} :
              Interactive(slots, loop, asks)
         \/ StartWatching
  PROVE  FrameInv'
<1> USE DEF FrameInv, Typed
<1>1. ASSUME NEW mode \in {"headless", "describe", "maintain"}, Once(mode) PROVE FrameInv'
  BY <1>1 DEF Once, drawVars, jobVars
<1>2. CASE Answered
  BY <1>2 DEF Answered, drawVars, jobVars
<1>3. ASSUME NEW slots \in 0..1, NEW loop \in BOOLEAN, NEW asks \in SizesAsked \union {"none"},
             Interactive(slots, loop, asks)
      PROVE  FrameInv'
  <2>1. app' = app \/ app' = [app EXCEPT !.places = slots, !.size = SizeOf(asks)]
    BY <1>3 DEF Interactive
  <2>2. "failed" \in DOMAIN app' /\ app'.failed = app.failed
    BY <2>1
  <2>3. phase' \in {"over", "ready"} /\ UNCHANGED <<jobs, events, pump, lost, warned>>
    BY <1>3 DEF Interactive, jobVars
  <2> QED
    BY <2>2, <2>3
<1>4. CASE StartWatching
  <2>1. /\ phase' = "draw" /\ UNCHANGED <<app, jobs, events, lost, warned>>
        /\ pump' \in [Pumps -> {"work", "busy", "send", "asleep", "done"}]
    BY <1>4 DEF StartWatching, drawVars
  <2> QED
    BY <2>1
<1> QED
  BY <1>1, <1>2, <1>3, <1>4

LEMMA FrameNext == FrameInv /\ [HostNext]_hostVars => FrameInv'
<1> SUFFICES ASSUME FrameInv, [HostNext]_hostVars PROVE FrameInv'
  OBVIOUS
<1>1. CASE UNCHANGED hostVars
  <2>1. Picture(app)' = Picture(app)
    BY <1>1 DEF hostVars, drawVars, Picture
  <2>2. (Untold' <=> Untold) /\ (Busy' <=> Busy)
    BY <1>1 DEF hostVars, jobVars, Untold, Busy
  <2> QED
    BY <1>1, <2>1, <2>2 DEF hostVars, termVars, drawVars, jobVars, FrameInv, Typed
<1>2. CASE HostNext
  BY <1>2, StartingKeeps, LoopKeeps, PumpBystands, WorkIsToldOf, WatchBystands, BystandersKeep
     DEF HostNext
<1> QED
  BY <1>1, <1>2

\* While the loop waits for the next key, nothing that would make the picture
\* another one waits with it: what the pump did is told of or about to be, a
\* tile to be tried again has the timer set, and a failure was heard.
THEOREM PictureIsCurrent == HostSpec => []FrameIsDue
<1>1. HostInit => FrameInv
  <2> SUFFICES ASSUME HostInit PROVE FrameInv
    OBVIOUS
  <2>1. "failed" \in DOMAIN app /\ jobs = 0 /\ ~lost /\ phase = "args" /\ events = << >>
        /\ pump = [p \in Pumps |-> "done"]
    BY DEF HostInit
  <2>2. events \in Seq({})
    BY <2>1
  <2> QED
    BY <2>1, <2>2 DEF FrameInv, Typed
<1>2. FrameInv => FrameIsDue
  <2> SUFFICES ASSUME FrameInv, phase = "wait", events = << >>, \A p \in Pumps : pump[p] # "send"
               PROVE  /\ shown = Picture(app)
                      /\ lost => due \/ jobs > 0 \/ \E p \in Pumps : pump[p] = "busy"
                      /\ lost => app.failed
    BY DEF FrameIsDue
  <2>1. ~Untold
    BY DEF Untold
  <2> QED
    BY <2>1 DEF FrameInv, Busy
<1> QED
  BY <1>1, <1>2, FrameNext, PTL DEF HostSpec

-----------------------------------------------------------------------------
(* The end.                                                                *)

AllDone == \A p \in Pumps : pump[p] = "done"

ExitInv ==
  /\ phase \in {"args", "stop", "panic", "over"} => term = "found"
  /\ phase \in {"args", "ready", "stop", "panic", "draw", "wait", "over"}
  /\ phase \in {"args", "ready"} => AllDone
  /\ phase \in {"args", "over"} => ~mapOpen
  /\ phase = "panic" => code = 2
  /\ phase = "over" => (code # 2 => AllDone)
  /\ DOMAIN pump = Pumps

LEMMA ExitNext == ExitInv /\ [HostNext]_hostVars => ExitInv'
<1> SUFFICES ASSUME ExitInv, [HostNext]_hostVars PROVE ExitInv'
  OBVIOUS
<1> USE DEF ExitInv, AllDone, termVars, jobVars
<1>1. ASSUME NEW mode \in {"headless", "describe", "maintain"}, Once(mode) PROVE ExitInv'
  BY <1>1 DEF Once
<1>2. CASE Answered
  BY <1>2 DEF Answered
<1>3. ASSUME NEW slots \in 0..1, NEW loop \in BOOLEAN, NEW asks \in SizesAsked \union {"none"},
             Interactive(slots, loop, asks)
      PROVE  ExitInv'
  BY <1>3 DEF Interactive
<1>4. CASE StartWatching
  BY <1>4 DEF StartWatching
<1>5. CASE Drawn
  BY <1>5 DEF Drawn
<1>6. CASE DrawFails
  BY <1>6 DEF DrawFails
<1>7. CASE Hears
  <2>1. /\ phase = "wait" /\ UNCHANGED <<mapOpen, pump>>
        /\ \/ phase' = "stop" /\ term' = "found"
           \/ phase' \in {"draw", "wait"}
    BY <1>7 DEF Hears, AnswerTo, Act, Resized, Worked, Finishes, Redraws
  <2> QED
    BY <2>1
<1>8. CASE Due
  BY <1>8 DEF Due, Redraws
<1>9. CASE Ends \/ Crashes
  BY <1>9 DEF Ends, Crashes
<1>10. ASSUME NEW p \in Pumps, TakeJob(p) \/ JobEnds(p) \/ SaysSo(p) \/ Wakes(p)
       PROVE  ExitInv'
  <2>1. UNCHANGED <<phase, code, term, mapOpen>> /\ DOMAIN pump' = Pumps /\ pump[p] # "done"
    BY <1>10 DEF TakeJob, JobEnds, SaysSo, Wakes, pumpRest
  <2> QED
    BY <2>1
<1>11. ASSUME NEW p \in Pumps, PumpEnds(p) PROVE ExitInv'
  <2>1. UNCHANGED <<phase, code, term, mapOpen>> /\ pump[p] # "done"
        /\ pump' = [pump EXCEPT ![p] = "done"]
    BY <1>11 DEF PumpEnds, pumpRest
  <2> QED
    BY <2>1
<1>12. CASE UNCHANGED <<termVars, pump>>
  BY <1>12
<1>13. CASE \/ \E to \in Screens : SizeChanges(to)
            \/ TakesSignal \/ LooksAtSize \/ SendsSize
            \/ \E chunk \in Reads : TerminalRead(chunk)
            \/ SendsKey
  BY <1>12, <1>13 DEF SizeChanges, TakesSignal, LooksAtSize, SendsSize, TerminalRead, SendsKey
<1>14. CASE UNCHANGED hostVars
  BY <1>12, <1>14 DEF hostVars
<1> QED
  BY <1>1, <1>2, <1>3, <1>4, <1>5, <1>6, <1>7, <1>8, <1>9, <1>10, <1>11, <1>13, <1>14 DEF HostNext

\* However the program ends, by a key, an error or a panic while it draws, the
\* terminal is as it was found and the map is closed; and but for a panic no
\* goroutine is left inside the map.
THEOREM LeavesNothingBehind == HostSpec => []ExitIsClean
<1>1. HostInit => ExitInv
  BY DEF HostInit, ExitInv, AllDone
<1>2. ExitInv => ExitIsClean
  BY DEF ExitInv, ExitIsClean, AllDone
<1> QED
  BY <1>1, <1>2, ExitNext, PTL DEF HostSpec

-----------------------------------------------------------------------------
(* The size of the terminal.                                               *)

SizeAt(i) == events[i][1] = "size"

\* The newest size that is on its way to the app, or has come, is s.
NewestIs(s) ==
  /\ \A i \in DOMAIN events :
       SizeAt(i) /\ (\A j \in DOMAIN events : SizeAt(j) => j <= i) => events[i][2] = s
  /\ (\A i \in DOMAIN events : ~SizeAt(i)) => app.size = s

\* TheLastSizeWins while the watch is idle; and what the watch has asked the
\* terminal for and not yet sent is the size, unless a signal waits for it.
SizeInv ==
  /\ "size" \in DOMAIN app
  /\ \E S : events \in Seq(S)
  /\ size \in Screens /\ resizes \in Nat
  /\ signal \/ unseen \/ watcher # "idle" => resizes # 0
  /\ phase \in {"args", "ready"} => events = << >> /\ watcher = "idle"
  /\ phase = "args" \/ (phase = "ready" /\ ~unseen) => ~signal /\ ~unseen /\ resizes = 0
  /\ phase = "ready" /\ ~unseen => app.size = LastSize
  /\ phase \in {"draw", "wait"} /\ ~unseen /\ ~signal =>
       /\ watcher = "idle" => NewestIs(LastSize)
       /\ watcher \in Screens => watcher = size

LEMMA Shifted ==
  ASSUME events # << >>, events' = Tail(events), \E S : events \in Seq(S)
  PROVE  /\ \E S : events' \in Seq(S)
         /\ Len(events) \in Nat \ {0}
         /\ DOMAIN events = 1..Len(events) /\ DOMAIN events' = 1..(Len(events) - 1)
         /\ \A i \in 1..(Len(events) - 1) : events'[i] = events[i + 1]
         /\ Head(events) = events[1]
<1>1. PICK S : events \in Seq(S)
  OBVIOUS
<1>2. events' \in Seq(S) /\ Len(events') = Len(events) - 1 /\ Len(events) \in Nat \ {0}
  BY <1>1
<1> QED
  BY <1>1, <1>2

LEMMA Lengthened ==
  ASSUME NEW STATE e, events' = Append(events, e), \E S : events \in Seq(S)
  PROVE  /\ \E S : events' \in Seq(S)
         /\ Len(events) \in Nat
         /\ DOMAIN events = 1..Len(events) /\ DOMAIN events' = 1..(Len(events) + 1)
         /\ \A i \in 1..Len(events) : events'[i] = events[i]
         /\ events'[Len(events) + 1] = e
<1>1. PICK S : events \in Seq(S)
  OBVIOUS
<1>2. events \in Seq(S \union {e}) /\ e \in S \union {e}
  BY <1>1
<1>3. events' \in Seq(S \union {e}) /\ Len(events') = Len(events) + 1 /\ Len(events) \in Nat
  BY <1>2
<1> QED
  BY <1>2, <1>3

\* What the answer to an event does to the size the app draws at.
LEMMA AnswerSizes ==
  ASSUME NEW STATE e, AnswerTo(e), "size" \in DOMAIN app
  PROVE  /\ "size" \in DOMAIN app'
         /\ e[1] = "size" => app'.size = e[2]
         /\ e[1] # "size" => app'.size = app.size
         /\ phase' \in {"draw", "wait", "stop"} \/ phase' = phase
<1>1. ASSUME NEW key, Act(key)
      PROVE  "size" \in DOMAIN app' /\ app'.size = app.size /\ phase' \in {"draw", "stop"}
  <2>1. \/ UNCHANGED app
        \/ \E what : app' = [app EXCEPT !.panel = what]
        \/ \E what : app' = [app EXCEPT !.said = what]
        \/ \E what, word : app' = [app EXCEPT !.focus = what, !.said = word]
        \/ \E what, word : app' = [app EXCEPT !.on = what, !.said = word]
    BY <1>1, Zenon DEF Act, Moves, Focuses, Panels, Plays, Switches
  <2>2. phase' \in {"draw", "stop"}
    BY <1>1 DEF Act, Finishes, Redraws
  <2> QED
    BY <2>1, <2>2
<1>2. CASE e[1] = "key" /\ Act(e[2])
  BY <1>1, <1>2
<1>3. CASE e[1] = "size" /\ Resized(e[2])
  BY <1>3 DEF Resized
<1>4. CASE e[1] = "worked" /\ Worked
  BY <1>4 DEF Worked, Redraws
<1> QED
  BY <1>2, <1>3, <1>4 DEF AnswerTo

\* The event at the head is heard: a size goes from the channel to the app.
LEMMA HearingKeepsNewest ==
  ASSUME NewestIs(LastSize), "size" \in DOMAIN app, \E S : events \in Seq(S),
         Hears, UNCHANGED LastSize
  PROVE  NewestIs(LastSize)'
<1>1. events # << >> /\ events' = Tail(events) /\ AnswerTo(Head(events))
  BY DEF Hears
<1> DEFINE n == Len(events)
<1>2. /\ n \in Nat \ {0} /\ DOMAIN events = 1..n /\ DOMAIN events' = 1..(n - 1)
      /\ \A i \in 1..(n - 1) : events'[i] = events[i + 1]
      /\ Head(events) = events[1]
  BY <1>1, Shifted
<1>3. /\ SizeAt(1) => app'.size = events[1][2]
      /\ ~SizeAt(1) => app'.size = app.size
  BY <1>1, <1>2, AnswerSizes DEF SizeAt
<1>4. \A i \in 1..(n - 1) : SizeAt(i)' <=> SizeAt(i + 1)
  BY <1>2 DEF SizeAt
<1> HIDE DEF n
<1>5. ASSUME NEW i \in 1..(n - 1), SizeAt(i)', \A j \in 1..(n - 1) : SizeAt(j)' => j <= i
      PROVE  events'[i][2] = LastSize
  <2>1. SizeAt(i + 1) /\ i + 1 \in DOMAIN events
    BY <1>2, <1>4, <1>5
  <2>2. ASSUME NEW j \in DOMAIN events, SizeAt(j) PROVE j <= i + 1
    <3>1. CASE j = 1
      BY <1>2, <3>1
    <3>2. CASE j # 1
      <4>1. j - 1 \in 1..(n - 1) /\ (j - 1) + 1 = j
        BY <1>2, <3>2
      <4>2. SizeAt(j - 1)'
        BY <1>4, <2>2, <4>1
      <4>3. j - 1 <= i
        BY <1>5, <4>1, <4>2
      <4> QED
        BY <1>2, <4>3
    <3> QED
      BY <3>1, <3>2
  <2>3. events[i + 1][2] = LastSize
    BY <2>1, <2>2 DEF NewestIs
  <2> QED
    BY <1>2, <2>3
<1>6. ASSUME \A i \in 1..(n - 1) : ~SizeAt(i)' PROVE app'.size = LastSize
  <2>1. \A j \in DOMAIN events : j # 1 => ~SizeAt(j)
    <3>1. \A j \in DOMAIN events : j # 1 => j - 1 \in 1..(n - 1) /\ (j - 1) + 1 = j
      BY <1>2
    <3> QED
      BY <1>4, <1>6, <3>1
  <2>2. CASE SizeAt(1)
    <3>1. 1 \in DOMAIN events /\ \A j \in DOMAIN events : SizeAt(j) => j <= 1
      BY <1>2, <2>1
    <3> QED
      BY <1>3, <2>2, <3>1 DEF NewestIs
  <2>3. CASE ~SizeAt(1)
    BY <1>3, <2>1, <2>3 DEF NewestIs
  <2> QED
    BY <2>2, <2>3
<1> QED
  BY <1>2, <1>5, <1>6 DEF NewestIs

\* An event that is no size goes in at the end.
LEMMA OthersKeepNewest ==
  ASSUME NewestIs(LastSize), \E S : events \in Seq(S), NEW STATE e, e[1] # "size",
         events' = Append(events, e), UNCHANGED <<LastSize, app>>
  PROVE  NewestIs(LastSize)'
<1> DEFINE n == Len(events)
<1>1. /\ n \in Nat /\ DOMAIN events = 1..n /\ DOMAIN events' = 1..(n + 1)
      /\ \A i \in 1..n : events'[i] = events[i]
      /\ events'[n + 1] = e
  BY Lengthened
<1> HIDE DEF n
<1>2. events'[n + 1][1] # "size" /\ \A i \in 1..n : SizeAt(i)' <=> SizeAt(i)
  BY <1>1 DEF SizeAt
<1>3. \A i \in DOMAIN events' : SizeAt(i)' => i \in DOMAIN events /\ SizeAt(i) /\ events'[i] = events[i]
  <2>1. \A i \in DOMAIN events' : i \in 1..n \/ i = n + 1
    BY <1>1
  <2> QED
    BY <1>1, <1>2, <2>1 DEF SizeAt
<1>4. \A i \in DOMAIN events : i \in DOMAIN events' /\ (SizeAt(i) => SizeAt(i)')
  BY <1>1, <1>2
<1> QED
  BY <1>3, <1>4 DEF NewestIs

\* A size sent is the last on the channel.
LEMMA SentIsNewest ==
  ASSUME \E S : events \in Seq(S), NEW STATE c, events' = Append(events, <<"size", c>>), c = LastSize,
         UNCHANGED LastSize
  PROVE  NewestIs(LastSize)'
<1> DEFINE n == Len(events)
<1>1. /\ n \in Nat /\ DOMAIN events' = 1..(n + 1)
      /\ events'[n + 1] = <<"size", c>>
  BY Lengthened
<1> HIDE DEF n
<1>2. events'[n + 1][1] = "size" /\ events'[n + 1][2] = LastSize /\ n + 1 \in DOMAIN events'
  BY <1>1
<1>3. \A i \in DOMAIN events' : n + 1 <= i => i = n + 1
  BY <1>1
<1> QED
  BY <1>2, <1>3 DEF NewestIs, SizeAt

\* A step that touches neither sizes nor the channel, whatever the loop does.
LEMMA StillNewest == NewestIs(LastSize) /\ UNCHANGED <<LastSize, events>> /\ app'.size = app.size => NewestIs(LastSize)'
  BY DEF NewestIs, SizeAt

LEMMA SizeNext == SizeInv /\ ExitInv /\ [HostNext]_hostVars => SizeInv'
<1> SUFFICES ASSUME SizeInv, ExitInv, [HostNext]_hostVars PROVE SizeInv'
  OBVIOUS
<1>0. HostAssumption
  BY HostAssumption
<1> USE DEF SizeInv, sizeVars
<1>l. ASSUME UNCHANGED <<written, size, resizes>> PROVE UNCHANGED LastSize
  BY <1>l DEF LastSize
<1>1. ASSUME UNCHANGED <<events, sizeVars>>, "size" \in DOMAIN app', app'.size = app.size,
             phase' # phase =>
               \/ phase' = "over"
               \/ /\ phase' \in {"stop", "panic", "over", "draw", "wait"}
                  /\ phase \notin {"args", "ready"},
             phase' \in {"draw", "wait"} => phase \in {"draw", "wait"}
      PROVE  SizeInv'
  BY <1>1, <1>l, StillNewest
<1>2. ASSUME NEW mode \in {"headless", "describe", "maintain"}, Once(mode) PROVE SizeInv'
  BY <1>1, <1>2 DEF Once, drawVars
<1>3. CASE Answered
  BY <1>1, <1>3 DEF Answered, drawVars
<1>4. ASSUME NEW slots \in 0..1, NEW loop \in BOOLEAN, NEW asks \in SizesAsked \union {"none"},
             Interactive(slots, loop, asks)
      PROVE  SizeInv'
  <2>0. UNCHANGED <<events, size, resizes, signal, watcher, unseen>>
    BY <1>4 DEF Interactive
  <2>1. CASE phase' = "over" /\ UNCHANGED <<app, written>>
    BY <1>1, <1>4, <2>0, <2>1 DEF Interactive
  <2>2. CASE phase' = "ready" /\ written' = asks
             /\ app' = [app EXCEPT !.places = slots, !.size = SizeOf(asks)]
    <3>1. phase = "args"
      BY <1>4 DEF Interactive
    <3>2. resizes' = 0 /\ app'.size = SizeOf(asks)
      BY <2>0, <2>2, <3>1
    <3>3. app'.size = LastSize'
      BY <2>0, <2>2, <3>2 DEF LastSize, SizeOf
    <3> QED
      BY <2>0, <2>2, <3>1, <3>2, <3>3
  <2> QED
    BY <1>4, <2>1, <2>2 DEF Interactive
<1>5. CASE StartWatching
  <2>1. phase = "ready" /\ phase' = "draw" /\ watcher' = "idle" /\ UNCHANGED <<events, app, written, size, resizes, signal, unseen>>
    BY <1>5 DEF StartWatching, drawVars
  <2>2. ~unseen => ~signal /\ NewestIs(LastSize)'
    <3>1. ~unseen => ~signal /\ events = << >> /\ app.size = LastSize
      BY <2>1
    <3>2. events = << >> => DOMAIN events' = {}
      BY <2>1
    <3> QED
      BY <1>l, <2>1, <3>1, <3>2 DEF NewestIs
  <2>3. "idle" \notin Screens
    BY <1>0 DEF HostAssumption
  <2> QED
    BY <2>1, <2>2, <2>3
<1>6. CASE Drawn
  <2>1. "size" \in DOMAIN app' /\ app'.size = app.size
    BY <1>6 DEF Drawn, Heard
  <2> QED
    BY <1>1, <1>6, <2>1 DEF Drawn
<1>7. CASE DrawFails
  BY <1>1, <1>7 DEF DrawFails, drawVars
<1>8. CASE Hears
  <2>1. /\ phase = "wait" /\ UNCHANGED sizeVars /\ AnswerTo(Head(events))
        /\ events # << >> /\ events' = Tail(events)
    BY <1>8 DEF Hears
  <2>2. "size" \in DOMAIN app' /\ phase' \in {"draw", "wait", "stop"}
    BY <2>1, AnswerSizes
  <2>3. \E S : events' \in Seq(S)
    BY <2>1, Shifted
  <2>4. NewestIs(LastSize) => NewestIs(LastSize)'
    BY <1>l, <1>8, <2>1, HearingKeepsNewest
  <2> QED
    BY <2>1, <2>2, <2>3, <2>4
<1>9. CASE Due
  BY <1>1, <1>9 DEF Due, Redraws, drawVars
<1>10. CASE Ends \/ Crashes
  BY <1>1, <1>10 DEF Ends, Crashes, drawVars
<1>11. ASSUME NEW p \in Pumps, TakeJob(p) \/ JobEnds(p) \/ Wakes(p) \/ PumpEnds(p) PROVE SizeInv'
  <2>1. UNCHANGED <<phase, app, events, sizeVars>>
    BY <1>11 DEF TakeJob, JobEnds, Wakes, PumpEnds, pumpRest, termVars, drawVars
  <2> QED
    BY <1>1, <2>1
<1>12. CASE \/ \E p \in Pumps : SaysSo(p)
            \/ SendsKey
  <2>1. /\ UNCHANGED <<phase, app, sizeVars>>
        /\ \/ events' = Append(events, <<"worked">>)
           \/ events' = Append(events, <<"key", Head(typed)>>)
    BY <1>12 DEF SaysSo, SendsKey, pumpRest, termVars, drawVars
  <2>2. phase \notin {"args", "ready"}
    BY <1>12 DEF SaysSo, SendsKey, Running, ExitInv, AllDone
  <2>3. (\E S : events' \in Seq(S)) /\ (NewestIs(LastSize) => NewestIs(LastSize)')
    <3>0. UNCHANGED LastSize
      BY <1>l, <2>1
    <3>1. CASE events' = Append(events, <<"worked">>)
      BY <2>1, <3>0, <3>1, Lengthened, OthersKeepNewest
    <3>2. CASE events' = Append(events, <<"key", Head(typed)>>)
      BY <2>1, <3>0, <3>2, Lengthened, OthersKeepNewest
    <3> QED
      BY <2>1, <3>1, <3>2
  <2> QED
    BY <2>1, <2>2, <2>3
<1>13. ASSUME NEW to \in Screens, SizeChanges(to) PROVE SizeInv'
  <2>1. /\ phase \in {"ready", "draw", "wait"} /\ size' = to /\ resizes' = resizes + 1
        /\ signal' = (phase # "ready") /\ unseen' = (phase = "ready")
        /\ UNCHANGED <<phase, app, events, watcher>>
    BY <1>13 DEF SizeChanges, termVars, drawVars
  <2>2. resizes' \in Nat /\ resizes' # 0
    BY <2>1
  <2>3. CASE phase = "ready"
    BY <2>1, <2>2, <2>3
  <2>4. CASE phase # "ready"
    BY <2>1, <2>2, <2>4
  <2> QED
    BY <2>3, <2>4
<1>14. CASE TakesSignal
  <2>1. "looking" \notin Screens
    BY <1>0 DEF HostAssumption
  <2> QED
    BY <1>14, <2>1 DEF TakesSignal, Running, termVars, drawVars
<1>15. CASE LooksAtSize
  <2>1. "idle" \notin Screens
    BY <1>0 DEF HostAssumption
  <2>2. /\ watcher = "looking" /\ watcher' = size
        /\ UNCHANGED <<phase, app, events, written, size, resizes, signal, unseen>>
    BY <1>15 DEF LooksAtSize, termVars, drawVars
  <2> QED
    BY <2>1, <2>2
<1>16. CASE SendsSize
  <2>1. /\ watcher \in Screens /\ events' = Append(events, <<"size", watcher>>) /\ watcher' = "idle"
        /\ UNCHANGED <<phase, app, written, size, resizes, signal, unseen>>
    BY <1>16 DEF SendsSize, termVars, drawVars
  <2>2. "idle" \notin Screens
    BY <1>0 DEF HostAssumption
  <2>3. \E S : events' \in Seq(S)
    BY <2>1, Lengthened
  <2>4. watcher = size => NewestIs(LastSize)'
    <3>1. size = LastSize /\ UNCHANGED LastSize
      BY <1>l, <2>1, <2>2 DEF LastSize
    <3> QED
      BY <2>1, <3>1, SentIsNewest
  <2> QED
    BY <2>1, <2>2, <2>3, <2>4
<1>17. ASSUME NEW chunk \in Reads, TerminalRead(chunk) PROVE SizeInv'
  BY <1>1, <1>17 DEF TerminalRead, termVars, drawVars
<1>18. CASE UNCHANGED hostVars
  BY <1>1, <1>18 DEF hostVars, termVars, drawVars
<1> QED
  BY <1>2, <1>3, <1>4, <1>5, <1>6, <1>7, <1>8, <1>9, <1>10, <1>11, <1>12, <1>13, <1>14, <1>15,
     <1>16, <1>17, <1>18 DEF HostNext

\* The size the app draws at is the one said last once what is on its way has
\* come: the one --size gave, until the terminal changes its own, and then the
\* terminal's.  Changes that come together are one signal, and the watch that
\* takes it asks for the size only then.
THEOREM AppHasTheLastSize == HostSpec => []TheLastSizeWins
<1>1. HostInit => SizeInv
  <2> SUFFICES ASSUME HostInit PROVE SizeInv
    OBVIOUS
  <2>1. size \in Screens
    BY HostAssumption DEF HostInit, HostAssumption
  <2>2. "size" \in DOMAIN app
    BY DEF HostInit
  <2>3. events \in Seq({})
    BY DEF HostInit
  <2> QED
    BY <2>1, <2>2, <2>3 DEF HostInit, SizeInv
<1>2. SizeInv => TheLastSizeWins
  BY DEF SizeInv, TheLastSizeWins, NewestIs, SizeAt
<1>3. HostInit => ExitInv
  BY DEF HostInit, ExitInv, AllDone
<1> QED
  BY <1>1, <1>2, <1>3, SizeNext, ExitNext, PTL DEF HostSpec
-----------------------------------------------------------------------------
(***************************************************************************)
(* The keys.                                                               *)
(*                                                                         *)
(* A reading is a function of the places of some bytes, each place's keys  *)
(* made from those of a later one; that there is such a function is shown  *)
(* from the last place back (ReadersAre), and after that a reading is what *)
(* its first key and the reading of the rest make it (ReadAllSteps).  A    *)
(* key that has all its bytes does not change by what comes after them     *)
(* (KeyStays), but for a bare Esc: that nothing follows it is what makes   *)
(* it one.  So bytes that do not end in an Esc can be read first and what  *)
(* they leave with what comes after (ReadsJoin), once for each read.       *)
(***************************************************************************)

Bytes == Seq(STRING)
KeyNames == {"quit", "describe", "help", "play", "markers", "focus", "zoom", "pan", "escape"}
KeyLists == Seq(KeyNames)
Readings == [keys : KeyLists, left : Bytes]
OnFrom(data, k) == SubSeq(data, k, Len(data))

\* The keys and what is left from one place on, by those from a later one.
ReadsOn(data, k, g) ==
    IF k > Len(data) THEN [keys |-> << >>, left |-> << >>]
    ELSE IF KeyAt(OnFrom(data, k)).size = 0 THEN [keys |-> << >>, left |-> OnFrom(data, k)]
    ELSE [g[k + KeyAt(OnFrom(data, k)).size] EXCEPT !.keys = KeyAt(OnFrom(data, k)).key \o @]

Readers(data) == CHOOSE f : f = [k \in 1..(Len(data) + 1) |-> ReadsOn(data, k, f)]

LEMMA ReadAllIs == ASSUME NEW data PROVE ReadAll(data) = Readers(data)[1]
BY DEF ReadAll, Readers, ReadsOn, OnFrom

LEMMA OneIs ==
    ASSUME NEW S, NEW e \in S
    PROVE  <<e>> \in Seq(S)
<1>1. << >> \in Seq(S)
  BY EmptySeq
<1>2. Append(<< >>, e) \in Seq(S)
  BY <1>1, AppendProperties
<1>3. Append(<< >>, e) = <<e>>
  OBVIOUS
<1> QED
  BY <1>2, <1>3

\* What a sequence is, by its second byte.
LEMMA SequenceIs ==
    ASSUME NEW data
    PROVE  /\ Len(data) = 1 => Sequence(data) = [key |-> <<"escape">>, size |-> 1]
           /\ Len(data) \in Nat /\ Len(data) > 1 =>
                /\ data[2] = "[" =>
                     Sequence(data) = IF Closers(data) = {} THEN [key |-> << >>, size |-> 0]
                                      ELSE IF data[Min(Closers(data))] \in Controls
                                      THEN [key |-> << >>, size |-> Min(Closers(data)) - 1]
                                      ELSE [key |-> CursorKey(data[Min(Closers(data))]),
                                            size |-> Min(Closers(data))]
                /\ data[2] = "O" =>
                     Sequence(data) = IF Len(data) < 3 THEN [key |-> << >>, size |-> 0]
                                      ELSE [key |-> CursorKey(data[3]), size |-> 3]
                /\ data[2] # "[" /\ data[2] # "O" =>
                     Sequence(data) = IF data[2] \in Controls THEN [key |-> <<"escape">>, size |-> 1]
                                      ELSE [key |-> << >>, size |-> 2]
<1>1. CASE Len(data) = 1
  BY <1>1 DEF Sequence
<1>2. CASE Len(data) # 1
  BY <1>2 DEF Sequence, Controls
<1> QED
  BY <1>1, <1>2

\* The first end of a sequence is one of its bytes, and each later one another.
LEMMA CloserIs ==
    ASSUME NEW data \in Bytes, Closers(data) # {}
    PROVE  Min(Closers(data)) \in Closers(data) /\ \A k \in Closers(data) : Min(Closers(data)) <= k
<1>1. 3 \in Int /\ Len(data) \in Int
  BY DEF Bytes
<1>2. Closers(data) \subseteq 3..Len(data)
  BY DEF Closers
<1> QED
  BY <1>1, <1>2, LeastBetween

\* A key takes a byte or more, and no more than there are.
LEMMA KeyIs ==
    ASSUME NEW data \in Bytes, data # << >>
    PROVE  KeyAt(data).key \in KeyLists /\ KeyAt(data).size \in 0..Len(data)
<1>1. Len(data) \in Nat /\ Len(data) > 0
  BY DEF Bytes
<1>2. /\ << >> \in KeyLists /\ <<"escape">> \in KeyLists
      /\ \A b : Pressed(b) \in KeyLists /\ CursorKey(b) \in KeyLists
  <2>1. \A e \in KeyNames : <<e>> \in KeyLists
    BY OneIs DEF KeyLists
  <2>2. << >> \in KeyLists
    BY EmptySeq DEF KeyLists
  <2>3. /\ <<"quit">> \in KeyLists /\ <<"describe">> \in KeyLists /\ <<"help">> \in KeyLists
        /\ <<"play">> \in KeyLists /\ <<"markers">> \in KeyLists /\ <<"focus">> \in KeyLists
        /\ <<"zoom">> \in KeyLists /\ <<"pan">> \in KeyLists /\ <<"escape">> \in KeyLists
    BY <2>1, Zenon DEF KeyNames
  <2>4. ASSUME NEW b PROVE Pressed(b) \in KeyLists /\ CursorKey(b) \in KeyLists
    BY <2>2, <2>3, Zenon DEF Pressed, CursorKey
  <2> QED
    BY <2>2, <2>3, <2>4
<1>3. CASE data[1] # "esc"
  BY <1>1, <1>2, <1>3 DEF KeyAt
<1>4. CASE data[1] = "esc"
  <2>1. Closers(data) # {} => Min(Closers(data)) \in 3..Len(data)
    BY CloserIs DEF Closers
  <2>2. CASE Len(data) = 1
    BY <1>1, <1>2, <1>4, <2>2, SequenceIs DEF KeyAt
  <2>3. CASE Len(data) > 1 /\ data[2] = "["
    BY <1>1, <1>2, <1>4, <2>1, <2>3, SequenceIs DEF KeyAt
  <2>4. CASE Len(data) > 1 /\ data[2] = "O"
    BY <1>1, <1>2, <1>4, <2>4, SequenceIs DEF KeyAt
  <2>5. CASE Len(data) > 1 /\ data[2] # "[" /\ data[2] # "O"
    <3>1. Sequence(data) = IF data[2] \in Controls THEN [key |-> <<"escape">>, size |-> 1]
                           ELSE [key |-> << >>, size |-> 2]
      BY <1>1, <2>5, SequenceIs
    <3> QED
      BY <1>1, <1>2, <1>4, <2>5, <3>1 DEF KeyAt
  <2>6. Len(data) = 1 \/ Len(data) > 1
    BY <1>1
  <2> QED
    BY <2>2, <2>3, <2>4, <2>5, <2>6, Zenon
<1> QED
  BY <1>3, <1>4

\* A key that is whole stays the same whatever comes after it, but for an Esc
\* that nothing has come after yet.
LEMMA KeyStays ==
    ASSUME NEW data \in Bytes, data # << >>, NEW more \in Bytes,
           KeyAt(data).size # 0, Len(data) > 1 \/ data[1] # "esc"
    PROVE  KeyAt(data \o more) = KeyAt(data)
<1>1. PICK all :
         /\ all = data \o more /\ all \in Bytes
         /\ Len(data) \in Nat /\ Len(data) > 0 /\ Len(all) \in Nat /\ Len(all) >= Len(data)
         /\ \A i \in 1..Len(data) : all[i] = data[i]
  <2>1. /\ data \o more \in Seq(STRING) /\ Len(data \o more) = Len(data) + Len(more)
        /\ Len(data) \in Nat /\ Len(more) \in Nat
        /\ \A i \in 1..Len(data) + Len(more) :
              (data \o more)[i] = IF i <= Len(data) THEN data[i] ELSE more[i - Len(data)]
    BY ConcatProperties DEF Bytes
  <2>2. Len(data) > 0
    BY DEF Bytes
  <2>3. PICK all : all = data \o more
    OBVIOUS
  <2>4. all \in Bytes /\ Len(all) = Len(data) + Len(more) /\ \A i \in 1..Len(data) : all[i] = data[i]
    BY <2>1, <2>3 DEF Bytes
  <2>5. Len(all) \in Nat /\ Len(all) >= Len(data)
    BY <2>1, <2>4
  <2> QED
    BY <2>1, <2>2, <2>3, <2>4, <2>5, Zenon
<1>2. CASE data[1] # "esc"
  BY <1>1, <1>2 DEF KeyAt
<1>3. CASE data[1] = "esc"
  <2>1. Len(data) > 1 /\ Len(all) > 1 /\ all[1] = "esc" /\ all[2] = data[2]
    BY <1>1, <1>3
  <2>2. Sequence(data).size # 0
    BY <1>3 DEF KeyAt
  <2>3. Sequence(all) = Sequence(data)
    <3>1. CASE data[2] = "["
      <4>1. Closers(data) # {}
        BY <1>1, <2>1, <2>2, <3>1, SequenceIs
      <4>2. PICK k \in Closers(data) : k = Min(Closers(data)) /\ \A j \in Closers(data) : k <= j
        BY <4>1, CloserIs
      <4>3. k \in 3..Len(data) /\ all[k] = data[k] /\ k \in Closers(all)
        BY <1>1, <4>2 DEF Closers
      <4>4. PICK n \in Closers(all) : n = Min(Closers(all)) /\ n <= k
        BY <1>1, <4>3, CloserIs
      <4>5. n \in Closers(data)
        <5>1. n \in 3..Len(all) /\ all[n] \in Final \union Controls
          BY <4>4 DEF Closers
        <5>2. n \in 3..Len(data) /\ n \in 1..Len(data)
          BY <1>1, <4>3, <4>4, <5>1
        <5>3. data[n] \in Final \union Controls
          BY <1>1, <5>1, <5>2
        <5> QED
          BY <5>2, <5>3 DEF Closers
      <4>6. n = k
        <5>1. n \in Int /\ k \in Int /\ n <= k /\ k <= n
          BY <4>2, <4>3, <4>4, <4>5 DEF Closers
        <5> QED
          BY <5>1
      <4>7. Closers(all) # {}
        BY <4>4
      <4> QED
        <5>1. Len(data) \in Nat /\ Len(all) \in Nat /\ Min(Closers(all)) = k /\ Min(Closers(data)) = k
          BY <1>1, <4>2, <4>4, <4>6
        <5>2. all[2] = "["
          BY <2>1, <3>1
        <5>3. Sequence(data) = IF data[k] \in Controls THEN [key |-> << >>, size |-> k - 1]
                               ELSE [key |-> CursorKey(data[k]), size |-> k]
          BY <2>1, <3>1, <4>1, <5>1, SequenceIs
        <5>4. Sequence(all) = IF all[k] \in Controls THEN [key |-> << >>, size |-> k - 1]
                              ELSE [key |-> CursorKey(all[k]), size |-> k]
          BY <2>1, <4>7, <5>1, <5>2, SequenceIs
        <5> QED
          BY <4>3, <5>3, <5>4
    <3>2. CASE data[2] = "O"
      <4>1. Len(data) >= 3
        BY <1>1, <2>1, <2>2, <3>2, SequenceIs
      <4>2. all[3] = data[3] /\ Len(all) >= 3
        BY <1>1, <4>1
      <4> QED
        <5>1. Sequence(data) = [key |-> CursorKey(data[3]), size |-> 3]
          BY <1>1, <2>1, <3>2, <4>1, SequenceIs
        <5>2. Sequence(all) = [key |-> CursorKey(all[3]), size |-> 3]
          <6>1. all[2] = "O"
            BY <2>1, <3>2
          <6>2. Sequence(all) = IF Len(all) < 3 THEN [key |-> << >>, size |-> 0]
                                ELSE [key |-> CursorKey(all[3]), size |-> 3]
            BY <1>1, <2>1, <6>1, SequenceIs
          <6> QED
            BY <1>1, <4>2, <6>2
        <5> QED
          BY <4>2, <5>1, <5>2
    <3>3. CASE data[2] # "[" /\ data[2] # "O"
      BY <1>1, <2>1, <3>3, SequenceIs
    <3> QED
      BY <3>1, <3>2, <3>3
  <2> QED
    BY <1>1, <1>3, <2>1, <2>3 DEF KeyAt
<1> QED
  BY <1>2, <1>3

\* There are readers: each place takes its keys from a later one.
LEMMA ReadersAre ==
    ASSUME NEW data \in Bytes
    PROVE  /\ Readers(data) = [k \in 1..(Len(data) + 1) |-> ReadsOn(data, k, Readers(data))]
           /\ \A k \in 1..(Len(data) + 1) : Readers(data)[k] \in Readings
<1>1. PICK n \in Nat : n = Len(data)
  BY DEF Bytes
<1> DEFINE From(m) == (n + 1 - m)..(n + 1)
           Reads_(m) == {f \in [From(m) -> Readings] : \A k \in From(m) : f[k] = ReadsOn(data, k, f)}
           H == {m \in 0..n : Reads_(m) # {}}
<1>2. ASSUME NEW k \in 1..n
      PROVE  /\ OnFrom(data, k) \in Bytes /\ OnFrom(data, k) # << >> /\ Len(OnFrom(data, k)) = n - k + 1
             /\ KeyAt(OnFrom(data, k)).key \in KeyLists /\ KeyAt(OnFrom(data, k)).size \in 0..(n - k + 1)
  <2>1. OnFrom(data, k) \in Bytes /\ Len(OnFrom(data, k)) = n - k + 1
    BY <1>1, SubSeqProperties DEF OnFrom, Bytes
  <2>2. OnFrom(data, k) # << >>
    BY <2>1
  <2> QED
    BY <2>1, <2>2, KeyIs
<1>3. << >> \in Bytes /\ << >> \in KeyLists
  BY EmptySeq DEF Bytes, KeyLists
<1>4. ASSUME NEW k \in 1..(n + 1), NEW g, \A j \in (k + 1)..(n + 1) : g[j] \in Readings
      PROVE  ReadsOn(data, k, g) \in Readings
  <2>1. CASE k > n
    BY <1>1, <1>3, <2>1 DEF ReadsOn, Readings
  <2>2. CASE k <= n
    <3>1. k \in 1..n
      BY <2>2
    <3>2. PICK key \in KeyLists, taken \in 0..(n - k + 1) :
             key = KeyAt(OnFrom(data, k)).key /\ taken = KeyAt(OnFrom(data, k)).size
      BY <1>2, <3>1
    <3>3. CASE taken = 0
      BY <1>1, <1>2, <1>3, <2>2, <3>1, <3>2, <3>3 DEF ReadsOn, Readings
    <3>4. CASE taken # 0
      <4>1. k + taken \in (k + 1)..(n + 1)
        BY <3>2, <3>4
      <4>2. PICK r \in Readings : r = g[k + taken]
        BY <1>4, <4>1
      <4>3. ReadsOn(data, k, g) = [r EXCEPT !.keys = key \o @]
        BY <1>1, <2>2, <3>2, <3>4, <4>2 DEF ReadsOn
      <4>4. key \o r.keys \in KeyLists
        BY <4>2, ConcatProperties DEF Readings, KeyLists
      <4> QED
        BY <4>2, <4>3, <4>4 DEF Readings
    <3> QED
      BY <3>3, <3>4
  <2> QED
    BY <2>1, <2>2
<1>5. 0 \in H
  <2> DEFINE g == [k \in From(0) |-> [keys |-> << >>, left |-> << >>]]
  <2>1. From(0) = {n + 1}
    OBVIOUS
  <2>2. g \in [From(0) -> Readings]
    BY <1>3 DEF Readings
  <2>3. \A k \in From(0) : g[k] = ReadsOn(data, k, g)
    BY <1>1, <2>1 DEF ReadsOn
  <2>4. g \in Reads_(0)
    BY <2>2, <2>3
  <2> HIDE DEF Reads_
  <2> QED
    BY <2>4
<1>6. ASSUME NEW m \in 1..n, m - 1 \in H PROVE m \in H
  <2>1. PICK f \in Reads_(m - 1) : TRUE
    BY <1>6
  <2>2. PICK a \in 1..n : a = n + 1 - m
    OBVIOUS
  <2>3. From(m - 1) = (a + 1)..(n + 1) /\ From(m) = a..(n + 1)
    BY <2>2
  <2> DEFINE g == [k \in From(m) |-> IF k = a THEN ReadsOn(data, a, f) ELSE f[k]]
  <2>4. /\ f \in [(a + 1)..(n + 1) -> Readings]
        /\ \A k \in (a + 1)..(n + 1) : f[k] = ReadsOn(data, k, f)
    BY <2>1, <2>3
  <2>5. ReadsOn(data, a, f) \in Readings
    BY <1>4, <2>4
  <2>6. g \in [From(m) -> Readings]
    BY <2>3, <2>4, <2>5
  <2>7. ASSUME NEW k \in a..(n + 1) PROVE ReadsOn(data, k, g) = ReadsOn(data, k, f)
    <3>1. CASE k > n
      BY <1>1, <3>1 DEF ReadsOn
    <3>2. CASE k <= n
      <4>1. k \in 1..n
        BY <3>2
      <4>2. PICK taken \in 0..(n - k + 1) : taken = KeyAt(OnFrom(data, k)).size
        BY <1>2, <4>1
      <4>3. taken # 0 => k + taken \in (a + 1)..(n + 1)
        BY <4>2
      <4>4. taken # 0 => g[k + taken] = f[k + taken]
        BY <2>3, <4>3
      <4> HIDE DEF g
      <4> QED
        BY <1>1, <3>2, <4>2, <4>4 DEF ReadsOn
    <3> QED
      BY <3>1, <3>2
  <2>8. \A k \in From(m) : g[k] = ReadsOn(data, k, g)
    <3> SUFFICES ASSUME NEW k \in a..(n + 1) PROVE g[k] = ReadsOn(data, k, g)
      BY <2>3
    <3>1. g[k] = IF k = a THEN ReadsOn(data, a, f) ELSE f[k]
      BY <2>3
    <3> HIDE DEF g
    <3>2. k # a => k \in (a + 1)..(n + 1)
      OBVIOUS
    <3> QED
      BY <2>4, <2>7, <3>1, <3>2
  <2>9. g \in Reads_(m)
    BY <2>6, <2>8
  <2> HIDE DEF Reads_
  <2> QED
    BY <2>9
<1>7. n \in H
  <2> HIDE DEF H
  <2>1. \A i \in 1..n : i - 1 \in H => i \in H
    BY <1>6
  <2>2. \A i \in 0..n : i \in H
    BY <1>5, <2>1, OneByOne
  <2> QED
    BY <2>2
<1>8. PICK f \in Reads_(n) : TRUE
  BY <1>7
<1>9. f = [k \in 1..(Len(data) + 1) |-> ReadsOn(data, k, f)]
  <2>1. From(n) = 1..(Len(data) + 1)
    BY <1>1
  <2> QED
    BY <1>8, <2>1
<1>10. Readers(data) = [k \in 1..(Len(data) + 1) |-> ReadsOn(data, k, Readers(data))]
  BY <1>9 DEF Readers
<1> DEFINE R == Readers(data)
           T == {m \in 0..n : \A k \in From(m) : R[k] \in Readings}
<1>11. \A k \in 1..(n + 1) : R[k] = ReadsOn(data, k, R)
  BY <1>1, <1>10
<1> HIDE DEF R
<1>12. 0 \in T
  <2>1. From(0) = {n + 1}
    OBVIOUS
  <2>2. ReadsOn(data, n + 1, R) \in Readings
    BY <1>4
  <2> QED
    BY <1>11, <2>1, <2>2
<1>13. ASSUME NEW m \in 1..n, m - 1 \in T PROVE m \in T
  <2>1. PICK a \in 1..n : a = n + 1 - m
    OBVIOUS
  <2>2. From(m - 1) = (a + 1)..(n + 1) /\ From(m) = a..(n + 1)
    BY <2>1
  <2>3. \A k \in (a + 1)..(n + 1) : R[k] \in Readings
    BY <1>13, <2>2
  <2>4. ReadsOn(data, a, R) \in Readings
    BY <1>4, <2>3
  <2>5. \A k \in a..(n + 1) : R[k] \in Readings
    BY <1>11, <2>3, <2>4
  <2> QED
    BY <2>2, <2>5
<1>14. n \in T
  <2> HIDE DEF T
  <2>1. \A i \in 1..n : i - 1 \in T => i \in T
    BY <1>13
  <2>2. \A i \in 0..n : i \in T
    BY <1>12, <2>1, OneByOne
  <2> QED
    BY <2>2
<1>15. \A k \in 1..(n + 1) : R[k] \in Readings
  BY <1>14
<1> QED
  BY <1>1, <1>10, <1>15 DEF R

\* The bytes from some place on, and those from a later place in them.
LEMMA FromHereOn ==
    ASSUME NEW data \in Bytes, NEW j \in 1..(Len(data) + 1)
    PROVE  OnFrom(data, j) \in Bytes /\ Len(OnFrom(data, j)) = Len(data) - j + 1
<1>1. PICK n \in Nat : n = Len(data)
  BY DEF Bytes
<1>2. \A i \in j..n : data[i] \in STRING
  BY <1>1 DEF Bytes
<1>3. j \in Int /\ n \in Int /\ j <= n + 1
  BY <1>1
<1>4. /\ SubSeq(data, j, n) \in Seq(STRING)
      /\ Len(SubSeq(data, j, n)) = IF j <= n THEN n - j + 1 ELSE 0
      /\ \A i \in 1..(n - j + 1) : SubSeq(data, j, n)[i] = data[j + i - 1]
  BY <1>2, <1>3, SubSeqProperties
<1>5. OnFrom(data, j) = SubSeq(data, j, n)
  BY <1>1 DEF OnFrom
<1>6. OnFrom(data, j) \in Bytes
  BY <1>4, <1>5 DEF Bytes
<1>7. Len(OnFrom(data, j)) = n - j + 1
  BY <1>3, <1>4, <1>5
<1>8. Len(OnFrom(data, j)) = Len(data) - j + 1
  BY <1>1, <1>7, Zenon
<1> QED
  BY <1>6, <1>8, Zenon

LEMMA RestOfRest ==
    ASSUME NEW data \in Bytes, NEW j \in 1..(Len(data) + 1), NEW k \in j..Len(data)
    PROVE  OnFrom(OnFrom(data, j), k - j + 1) = OnFrom(data, k)
<1>1. PICK n \in Nat : n = Len(data)
  BY DEF Bytes
<1>2. /\ j \in 1..Len(data) /\ n \in 1..Len(data)
      /\ k - j + 1 \in 1..(n - j + 1) /\ n - j + 1 \in 1..(n - j + 1)
  BY <1>1
<1>3. SubSeq(SubSeq(data, j, n), k - j + 1, n - j + 1) = SubSeq(data, j + (k - j + 1) - 1, j + (n - j + 1) - 1)
  BY <1>2, SubSeqOfSubSeq DEF Bytes
<1>4. j + (k - j + 1) - 1 = k /\ j + (n - j + 1) - 1 = n
  BY <1>1, <1>2
<1>5. Len(OnFrom(data, j)) = n - j + 1
  <2>1. Len(OnFrom(data, j)) = Len(data) - j + 1
    BY <1>2, FromHereOn, Zenon
  <2> QED
    BY <1>1, <2>1, Zenon
<1> QED
  BY <1>1, <1>3, <1>4, <1>5 DEF OnFrom

\* What is read from a place on is what those bytes read as.
LEMMA ReadsFromHere ==
    ASSUME NEW data \in Bytes, NEW j \in 1..(Len(data) + 1)
    PROVE  Readers(data)[j] = ReadAll(OnFrom(data, j))
<1>1. PICK n \in Nat : n = Len(data)
  BY DEF Bytes
<1>2. PICK here : here = OnFrom(data, j)
  OBVIOUS
<1>3. here \in Bytes /\ Len(here) = n - j + 1 /\ \A k \in j..n : OnFrom(here, k - j + 1) = OnFrom(data, k)
  <2>1. here \in Bytes /\ Len(here) = n - j + 1
    <3>1. OnFrom(data, j) \in Bytes /\ Len(OnFrom(data, j)) = Len(data) - j + 1
      BY FromHereOn, Zenon
    <3> QED
      BY <1>1, <1>2, <3>1, Zenon
  <2>2. ASSUME NEW k \in j..n PROVE OnFrom(here, k - j + 1) = OnFrom(data, k)
    BY <1>1, <1>2, RestOfRest
  <2> QED
    BY <2>1, <2>2
<1>4. PICK R, Q : R = Readers(data) /\ Q = Readers(here)
  OBVIOUS
<1>5. /\ \A k \in 1..(n + 1) : R[k] = ReadsOn(data, k, R)
      /\ \A k \in 1..(n - j + 2) : Q[k] = ReadsOn(here, k, Q)
  <2>1. R = [k \in 1..(n + 1) |-> ReadsOn(data, k, R)]
    BY <1>1, <1>4, ReadersAre
  <2>2. Q = [k \in 1..(Len(here) + 1) |-> ReadsOn(here, k, Q)]
    BY <1>3, <1>4, ReadersAre
  <2>3. 1..(Len(here) + 1) = 1..(n - j + 2)
    BY <1>1, <1>3
  <2> QED
    BY <2>1, <2>2, <2>3
<1> DEFINE Same(m) == \A k \in (n + 1 - m)..(n + 1) : R[k] = Q[k - j + 1]
           H == {m \in 0..(n + 1 - j) : Same(m)}
<1>6. ASSUME NEW a \in j..(n + 1), \A k \in (a + 1)..(n + 1) : R[k] = Q[k - j + 1]
      PROVE  R[a] = Q[a - j + 1]
  <2>1. R[a] = ReadsOn(data, a, R) /\ Q[a - j + 1] = ReadsOn(here, a - j + 1, Q)
    <3>1. a \in 1..(n + 1) /\ a - j + 1 \in 1..(n - j + 2)
      BY <1>1
    <3> QED
      BY <1>5, <3>1
  <2>2. CASE a > n
    <3>1. a - j + 1 > Len(here)
      BY <1>1, <1>3, <2>2
    <3> QED
      BY <1>1, <2>1, <2>2, <3>1 DEF ReadsOn
  <2>3. CASE a <= n
    <3>1. a \in j..n /\ ~(a > Len(data)) /\ ~(a - j + 1 > Len(here))
      BY <1>1, <1>3, <2>3
    <3>2. PICK part : part = OnFrom(data, a) /\ part = OnFrom(here, a - j + 1)
      BY <1>3, <3>1
    <3>3. part \in Bytes /\ Len(part) = n - a + 1 /\ part # << >>
      <4>1. a \in 1..(n + 1)
        BY <1>1
      <4>2. part \in Bytes /\ Len(part) = n - a + 1
        <5>1. OnFrom(data, a) \in Bytes /\ Len(OnFrom(data, a)) = Len(data) - a + 1
          <6>1. a \in 1..(Len(data) + 1)
            BY <1>1, <4>1
          <6> QED
            BY <6>1, FromHereOn, Zenon
        <5> QED
          BY <1>1, <3>2, <5>1, Zenon
      <4> QED
        BY <3>1, <4>2
    <3>4. PICK taken \in 0..(n - a + 1) : taken = KeyAt(part).size
      BY <3>3, KeyIs
    <3>5. taken # 0 => R[a + taken] = Q[a - j + 1 + taken]
      <4> SUFFICES ASSUME taken # 0 PROVE R[a + taken] = Q[a - j + 1 + taken]
        OBVIOUS
      <4>1. a + taken \in (a + 1)..(n + 1) /\ (a + taken) - j + 1 = a - j + 1 + taken
        BY <1>1, <3>4
      <4> QED
        BY <1>6, <4>1
    <3> QED
      BY <2>1, <3>1, <3>2, <3>4, <3>5 DEF ReadsOn
  <2> QED
    BY <1>1, <2>2, <2>3
<1>7. 0 \in H
  <2>1. \A k \in (n + 1 + 1)..(n + 1) : R[k] = Q[k - j + 1]
    OBVIOUS
  <2>2. PICK a \in j..(n + 1) : a = n + 1
    BY <1>1
  <2>3. \A k \in (a + 1)..(n + 1) : R[k] = Q[k - j + 1]
    BY <2>1, <2>2
  <2>5. R[a] = Q[a - j + 1]
    BY <1>6, <2>3
  <2>4. (n + 1 - 0)..(n + 1) = {n + 1} /\ 0 \in 0..(n + 1 - j)
    BY <1>1
  <2>6. Same(0)
    BY <2>2, <2>4, <2>5
  <2> HIDE DEF Same
  <2> QED
    BY <2>4, <2>6
<1>8. ASSUME NEW m \in 1..(n + 1 - j), m - 1 \in H PROVE m \in H
  <2>1. PICK a \in j..n : a = n + 1 - m
    BY <1>1
  <2>2. n + 1 - (m - 1) = a + 1 /\ a \in j..(n + 1) /\ a \in Int
    BY <1>1, <2>1
  <2>3. \A k \in (a + 1)..(n + 1) : R[k] = Q[k - j + 1]
    BY <1>8, <2>2
  <2>4. R[a] = Q[a - j + 1]
    BY <1>6, <2>2, <2>3
  <2>5. \A k \in a..(n + 1) : k = a \/ k \in (a + 1)..(n + 1)
    BY <2>2
  <2>6. \A k \in a..(n + 1) : R[k] = Q[k - j + 1]
    BY <2>3, <2>4, <2>5
  <2>7. Same(m)
    BY <2>1, <2>6
  <2> HIDE DEF Same
  <2> QED
    BY <2>7
<1>9. Same(n + 1 - j)
  <2> HIDE DEF H
  <2>1. n + 1 - j \in Nat
    BY <1>1
  <2>2. \A i \in 0..(n + 1 - j) : i \in H
    BY <1>7, <1>8, <2>1, OneByOne
  <2>3. n + 1 - j \in H
    BY <2>1, <2>2
  <2> QED
    BY <2>3 DEF H
<1>10. R[j] = Q[1]
  <2>1. n + 1 - (n + 1 - j) = j /\ j \in j..(n + 1) /\ j - j + 1 = 1
    BY <1>1
  <2> QED
    BY <1>9, <2>1
<1> QED
  BY <1>2, <1>4, <1>10, ReadAllIs

\* What bytes read as, by the key they start with.
LEMMA ReadAllSteps ==
    ASSUME NEW data \in Bytes
    PROVE  /\ ReadAll(data) \in Readings
           /\ data = << >> => ReadAll(data) = [keys |-> << >>, left |-> << >>]
           /\ data # << >> /\ KeyAt(data).size = 0 => ReadAll(data) = [keys |-> << >>, left |-> data]
           /\ data # << >> /\ KeyAt(data).size # 0 =>
                LET after == ReadAll(OnFrom(data, KeyAt(data).size + 1))
                IN  /\ after \in Readings
                    /\ ReadAll(data) = [keys |-> KeyAt(data).key \o after.keys, left |-> after.left]
<1>1. PICK n \in Nat : n = Len(data)
  BY DEF Bytes
<1>2. PICK R : R = Readers(data)
  OBVIOUS
<1>3. ReadAll(data) = R[1] /\ R[1] = ReadsOn(data, 1, R) /\ \A k \in 1..(n + 1) : R[k] \in Readings
  <2>1. /\ R = [k \in 1..(n + 1) |-> ReadsOn(data, k, R)]
        /\ \A k \in 1..(n + 1) : R[k] \in Readings
    BY <1>1, <1>2, ReadersAre
  <2>2. 1 \in 1..(n + 1)
    BY <1>1
  <2> QED
    BY <1>2, <2>1, <2>2, ReadAllIs
<1>4. ReadAll(data) \in Readings
  BY <1>1, <1>3
<1>5. CASE data = << >>
  <2>1. n = 0
    BY <1>1, <1>5
  <2> QED
    BY <1>1, <1>3, <1>4, <1>5, <2>1 DEF ReadsOn
<1>6. CASE data # << >>
  <2>1. n > 0
    BY <1>1, <1>6 DEF Bytes
  <2>2. OnFrom(data, 1) = data
    BY <1>1, SubSeqFull DEF OnFrom, Bytes
  <2>3. PICK taken \in 0..n : taken = KeyAt(data).size
    BY <1>1, <1>6, KeyIs
  <2>6. ~(1 > Len(data))
    BY <1>1, <2>1
  <2>7. ReadAll(data) = IF taken = 0 THEN [keys |-> << >>, left |-> data]
                        ELSE [R[1 + taken] EXCEPT !.keys = KeyAt(data).key \o @]
    BY <1>3, <2>2, <2>3, <2>6, Zenon DEF ReadsOn
  <2>4. CASE taken = 0
    BY <1>4, <1>6, <2>3, <2>4, <2>7
  <2>5. CASE taken # 0
    <3>1. taken + 1 \in 1..(n + 1)
      BY <2>3
    <3>2. PICK after \in Readings : after = R[1 + taken] /\ after = ReadAll(OnFrom(data, taken + 1))
      <4>1. R[1 + taken] \in Readings /\ 1 + taken = taken + 1
        BY <1>3, <2>3, <3>1
      <4>2. R[taken + 1] = ReadAll(OnFrom(data, taken + 1))
        BY <1>1, <1>2, <3>1, ReadsFromHere
      <4> QED
        BY <4>1, <4>2
    <3>3. ReadAll(data) = [after EXCEPT !.keys = KeyAt(data).key \o @]
      BY <2>5, <2>7, <3>2
    <3>4. ReadAll(data) = [keys |-> KeyAt(data).key \o after.keys, left |-> after.left]
      BY <3>2, <3>3 DEF Readings
    <3> QED
      BY <1>4, <1>6, <2>3, <2>5, <3>2, <3>4
  <2> QED
    BY <2>4, <2>5
<1> QED
  BY <1>5, <1>6

\* What is left after the end is nothing.
LEMMA NothingAfter ==
    ASSUME NEW data \in Bytes
    PROVE  OnFrom(data, Len(data) + 1) = << >>
<1>1. Len(data) \in Nat
  BY DEF Bytes
<1>2. Len(data) + 1 \in Int /\ Len(data) \in Int /\ Len(data) < Len(data) + 1
  BY <1>1
<1> QED
  BY <1>2, SubSeqEmpty DEF OnFrom

\* From a place on, then from a later one: from that later one.
LEMMA FromLaterOn ==
    ASSUME NEW data \in Bytes, NEW j \in 1..(Len(data) + 1), NEW taken \in 0..(Len(data) - j + 1)
    PROVE  OnFrom(OnFrom(data, j), taken + 1) = OnFrom(data, j + taken)
<1>1. PICK n \in Nat : n = Len(data)
  BY DEF Bytes
<1>2. OnFrom(data, j) \in Bytes /\ Len(OnFrom(data, j)) = n - j + 1
  BY <1>1, FromHereOn
<1>3. CASE j + taken <= n
  <2>1. PICK k \in j..n : k = j + taken
    BY <1>1, <1>3
  <2>2. k - j + 1 = taken + 1
    BY <1>1, <2>1
  <2>3. OnFrom(OnFrom(data, j), k - j + 1) = OnFrom(data, k)
    BY <1>1, RestOfRest
  <2> QED
    BY <2>1, <2>2, <2>3
<1>4. CASE j + taken > n
  <2>1. j + taken = n + 1 /\ taken + 1 = (n - j + 1) + 1
    BY <1>1, <1>4
  <2>2. OnFrom(data, n + 1) = << >>
    BY <1>1, NothingAfter
  <2>3. OnFrom(OnFrom(data, j), (n - j + 1) + 1) = << >>
    BY <1>2, NothingAfter
  <2> QED
    BY <2>1, <2>2, <2>3
<1> QED
  BY <1>1, <1>3, <1>4

\* One after the other, byte by byte.
LEMMA Joined ==
    ASSUME NEW p \in Bytes, NEW q \in Bytes
    PROVE  \E all \in Bytes :
             /\ all = p \o q /\ Len(all) = Len(p) + Len(q)
             /\ \A i \in 1..(Len(p) + Len(q)) : all[i] = IF i <= Len(p) THEN p[i] ELSE q[i - Len(p)]
<1>1. /\ p \o q \in Seq(STRING) /\ Len(p \o q) = Len(p) + Len(q)
      /\ \A i \in 1..Len(p) + Len(q) : (p \o q)[i] = IF i <= Len(p) THEN p[i] ELSE q[i - Len(p)]
  BY ConcatProperties DEF Bytes
<1>2. PICK all : all = p \o q
  OBVIOUS
<1>3. all \in Bytes
  BY <1>1, <1>2 DEF Bytes
<1>4. Len(all) = Len(p) + Len(q)
  BY <1>1, <1>2
<1>5. \A i \in 1..(Len(p) + Len(q)) : all[i] = IF i <= Len(p) THEN p[i] ELSE q[i - Len(p)]
  BY <1>1, <1>2
<1> QED
  BY <1>2, <1>3, <1>4, <1>5

LEMMA BytesAssociate ==
    ASSUME NEW p \in Bytes, NEW q \in Bytes, NEW r \in Bytes
    PROVE  (p \o q) \o r = p \o (q \o r)
<1>1. p \in Seq(STRING) /\ q \in Seq(STRING) /\ r \in Seq(STRING)
  BY DEF Bytes
<1> QED
  BY <1>1, ConcatAssociative

LEMMA KeysAssociate ==
    ASSUME NEW p \in KeyLists, NEW q \in KeyLists, NEW r \in KeyLists
    PROVE  (p \o q) \o r = p \o (q \o r)
<1>1. p \in Seq(KeyNames) /\ q \in Seq(KeyNames) /\ r \in Seq(KeyNames)
  BY DEF KeyLists
<1> QED
  BY <1>1, ConcatAssociative

\* Byte by byte, what there is from a place on.
LEMMA PartIs ==
    ASSUME NEW data \in Bytes, NEW taken \in 0..Len(data)
    PROVE  \E part \in Bytes :
             /\ part = OnFrom(data, taken + 1) /\ Len(part) = Len(data) - taken
             /\ \A i \in 1..Len(part) : part[i] = data[taken + i]
<1>1. PICK n \in Nat : n = Len(data)
  BY DEF Bytes
<1>2. taken + 1 \in Int /\ n \in Int /\ taken + 1 <= n + 1 /\ taken \in Nat
  BY <1>1
<1>3. \A i \in (taken + 1)..n : data[i] \in STRING
  BY <1>1, <1>2 DEF Bytes
<1>4. /\ SubSeq(data, taken + 1, n) \in Seq(STRING)
      /\ Len(SubSeq(data, taken + 1, n)) = IF taken + 1 <= n THEN n - (taken + 1) + 1 ELSE 0
      /\ \A i \in 1..(n - (taken + 1) + 1) : SubSeq(data, taken + 1, n)[i] = data[taken + 1 + i - 1]
  BY <1>2, <1>3, SubSeqProperties
<1>5. PICK part : part = SubSeq(data, taken + 1, n)
  OBVIOUS
<1>6. part \in Bytes
  BY <1>4, <1>5 DEF Bytes
<1>7. Len(part) = n - taken
  BY <1>2, <1>4, <1>5
<1>8. \A i \in 1..(n - taken) : part[i] = data[taken + i]
  <2>1. n - (taken + 1) + 1 = n - taken /\ \A i \in 1..(n - taken) : taken + 1 + i - 1 = taken + i
    BY <1>2
  <2> QED
    BY <1>4, <1>5, <2>1
<1>9. part = OnFrom(data, taken + 1)
  BY <1>1, <1>5 DEF OnFrom
<1> QED
  BY <1>1, <1>6, <1>7, <1>8, <1>9

\* From a place on in bytes that more follow.
LEMMA FromInJoined ==
    ASSUME NEW data \in Bytes, NEW more \in Bytes, NEW taken \in 0..Len(data)
    PROVE  OnFrom(data \o more, taken + 1) = OnFrom(data, taken + 1) \o more
<1>1. PICK all \in Bytes :
         /\ all = data \o more /\ Len(all) = Len(data) + Len(more)
         /\ \A i \in 1..(Len(data) + Len(more)) : all[i] = IF i <= Len(data) THEN data[i] ELSE more[i - Len(data)]
  BY Joined
<1>2. PICK short \in Bytes :
         /\ short = OnFrom(data, taken + 1) /\ Len(short) = Len(data) - taken
         /\ \A i \in 1..Len(short) : short[i] = data[taken + i]
  BY PartIs
<1>3. PICK long \in Bytes :
         /\ long = OnFrom(all, taken + 1) /\ Len(long) = Len(all) - taken
         /\ \A i \in 1..Len(long) : long[i] = all[taken + i]
  <2>1. taken \in 0..Len(all)
    BY <1>1 DEF Bytes
  <2> QED
    BY <2>1, PartIs
<1>4. PICK joined \in Bytes :
         /\ joined = short \o more /\ Len(joined) = Len(short) + Len(more)
         /\ \A i \in 1..(Len(short) + Len(more)) : joined[i] = IF i <= Len(short) THEN short[i] ELSE more[i - Len(short)]
  BY Joined
<1>5. PICK n \in Nat : n = Len(data)
  BY DEF Bytes
<1>6. PICK m \in Nat : m = Len(more)
  BY DEF Bytes
<1>7. PICK p \in Nat : p = Len(short) /\ n = p + taken /\ taken \in Nat
  BY <1>2, <1>5 DEF Bytes
<1>8. Len(joined) = p + m /\ Len(long) = p + m
  BY <1>1, <1>3, <1>4, <1>5, <1>6, <1>7
<1>9. ASSUME NEW i \in 1..(p + m) PROVE joined[i] = long[i]
  <2>1. /\ joined[i] = IF i <= p THEN short[i] ELSE more[i - p]
        /\ long[i] = all[taken + i]
    BY <1>3, <1>4, <1>6, <1>7, <1>8
  <2>2. taken + i \in 1..(n + m) /\ (taken + i <= n <=> i <= p) /\ taken + i - n = i - p
    BY <1>7
  <2>3. all[taken + i] = IF taken + i <= n THEN data[taken + i] ELSE more[taken + i - n]
    BY <1>1, <1>5, <1>6, <2>2
  <2>4. CASE i <= p
    <3>1. i \in 1..p
      BY <2>4
    <3>2. short[i] = data[taken + i]
      BY <1>2, <1>7, <3>1
    <3> QED
      BY <2>1, <2>2, <2>3, <2>4, <3>2
  <2>5. CASE ~(i <= p)
    BY <2>1, <2>2, <2>3, <2>5
  <2> QED
    BY <2>4, <2>5
<1>10. joined = long
  <2>1. joined \in Seq(STRING) /\ long \in Seq(STRING)
    BY DEF Bytes
  <2>2. Len(joined) = Len(long)
    BY <1>8
  <2>3. \A i \in 1..Len(joined) : joined[i] = long[i]
    BY <1>8, <1>9
  <2> QED
    BY <2>1, <2>2, <2>3, SeqEqual
<1> QED
  BY <1>1, <1>2, <1>3, <1>4, <1>10

\* Bytes that do not end in a bare Esc read the same whatever comes after
\* them: their keys, then those of what they leave and what comes after.
LEMMA ReadsJoin ==
    ASSUME NEW data \in Bytes, NEW more \in Bytes, data[Len(data)] # "esc"
    PROVE  LET read == ReadAll(data)
               next == ReadAll(read.left \o more)
           IN  ReadAll(data \o more) = [keys |-> read.keys \o next.keys, left |-> next.left]
<1> DEFINE Joins(part) ==
             LET read == ReadAll(part)
                 next == ReadAll(read.left \o more)
             IN  ReadAll(part \o more) = [keys |-> read.keys \o next.keys, left |-> next.left]
<1>1. PICK n \in Nat : n = Len(data)
  BY DEF Bytes
<1>2. \A p, q \in Bytes : p \o q \in Bytes
  BY ConcatProperties DEF Bytes
<1>3. \A r \in Readings : r.keys \in KeyLists /\ r.left \in Bytes
                        /\ r = [keys |-> << >> \o r.keys, left |-> r.left]
  BY ConcatEmptySeq DEF Readings, KeyLists
<1>4. ASSUME NEW part \in Bytes, ReadAll(part) = [keys |-> << >>, left |-> part] PROVE Joins(part)
  <2>1. ReadAll(part \o more) \in Readings
    BY <1>2, ReadAllSteps
  <2> QED
    BY <1>3, <1>4, <2>1
<1>5. << >> \in Bytes
  BY EmptySeq DEF Bytes
<1>6. Joins(OnFrom(data, n + 1))
  <2>1. OnFrom(data, n + 1) = << >>
    BY <1>1, NothingAfter
  <2>2. ReadAll(<< >>) = [keys |-> << >>, left |-> << >>]
    BY <1>5, ReadAllSteps
  <2> QED
    BY <1>4, <1>5, <2>1, <2>2
<1>7. ASSUME NEW k \in 1..n, \A j \in (k + 1)..(n + 1) : Joins(OnFrom(data, j))
      PROVE  Joins(OnFrom(data, k))
  <2>1. PICK part \in Bytes : part = OnFrom(data, k) /\ Len(part) = n - k + 1
    BY <1>1, FromHereOn
  <2>2. part # << >> /\ Len(part) \in Nat /\ Len(part) > 0
    BY <1>1, <2>1
  <2>3. Len(part) > 1 \/ part[1] # "esc"
    <3>1. CASE Len(part) # 1
      BY <2>2, <3>1
    <3>2. CASE Len(part) = 1
      <4>1. n - k + 1 = 1
        BY <2>1, <3>2
      <4>2. k = n
        BY <1>1, <4>1
      <4>3. PICK last \in Bytes : last = OnFrom(data, (n - 1) + 1) /\ Len(last) = n - (n - 1)
                                 /\ \A i \in 1..Len(last) : last[i] = data[(n - 1) + i]
        <5>1. n - 1 \in 0..Len(data)
          BY <1>1
        <5> QED
          BY <1>1, <5>1, PartIs
      <4>4. (n - 1) + 1 = n /\ n - (n - 1) = 1
        BY <1>1
      <4>5. part = last /\ last[1] = data[n]
        BY <2>1, <4>2, <4>3, <4>4
      <4> QED
        BY <1>1, <4>5
    <3> QED
      BY <3>1, <3>2
  <2>4. CASE KeyAt(part).size = 0
    BY <1>4, <2>1, <2>2, <2>4, ReadAllSteps
  <2>5. CASE KeyAt(part).size # 0
    <3>1. PICK taken \in 1..(n - k + 1), key \in KeyLists : KeyAt(part).size = taken /\ KeyAt(part).key = key
      BY <2>1, <2>2, <2>5, KeyIs
    <3>2. PICK later \in Bytes : later = OnFrom(part, taken + 1) /\ Joins(later)
      <4>1. OnFrom(part, taken + 1) = OnFrom(data, k + taken)
        BY <1>1, <2>1, <3>1, FromLaterOn
      <4>2. k + taken \in (k + 1)..(n + 1) /\ k + taken \in 1..(Len(data) + 1)
        BY <1>1, <3>1
      <4>3. OnFrom(data, k + taken) \in Bytes
        BY <4>2, FromHereOn
      <4> HIDE DEF Joins
      <4> QED
        BY <1>7, <4>1, <4>2, <4>3
    <3>3. PICK read \in Readings : read = ReadAll(later)
      BY <3>2, ReadAllSteps
    <3>4. PICK next \in Readings : next = ReadAll(read.left \o more)
      BY <1>2, <1>3, <3>3, ReadAllSteps
    <3>5. ReadAll(part) = [keys |-> key \o read.keys, left |-> read.left]
      BY <2>2, <2>5, <3>1, <3>2, <3>3, ReadAllSteps
    <3>6. ReadAll(later \o more) = [keys |-> read.keys \o next.keys, left |-> next.left]
      BY <3>2, <3>3, <3>4
    <3>7. KeyAt(part \o more) = KeyAt(part)
      BY <2>2, <2>3, <2>5, KeyStays
    <3>8. OnFrom(part \o more, taken + 1) = later \o more
      <4>1. taken \in 0..Len(part)
        BY <1>1, <2>1, <3>1
      <4> QED
        BY <3>2, <4>1, FromInJoined
    <3>9. part \o more \in Bytes /\ part \o more # << >>
      BY <1>2, <2>2, ConcatEqualIffEmpty DEF Bytes
    <3>10. ReadAll(part \o more) = [keys |-> key \o (read.keys \o next.keys), left |-> next.left]
      <4>1. PICK all \in Bytes : all = part \o more
        BY <3>9
      <4>2. KeyAt(all).size = taken /\ KeyAt(all).key = key /\ all # << >>
        BY <3>1, <3>7, <3>9, <4>1
      <4>3. taken # 0
        BY <3>1
      <4>4. PICK next2 \in Readings : next2 = ReadAll(later \o more)
                                    /\ ReadAll(all) = [keys |-> key \o next2.keys, left |-> next2.left]
        BY <3>8, <4>1, <4>2, <4>3, ReadAllSteps
      <4>5. next2.keys = read.keys \o next.keys /\ next2.left = next.left
        <5>1. next2 = [keys |-> read.keys \o next.keys, left |-> next.left]
          BY <3>6, <4>4, Zenon
        <5> QED
          BY <5>1
      <4> QED
        BY <4>1, <4>4, <4>5
    <3>11. (key \o read.keys) \o next.keys = key \o (read.keys \o next.keys)
      BY <1>3, <3>1, <3>3, <3>4, KeysAssociate, Zenon
    <3>12. Joins(part)
      <4>1. PICK found : found = ReadAll(part) /\ found.keys = key \o read.keys /\ found.left = read.left
        BY <3>5
      <4>2. next = ReadAll(found.left \o more)
        BY <3>4, <4>1
      <4>3. found.keys \o next.keys = key \o (read.keys \o next.keys)
        BY <3>11, <4>1
      <4> QED
        BY <3>10, <4>1, <4>2, <4>3
    <3> HIDE DEF Joins
    <3> QED
      BY <2>1, <3>12
  <2> QED
    BY <2>4, <2>5
<1> DEFINE H == {m \in 0..n : \A k \in (n + 1 - m)..(n + 1) : Joins(OnFrom(data, k))}
<1>8. n \in H
  <2> HIDE DEF Joins
  <2>1. 0 \in H
    <3>1. (n + 1 - 0)..(n + 1) = {n + 1}
      BY <1>1
    <3> QED
      BY <1>6, <3>1
  <2>2. ASSUME NEW m \in 1..n, m - 1 \in H PROVE m \in H
    <3>1. PICK a \in 1..n : a = n + 1 - m
      BY <1>1
    <3>2. n + 1 - (m - 1) = a + 1
      BY <1>1, <3>1
    <3>3. \A k \in (a + 1)..(n + 1) : Joins(OnFrom(data, k))
      BY <2>2, <3>2
    <3>4. Joins(OnFrom(data, a))
      BY <1>7, <3>3
    <3>5. \A k \in a..(n + 1) : k = a \/ k \in (a + 1)..(n + 1)
      BY <1>1
    <3>6. \A k \in a..(n + 1) : Joins(OnFrom(data, k))
      BY <3>3, <3>4, <3>5
    <3> QED
      BY <3>1, <3>6
  <2> HIDE DEF H
  <2>3. \A i \in 1..n : i - 1 \in H => i \in H
    BY <2>2
  <2>4. \A i \in 0..n : i \in H
    BY <2>1, <2>3, OneByOne
  <2> QED
    BY <1>1, <2>4
<1>9. OnFrom(data, 1) = data
  BY <1>1, SubSeqFull DEF OnFrom, Bytes
<1>10. Joins(OnFrom(data, 1))
  <2> HIDE DEF Joins
  <2>1. n + 1 - n = 1 /\ 1 \in 1..(n + 1)
    BY <1>1
  <2> QED
    BY <1>8, <2>1
<1> QED
  BY <1>9, <1>10

LEMMA KeysOf ==
    ASSUME NEW k, NEW l
    PROVE  [keys |-> k, left |-> l].keys = k
OBVIOUS

\* However the terminal splits what is typed into reads, the keys are those of
\* the whole of it (runCtx.readKeys, keyReader.read).
THEOREM ReadsAreWhole ==
    HostSpec => []KeysAreWhole
<1>1. KeysAreWhole
  <2> SUFFICES ASSUME NEW one \in Reads, NEW two \in Reads, NEW three \in Reads,
                      LET first == ReadChunk(<< >>, one)
                      IN  /\ \A chunk \in {one, two} : Last(chunk) # "esc"
                          /\ \A data \in {one, first.held \o two} : ~(Len(ReadAll(data).left) > MostHeld)
               PROVE  LET first == ReadChunk(<< >>, one)
                          second == ReadChunk(first.held, two)
                      IN  ReadAll(one \o two \o three).keys
                          = first.keys \o second.keys \o ReadChunk(second.held, three).keys
    BY DEF KeysAreWhole
  <2>1. /\ one \in Bytes /\ two \in Bytes /\ three \in Bytes
        /\ one # << >> /\ two # << >> /\ three # << >>
    BY HostAssumption DEF Bytes
  <2>2. \A p, q \in Bytes : p \o q \in Bytes
    BY ConcatProperties DEF Bytes
  <2>3. PICK r1 \in Readings : r1 = ReadAll(one)
    BY <2>1, ReadAllSteps
  <2>4. << >> \o one = one
    BY <2>1, ConcatEmptySeq DEF Bytes
  <2>5. r1.left \in Bytes /\ r1.keys \in KeyLists
    BY <2>3 DEF Readings
  <2>6. ReadChunk(<< >>, one) = [keys |-> r1.keys, held |-> r1.left]
    <3>1. Len(r1.left) \in Nat /\ MostHeld \in Nat
      BY <2>5, HostAssumption DEF Bytes
    <3>2. ~(Len(r1.left) > MostHeld)
      BY <2>3
    <3> QED
      BY <2>3, <2>4, <3>1, <3>2 DEF ReadChunk
  <2>7. PICK mid \in Bytes : mid = r1.left \o two
    BY <2>1, <2>2, <2>5
  <2>8. PICK r2 \in Readings : r2 = ReadAll(mid)
    BY ReadAllSteps
  <2>9. r2.left \in Bytes /\ r2.keys \in KeyLists
    BY <2>8 DEF Readings
  <2>10. ReadChunk(r1.left, two) = [keys |-> r2.keys, held |-> r2.left]
    <3>1. Len(r2.left) \in Nat /\ MostHeld \in Nat
      BY <2>9, HostAssumption DEF Bytes
    <3>2. ~(Len(r2.left) > MostHeld)
      BY <2>6, <2>7, <2>8
    <3> QED
      BY <2>7, <2>8, <3>1, <3>2 DEF ReadChunk
  <2>11. PICK r3 \in Readings : r3 = ReadAll(r2.left \o three)
    BY <2>1, <2>2, <2>9, ReadAllSteps
  <2>12. ReadChunk(r2.left, three).keys = r3.keys
    BY <2>11 DEF ReadChunk
  <2>13. r3.keys \in KeyLists
    BY <2>11 DEF Readings
  <2>14. one[Len(one)] # "esc" /\ mid[Len(mid)] # "esc"
    <3>1. one[Len(one)] # "esc" /\ two[Len(two)] # "esc"
      BY DEF Last
    <3>2. PICK p, q \in Nat : p = Len(r1.left) /\ q = Len(two)
      BY <2>1, <2>5 DEF Bytes
    <3>3. q > 0
      BY <2>1, <3>2 DEF Bytes
    <3>4. Len(mid) = p + q /\ \A i \in 1..(p + q) : mid[i] = IF i <= p THEN r1.left[i] ELSE two[i - p]
      BY <2>1, <2>5, <2>7, <3>2, ConcatProperties DEF Bytes
    <3>5. p + q \in 1..(p + q) /\ ~(p + q <= p) /\ p + q - p = q
      BY <3>2, <3>3
    <3>6. mid[p + q] = two[q]
      BY <3>4, <3>5
    <3> QED
      BY <3>1, <3>2, <3>4, <3>6
  <2>15. ReadAll(mid \o three).keys = r2.keys \o r3.keys
    <3>1. ReadAll(mid \o three) = [keys |-> ReadAll(mid).keys \o ReadAll(ReadAll(mid).left \o three).keys,
                                   left |-> ReadAll(ReadAll(mid).left \o three).left]
      BY <2>1, <2>14, ReadsJoin, Zenon
    <3>2. ReadAll(mid \o three) = [keys |-> r2.keys \o r3.keys, left |-> r3.left]
      BY <2>8, <2>11, <3>1, Zenon
    <3> QED
      BY <3>2, KeysOf, Zenon
  <2>16. r1.left \o (two \o three) = mid \o three
    <3>1. (r1.left \o two) \o three = r1.left \o (two \o three)
      BY <2>1, <2>5, BytesAssociate
    <3> QED
      BY <2>7, <3>1, Zenon
  <2>17. ReadAll(one \o (two \o three)).keys = r1.keys \o (r2.keys \o r3.keys)
    <3>1. two \o three \in Bytes
      BY <2>1, <2>2
    <3>2. PICK more \in Bytes : more = two \o three
      BY <3>1
    <3>3. ReadAll(one \o more).keys = r1.keys \o ReadAll(r1.left \o more).keys
      <4>1. ReadAll(one \o more) = [keys |-> ReadAll(one).keys \o ReadAll(ReadAll(one).left \o more).keys,
                                    left |-> ReadAll(ReadAll(one).left \o more).left]
        BY <2>1, <2>14, ReadsJoin, Zenon
      <4>2. ReadAll(one \o more) = [keys |-> r1.keys \o ReadAll(r1.left \o more).keys,
                                    left |-> ReadAll(r1.left \o more).left]
        BY <2>3, <4>1, Zenon
      <4> QED
        BY <4>2, KeysOf, Zenon
    <3> QED
      BY <2>15, <2>16, <3>2, <3>3
  <2>18. one \o (two \o three) = (one \o two) \o three
    BY <2>1, BytesAssociate, Zenon
  <2>19. r1.keys \o (r2.keys \o r3.keys) = (r1.keys \o r2.keys) \o r3.keys
    BY <2>5, <2>9, <2>13, KeysAssociate, Zenon
  <2>20. ReadAll(one \o two \o three).keys = r1.keys \o r2.keys \o r3.keys
    BY <2>17, <2>18, <2>19, Zenon
  <2>21. PICK first, second :
           /\ first = ReadChunk(<< >>, one) /\ first.keys = r1.keys /\ first.held = r1.left
           /\ second = ReadChunk(r1.left, two) /\ second.keys = r2.keys /\ second.held = r2.left
    BY <2>6, <2>10
  <2> QED
    BY <2>12, <2>20, <2>21, Zenon
<1> QED
  BY <1>1, PTL

-----------------------------------------------------------------------------
(***************************************************************************)
(* The view of a map.                                                      *)
(*                                                                         *)
(* What a view spans at a zoom is so many powers of two, and the world is  *)
(* a whole number of tiles and of dots at every zoom (WorldIsWhole).  The  *)
(* columns of tiles go from the first dot's to the last's, so each dot is  *)
(* in one (ViewIsCovered).  The cover of places is the circle less its     *)
(* widest gap: anything shorter would have to lie in a wider one           *)
(* (PointsAreCovered), so a view that frames the cover shows every place   *)
(* (FitHolds) and no closer one does (FitIsTight).                         *)
(***************************************************************************)

\* The world has two halves, and so many tiles of one side at any zoom.
LEMMA WorldIsWhole ==
    /\ World \in Nat \ {0} /\ World \div 2 \in Nat \ {0} /\ World = 2 * (World \div 2)
    /\ \A z \in ViewZooms : Dot(z) \in Nat \ {0}
    /\ \A z \in ViewZooms : LET n == 2 ^ TileZoom(z)
                            IN  n \in Nat \ {0} /\ TileSide(z) \in Nat \ {0} /\ World = TileSide(z) * n
<1>1. /\ MaxViewZoom \in Nat /\ MaxSourceZoom \in 0..MaxViewZoom /\ TileCells \in Nat \ {0} /\ MinViewZoom \in Int
  BY ViewAssumption
<1>2. PICK p \in Nat \ {0} : p = 2 ^ MaxViewZoom
  BY <1>1, PowerDoubles
<1>3. World = TileCells * 2 * p
  BY <1>2 DEF World
<1>4. PICK c \in Nat \ {0} : c = TileCells
  BY <1>1
<1>5. c * p \in Nat \ {0} /\ World = 2 * (c * p)
  <2>1. c * p \in Nat /\ c * p >= c
    BY TimesIsMore
  <2>2. c * 2 * p = 2 * (c * p)
    OBVIOUS
  <2> QED
    BY <1>3, <1>4, <2>1, <2>2
<1>6. PICK h \in Nat \ {0} : h = c * p
  BY <1>5
<1>7. World = 2 * h /\ World \div 2 = h
  BY <1>5, <1>6
<1>8. \A z \in ViewZooms : Dot(z) \in Nat \ {0}
  <2> TAKE z \in ViewZooms
  <2>1. MaxViewZoom - z \in Nat
    BY <1>1 DEF ViewZooms
  <2> QED
    BY <2>1, PowerDoubles DEF Dot
<1>9. ASSUME NEW z \in ViewZooms
      PROVE  LET n == 2 ^ TileZoom(z)
             IN  n \in Nat \ {0} /\ TileSide(z) \in Nat \ {0} /\ World = TileSide(z) * n
  <2>1. PICK t \in Nat : t = TileZoom(z) /\ t <= MaxViewZoom
    BY <1>1 DEF TileZoom, Highest, Lowest, ViewZooms
  <2>2. MaxViewZoom - t \in Nat /\ (MaxViewZoom - t) + t = MaxViewZoom
    BY <1>1, <2>1
  <2>3. PICK a \in Nat \ {0}, n \in Nat \ {0} : a = 2 ^ (MaxViewZoom - t) /\ n = 2 ^ t
    BY <2>1, <2>2, PowerDoubles
  <2>4. p = a * n
    BY <1>2, <2>1, <2>2, <2>3, PowersSplit
  <2>5. PICK side \in Nat \ {0} : side = c * 2 * a
    <3>1. c * a \in Nat /\ c * a >= c
      BY TimesIsMore
    <3>2. c * 2 * a = 2 * (c * a)
      OBVIOUS
    <3> QED
      BY <3>1, <3>2
  <2>6. World = side * n
    <3>1. c * 2 * (a * n) = (c * 2 * a) * n
      OBVIOUS
    <3> QED
      BY <1>3, <1>4, <2>4, <2>5, <3>1
  <2>7. World \div n = side
    <3>1. 0 \in 0..n - 1 /\ World = n * side + 0 /\ World \in Int
      BY <2>6
    <3> QED
      BY <3>1, RestIs
  <2> QED
    BY <2>1, <2>3, <2>6, <2>7 DEF TileSide
<1> QED
  BY <1>7, <1>8, <1>9

-----------------------------------------------------------------------------
(* A view held in a bound.                                                 *)

Looking == [x : Int, y : 0..World, zoom : ViewZooms, cols : 1..MaxCells, rows : 1..MaxCells]

LEMMA SpansAre ==
    ASSUME NEW v \in Looking
    PROVE  LET d == Dot(v.zoom)
           IN  /\ d \in Nat \ {0} /\ v.cols * d \in Nat \ {0} /\ v.rows * d \in Nat \ {0}
               /\ Across(v) = 2 * (v.cols * d) /\ Across(v) \div 2 = v.cols * d /\ West(v) = v.x - v.cols * d
               /\ Down(v) = 4 * (v.rows * d) /\ Down(v) \div 2 = 2 * (v.rows * d) /\ Top(v) = v.y - 2 * (v.rows * d)
<1>1. PICK d \in Nat \ {0} : d = Dot(v.zoom)
  BY WorldIsWhole DEF Looking
<1>2. PICK c \in Nat \ {0}, r \in Nat \ {0} : c = v.cols /\ r = v.rows
  BY ViewAssumption DEF Looking
<1>3. c * d \in Nat /\ c * d >= c /\ r * d \in Nat /\ r * d >= r
  BY TimesIsMore
<1>4. PICK a \in Nat \ {0}, b \in Nat \ {0} : a = c * d /\ b = r * d
  BY <1>3
<1>5. c * (2 * d) = 2 * a /\ 2 * r * (2 * d) = 4 * b
  <2>1. \A m, n \in Nat : m * (2 * n) = 2 * (m * n) /\ 2 * m * (2 * n) = 4 * (m * n)
    OBVIOUS
  <2> QED
    BY <1>4, <2>1
<1>6. Across(v) = 2 * a /\ Down(v) = 4 * b
  BY <1>1, <1>2, <1>5 DEF Across, Down, Cell
<1>7. (2 * a) \div 2 = a /\ (4 * b) \div 2 = 2 * b
  OBVIOUS
<1> QED
  BY <1>1, <1>2, <1>4, <1>6, <1>7 DEF West, Top

LEMMA WithinHolds ==
    ASSUME NEW c \in Int, NEW lo \in Int, NEW hi \in Int, lo <= hi, NEW half \in Nat
    PROVE  LET m == Within(c, lo, hi, half)
           IN  m \in lo..hi /\ Holds(m - half, 2 * half, lo, hi)
<1>1. (2 * half) \div 2 = half
  OBVIOUS
<1>2. CASE hi - lo <= 2 * half
  <2>1. PICK m \in Int : m = (lo + hi) \div 2 /\ lo <= m /\ m <= hi
    OBVIOUS
  <2>2. Within(c, lo, hi, half) = m
    BY <1>2, <2>1 DEF Within
  <2>3. (m - half) + (2 * half) \div 2 = (lo + hi) \div 2
    BY <1>1, <2>1
  <2> QED
    BY <1>2, <2>1, <2>2, <2>3 DEF Holds
<1>3. CASE hi - lo > 2 * half
  BY <1>3 DEF Within, Holds, Highest, Lowest
<1> QED
  BY <1>2, <1>3

LEMMA EastIs ==
    ASSUME NEW b \in Bounds
    PROVE  /\ b # NoBound /\ b.zoom \in 0..MaxViewZoom /\ b.w \in 0..World /\ b.n \in 0..World /\ b.s \in 0..World
           /\ b.n < b.s /\ EastOf(b) \in 0..2 * World - 1 /\ b.w <= EastOf(b)
<1>1. /\ b.zoom \in 0..MaxViewZoom /\ b.w \in 0..World /\ b.e \in 0..World /\ b.n \in 0..World /\ b.s \in 0..World
      /\ b.w # b.e /\ b.n < b.s
  BY ViewAssumption
<1>2. World \in Nat \ {0}
  BY WorldIsWhole
<1>3. b # NoBound
  BY <1>1 DEF NoBound
<1>4. EastOf(b) \in 0..2 * World - 1 /\ b.w <= EastOf(b)
  <2>1. ASSUME NEW W \in Nat \ {0}, NEW w \in 0..W, NEW e \in 0..W, w # e
        PROVE  /\ w > e => e + W \in 0..2 * W - 1 /\ w <= e + W
               /\ ~(w > e) => e \in 0..2 * W - 1 /\ w < e
    BY <2>1
  <2>2. /\ b.w > b.e => b.e + World \in 0..2 * World - 1 /\ b.w <= b.e + World
        /\ ~(b.w > b.e) => b.e \in 0..2 * World - 1 /\ b.w <= b.e
    BY <1>1, <1>2, <2>1
  <2>3. EastOf(b) = IF b.w > b.e THEN b.e + World ELSE b.e
    BY DEF EastOf
  <2>4. CASE b.w > b.e
    BY <2>2, <2>3, <2>4
  <2>5. CASE ~(b.w > b.e)
    BY <2>2, <2>3, <2>5
  <2> QED
    BY <2>4, <2>5
<1> QED
  BY <1>1, <1>3, <1>4

LEMMA NearestIs ==
    ASSUME NEW x \in Int, NEW b \in Bounds
    PROVE  Nearest(x, b) \in Int
<1> DEFINE far(c) == Gap(c, b.w, EastOf(b))
           copies == {x - World, x, x + World}
           gaps == {far(c) : c \in copies}
           best(c) == /\ far(c) = Min(gaps)
                      /\ c # x => far(x) > Min(gaps)
                      /\ c = x + World => far(x - World) > Min(gaps)
<1>1. World \in Nat \ {0} /\ copies \subseteq Int
  BY WorldIsWhole
<1>2. \A c \in copies : far(c) \in Nat
  BY <1>1, EastIs DEF Gap, Highest
<1>3. gaps \subseteq Nat /\ gaps # {}
  BY <1>2
<1>4. Min(gaps) \in gaps /\ \A n \in gaps : Min(gaps) <= n
  BY <1>3, LeastOf
<1>5. PICK m \in Nat : m = Min(gaps)
  BY <1>3, <1>4
<1>6. \A c \in copies : m <= far(c)
  BY <1>4, <1>5
<1>7. \E c \in copies : far(c) = m
  BY <1>4, <1>5
<1>8. x \in copies /\ x - World \in copies /\ x + World \in copies
  OBVIOUS
<1>9. \E c \in copies : best(c)
  <2>1. CASE far(x) = m
    BY <1>1, <1>5, <1>8, <2>1
  <2>2. CASE far(x) # m /\ far(x - World) = m
    <3>1. far(x) > m
      BY <1>2, <1>6, <1>8, <2>2
    <3>2. x - World # x + World
      BY <1>1
    <3> QED
      BY <1>5, <1>8, <2>2, <3>1, <3>2
  <2>3. CASE far(x) # m /\ far(x - World) # m
    <3>1. far(x) > m /\ far(x - World) > m
      BY <1>2, <1>6, <1>8, <2>3
    <3>2. far(x + World) = m
      BY <1>7, <2>3
    <3> QED
      BY <1>5, <1>8, <3>1, <3>2
  <2> QED
    BY <2>1, <2>2, <2>3
<1>10. Nearest(x, b) = CHOOSE c \in copies : best(c)
  BY DEF Nearest
<1> HIDE DEF best, copies
<1>11. Nearest(x, b) \in copies
  BY <1>9, <1>10
<1> QED
  BY <1>1, <1>11

\* The view is within a bound, as ViewKeepsTheBound says.
Keeps(v, b) ==
    /\ v.zoom >= b.zoom
    /\ \E turn \in {0, World} : Holds(West(v) + turn, Across(v), b.w, EastOf(b))
    /\ Holds(Top(v), Down(v), b.n, b.s)

LEMMA BoundedIs ==
    ASSUME NEW v \in Looking, NEW b \in Bounds
    PROVE  Bounded(v, b) \in Looking /\ Keeps(Bounded(v, b), b)
<1> DEFINE closer == [v EXCEPT !.zoom = Highest(v.zoom, b.zoom)]
           half == Across(closer) \div 2
           tall == Down(closer) \div 2
           x == Within(Nearest(v.x, b), b.w, EastOf(b), half)
           y == Within(v.y, b.n, b.s, tall)
           w == [closer EXCEPT !.x = x % World, !.y = y]
<1>1. /\ b # NoBound /\ b.zoom \in 0..MaxViewZoom /\ b.w \in 0..World /\ b.n \in 0..World /\ b.s \in 0..World
      /\ b.n < b.s /\ EastOf(b) \in 0..2 * World - 1 /\ b.w <= EastOf(b)
  BY EastIs
<1>2. World \in Nat \ {0} /\ MinViewZoom \in Int /\ MaxViewZoom \in Nat
  BY WorldIsWhole, ViewAssumption
<1>3. Highest(v.zoom, b.zoom) \in ViewZooms /\ Highest(v.zoom, b.zoom) >= b.zoom
  BY <1>1, <1>2 DEF Looking, ViewZooms, Highest
<1>4. closer \in Looking /\ closer.zoom >= b.zoom
  BY <1>3 DEF Looking
<1>5. Bounded(v, b) = w
  BY <1>1 DEF Bounded
<1>6. /\ half \in Nat /\ Across(closer) = 2 * half /\ West(closer) = closer.x - half
      /\ tall \in Nat /\ Down(closer) = 2 * tall /\ Top(closer) = closer.y - tall
  <2> HIDE DEF closer
  <2> QED
    BY <1>4, SpansAre
<1>7. x \in b.w..EastOf(b) /\ Holds(x - half, 2 * half, b.w, EastOf(b))
  <2>1. Nearest(v.x, b) \in Int
    BY NearestIs DEF Looking
  <2>2. b.w \in Int /\ EastOf(b) \in Int /\ b.w <= EastOf(b)
    BY <1>1, <1>2
  <2> HIDE DEF half
  <2>3. half \in Nat
    BY <1>6
  <2> QED
    BY <2>1, <2>2, <2>3, WithinHolds
<1>8. y \in b.n..b.s /\ Holds(y - tall, 2 * tall, b.n, b.s)
  <2>1. v.y \in Int
    BY <1>2 DEF Looking
  <2>2. b.n \in Int /\ b.s \in Int /\ b.n <= b.s
    BY <1>1, <1>2
  <2> HIDE DEF tall
  <2>3. tall \in Nat
    BY <1>6
  <2> QED
    BY <2>1, <2>2, <2>3, WithinHolds
<1>9. \E turn \in {0, World} : (x % World) + turn = x
  <2> HIDE DEF x
  <2>1. CASE x < World
    <3>1. x \in Int /\ 0 <= x
      BY <1>1, <1>2, <1>7
    <3>2. x % World = x
      BY <1>2, <2>1, <3>1, OneTurn
    <3> QED
      BY <3>1, <3>2
  <2>2. CASE x >= World
    <3>1. x \in Int /\ World <= x /\ x < 2 * World
      BY <1>1, <1>2, <1>7, <2>2
    <3>2. x % World = x - World
      BY <1>2, <3>1, OneTurn
    <3>3. (x - World) + World = x
      BY <1>2, <3>1
    <3> QED
      BY <3>2, <3>3
  <2>3. x \in Int
    BY <1>1, <1>2, <1>7
  <2> QED
    BY <1>2, <2>1, <2>2, <2>3
<1>10. x \in Int /\ x % World \in Int /\ y \in 0..World
  <2>1. x \in Int
    BY <1>1, <1>2, <1>7
  <2>2. y \in 0..World
    BY <1>1, <1>2, <1>8
  <2> HIDE DEF x
  <2>3. x % World \in 0..World - 1
    BY <1>2, <2>1, DivMod
  <2> QED
    BY <1>2, <2>1, <2>2, <2>3
<1> HIDE DEF x, y, half, tall
<1>11. w \in Looking
  BY <1>4, <1>10 DEF Looking
<1>12. /\ w.zoom = closer.zoom /\ w.cols = closer.cols /\ w.rows = closer.rows
       /\ w.x = x % World /\ w.y = y
  BY DEF Looking
<1> HIDE DEF closer, w
<1>13. Across(w) = 2 * half /\ Down(w) = 2 * tall /\ West(w) = (x % World) - half /\ Top(w) = y - tall
  BY <1>6, <1>12 DEF Across, Down, West, Top, half, tall
<1>14. \E turn \in {0, World} : Holds(West(w) + turn, Across(w), b.w, EastOf(b))
  <2>1. PICK turn \in {0, World} : (x % World) + turn = x
    BY <1>9
  <2>2. turn \in Int /\ x % World \in Int /\ half \in Int /\ x \in Int
    BY <1>2, <1>6, <1>10
  <2>3. ((x % World) - half) + turn = x - half
    <3>1. PICK m \in Int : m = x % World
      BY <2>2
    <3> QED
      BY <2>1, <2>2, <3>1
  <2> QED
    BY <1>7, <1>13, <2>3
<1> QED
  BY <1>4, <1>5, <1>8, <1>11, <1>12, <1>13, <1>14 DEF Keeps

-----------------------------------------------------------------------------
(* The tiles of a view.                                                    *)

\* A tile in its own copy of the world is where its column is.
LEMMA ColumnIs ==
    ASSUME NEW side \in Nat \ {0}, NEW n \in Nat \ {0}, NEW k \in Int
    PROVE  (k % n) * side + (k \div n) * (side * n) = k * side
<1>1. PICK q \in Int, r \in 0..n - 1 : q = k \div n /\ r = k % n /\ k = n * q + r
  BY QuotientAndRest
<1>2. r * side + q * (side * n) = (n * q + r) * side
  OBVIOUS
<1> QED
  BY <1>1, <1>2

LEMMA PlacedAre ==
    ASSUME NEW v \in Looking, ~TooManyTiles(v)
    PROVE  LET side == TileSide(v.zoom)
           IN  {[west |-> p.x * side + p.shift * World, y |-> p.y] : p \in Placements(v)}
                 = {[west |-> k * side, y |-> r] : k \in TileColumns(v), r \in TileRows(v)}
<1> DEFINE side == TileSide(v.zoom)
           n == 2 ^ TileZoom(v.zoom)
           laid(k, r) == [x |-> k % n, y |-> r, shift |-> k \div n]
           at(p) == [west |-> p.x * side + p.shift * World, y |-> p.y]
           K == TileColumns(v)
           R == TileRows(v)
<1>1. Placements(v) = {laid(k, r) : k \in K, r \in R}
  BY DEF Placements
<1>2. n \in Nat \ {0} /\ side \in Nat \ {0} /\ World = side * n
  BY WorldIsWhole DEF Looking
<1>3. \A k \in K : k \in Int
  BY DEF TileColumns
<1>4. ASSUME NEW k \in K, NEW r \in R PROVE at(laid(k, r)) = [west |-> k * side, y |-> r]
  <2>1. at(laid(k, r)) = [west |-> (k % n) * side + (k \div n) * World, y |-> r]
    OBVIOUS
  <2>2. (k % n) * side + (k \div n) * (side * n) = k * side
    <3> HIDE DEF side, n, K
    <3> QED
      BY <1>2, <1>3, ColumnIs
  <2> HIDE DEF side, n, at, laid
  <2> QED
    BY <1>2, <2>1, <2>2
<1>5. {at(p) : p \in Placements(v)} = {at(laid(k, r)) : k \in K, r \in R}
  <2> HIDE DEF at, laid, K, R
  <2> QED
    BY <1>1
<1> HIDE DEF laid, K, R
<1>6. {at(laid(k, r)) : k \in K, r \in R} = {[west |-> k * side, y |-> r] : k \in K, r \in R}
  <2> HIDE DEF at, side
  <2> QED
    BY <1>4
<1> QED
  BY <1>5, <1>6 DEF K, R

\* The columns go from the first dot's to the last dot's.
LEMMA DotIsPlaced ==
    ASSUME NEW v \in Looking, NEW i \in 0..2 * v.cols - 1
    PROVE  /\ West(v) + i * Dot(v.zoom) \in Int
           /\ (West(v) + i * Dot(v.zoom)) \div TileSide(v.zoom) \in TileColumns(v)
<1>1. PICK d \in Nat \ {0}, c \in Nat \ {0} :
         /\ d = Dot(v.zoom) /\ c = v.cols /\ Across(v) = 2 * (c * d) /\ West(v) \in Int
  <2>1. v.cols \in Nat \ {0} /\ v.x \in Int
    BY ViewAssumption DEF Looking
  <2> QED
    BY <2>1, SpansAre
<1>2. PICK side \in Nat \ {0} : side = TileSide(v.zoom)
  BY WorldIsWhole DEF Looking
<1>3. 0 <= i * d /\ i * d <= 2 * (c * d) - d /\ i * d \in Int /\ c * d \in Int
  <2>1. PICK j \in Nat : j = 2 * c - 1 - i
    BY <1>1
  <2>2. i \in Nat /\ i * d \in Nat /\ j * d \in Nat
    BY <2>1, <1>1, TimesIsMore
  <2>3. i * d + j * d = (2 * c - 1) * d
    <3>1. i + j = 2 * c - 1
      BY <2>1, <1>1
    <3>2. (i + j) * d = i * d + j * d
      BY <2>2
    <3> QED
      BY <3>1, <3>2
  <2>4. (2 * c - 1) * d = 2 * (c * d) - d
    OBVIOUS
  <2> QED
    BY <2>2, <2>3, <2>4
<1>4. PICK w \in Int, u \in Int, e \in Int :
         /\ w = West(v) /\ u = West(v) + i * d /\ e = West(v) + Across(v) - d /\ w <= u /\ u <= e
  BY <1>1, <1>3
<1>5. w \div side <= u \div side /\ u \div side <= e \div side
  BY <1>4, QuotientRises
<1>6. w \div side \in Int /\ u \div side \in Int /\ e \div side \in Int
  BY DivMod
<1> QED
  BY <1>1, <1>2, <1>4, <1>5, <1>6 DEF TileColumns

LEMMA RowIs ==
    ASSUME NEW v \in Looking, NEW y \in Int
    PROVE  /\ TileRow(v, y) \in Nat
           /\ y \in 0..World - 1 => TileRow(v, y) = y \div TileSide(v.zoom)
           /\ \A u \in Int : y <= u => TileRow(v, y) <= TileRow(v, u)
<1>1. PICK side \in Nat \ {0}, n \in Nat \ {0} :
         side = TileSide(v.zoom) /\ n = 2 ^ TileZoom(v.zoom) /\ World = side * n
  BY WorldIsWhole DEF Looking
<1>2. \A u \in Int : u \div side \in Int /\ TileRow(v, u) = Highest(0, Lowest(n - 1, u \div side))
  BY <1>1, DivMod DEF TileRow
<1>3. ASSUME y \in 0..World - 1 PROVE y \div side \in 0..n - 1
  <2>1. PICK q \in Int, r \in 0..side - 1 : q = y \div side /\ y = side * q + r /\ q >= 0
    <3>1. y >= 0
      BY <1>1, <1>3
    <3> QED
      BY <3>1, QuotientAndRest
  <2>2. q < n
    <3> SUFFICES ASSUME q >= n PROVE FALSE
      OBVIOUS
    <3>1. PICK z \in Nat : z = q - n
      <4>1. q \in Int /\ n \in Int
        OBVIOUS
      <4> QED
        BY <4>1
    <3>2. z * side \in Nat
      BY TimesIsMore
    <3>3. side * q = side * n + z * side
      <4>1. q = n + z
        BY <3>1
      <4>2. side * (n + z) = side * n + z * side
        OBVIOUS
      <4> QED
        BY <4>1, <4>2
    <3>4. y <= side * n - 1
      BY <1>1, <1>3
    <3> QED
      BY <2>1, <3>2, <3>3, <3>4
  <2> QED
    BY <2>1, <2>2
<1>4. \A u \in Int : y <= u => y \div side <= u \div side
  BY QuotientRises
<1>5. PICK k \in Int : k = y \div side
  BY <1>2
<1>6. TileRow(v, y) = Highest(0, Lowest(n - 1, k))
  BY <1>2, <1>5
<1>7. TileRow(v, y) \in Nat
  BY <1>6 DEF Highest, Lowest
<1>8. y \in 0..World - 1 => TileRow(v, y) = k
  BY <1>3, <1>5, <1>6 DEF Highest, Lowest
<1>9. ASSUME NEW u \in Int, y <= u PROVE TileRow(v, y) <= TileRow(v, u)
  <2>1. PICK m \in Int : m = u \div side /\ k <= m /\ TileRow(v, u) = Highest(0, Lowest(n - 1, m))
    BY <1>2, <1>4, <1>5, <1>9
  <2> QED
    BY <1>6, <2>1 DEF Highest, Lowest
<1> QED
  BY <1>1, <1>5, <1>7, <1>8, <1>9

\* As many tiles have one west edge as there are rows.
LEMMA OneARow ==
    ASSUME NEW west, NEW R, IsFiniteSet(R)
    PROVE  Cardinality({[west |-> west, y |-> r] : r \in R}) = Cardinality(R)
<1> DEFINE T == {[west |-> west, y |-> r] : r \in R}
           f == [r \in R |-> [west |-> west, y |-> r]]
<1>1. \A r, s \in R : f[r] = f[s] => r = s
  <2> TAKE r \in R, s \in R
  <2>1. f[r].y = r /\ f[s].y = s
    OBVIOUS
  <2> QED
    BY <2>1
<1>2. f \in [R -> T] /\ \A t \in T : \E r \in R : f[r] = t
  OBVIOUS
<1> HIDE DEF T, f
<1>3. f \in Bijection(R, T)
  BY <1>1, <1>2, Zenon DEF Bijection, Injection, Surjection, IsInjective
<1>4. Cardinality(T) = Cardinality(R)
  BY <1>3, FS_Bijection DEF ExistsBijection
<1> QED
  BY <1>4 DEF T

LEMMA ViewIsCovered ==
    ASSUME sized => view \in Looking
    PROVE  TilesCoverTheView
<1> SUFFICES ASSUME sized, ~TooManyTiles(view) PROVE TilesCoverTheView
  BY DEF TilesCoverTheView
<1> DEFINE side == TileSide(view.zoom)
           d == Dot(view.zoom)
           K == TileColumns(view)
           R == TileRows(view)
           laid == {[west |-> p.x * side + p.shift * World, y |-> p.y] : p \in Placements(view)}
           rows == {c.y : c \in laid}
<1>1. view \in Looking
  OBVIOUS
<1>2. laid = {[west |-> k * side, y |-> r] : k \in K, r \in R}
  BY <1>1, PlacedAre
<1>3. /\ side \in Nat \ {0} /\ d \in Nat \ {0} /\ World \in Nat \ {0} /\ West(view) \in Int /\ Top(view) \in Int
      /\ view.cols \in Nat \ {0} /\ view.rows \in Nat \ {0}
      /\ view.cols * d \in Nat \ {0} /\ view.rows * d \in Nat \ {0}
      /\ Across(view) = 2 * (view.cols * d) /\ Down(view) = 4 * (view.rows * d)
  <2>1. view.cols \in Nat \ {0} /\ view.rows \in Nat \ {0} /\ view.x \in Int /\ view.y \in Int
    BY <1>1, ViewAssumption, WorldIsWhole DEF Looking
  <2>2. view.zoom \in ViewZooms
    BY <1>1 DEF Looking
  <2> QED
    BY <1>1, <2>1, <2>2, SpansAre, WorldIsWhole
<1>4. K # {} /\ \A k \in K : k \in Int
  <2>1. 0 \in 0..2 * view.cols - 1
    BY <1>3
  <2>2. K # {}
    BY <1>1, <2>1, DotIsPlaced
  <2> QED
    BY <2>2 DEF TileColumns
<1>5. IsFiniteSet(R)
  <2>1. Top(view) + Down(view) - d \in Int
    BY <1>3
  <2>2. TileRow(view, Top(view)) \in Int /\ TileRow(view, Top(view) + Down(view) - d) \in Int
    BY <1>1, <1>3, <2>1, RowIs
  <2> QED
    BY <2>2, FS_Interval DEF TileRows
<1> HIDE DEF K, R, laid, side, d
<1>6. \A c : c \in laid <=> \E k \in K, r \in R : c = [west |-> k * side, y |-> r]
  BY <1>2
<1>7. rows = R
  <2>1. ASSUME NEW r \in R PROVE r \in rows
    <3>1. PICK k \in K : TRUE
      BY <1>4
    <3>2. [west |-> k * side, y |-> r] \in laid
      BY <1>6, <3>1
    <3> QED
      BY <3>2
  <2>2. ASSUME NEW c \in laid PROVE c.y \in R
    BY <1>6
  <2> QED
    BY <2>1, <2>2
<1>8. ASSUME NEW i \in 0..2 * view.cols - 1
      PROVE  LET u == West(view) + i * d
             IN  Cardinality({c \in laid : c.west <= u /\ u < c.west + side}) = Cardinality(rows)
  <2>1. PICK u \in Int : u = West(view) + i * d
    BY <1>1, DotIsPlaced DEF d
  <2>2. PICK q \in Int, s \in 0..side - 1 : q = u \div side /\ u = side * q + s
    <3>1. side \in Nat \ {0}
      BY <1>3
    <3> QED
      BY <3>1, QuotientAndRest
  <2>3. q \in K
    BY <1>1, <2>1, <2>2, DotIsPlaced DEF d, K, side
  <2>4. ASSUME NEW k \in K PROVE k * side <= u /\ u < k * side + side <=> k = q
    <3>1. k \in Int /\ k * side = side * k /\ side * k \in Int
      BY <1>3, <1>4
    <3>2. ASSUME k * side <= u, u < k * side + side PROVE k = q
      <4>1. u - side * k \in 0..side - 1 /\ side * k + (u - side * k) = side * q + s
        BY <1>3, <2>1, <2>2, <3>1, <3>2
      <4> QED
        BY <1>3, <2>2, <3>1, <4>1, OneQuotient
    <3>3. ASSUME k = q PROVE k * side <= u /\ u < k * side + side
      BY <1>3, <2>2, <3>1, <3>3
    <3> QED
      BY <3>2, <3>3
  <2>5. {c \in laid : c.west <= u /\ u < c.west + side} = {[west |-> q * side, y |-> r] : r \in R}
    <3>1. ASSUME NEW c \in laid, c.west <= u, u < c.west + side
          PROVE  c \in {[west |-> q * side, y |-> r] : r \in R}
      <4>1. PICK k \in K, r \in R : c = [west |-> k * side, y |-> r]
        BY <1>6
      <4>2. k = q
        BY <2>4, <3>1, <4>1
      <4> QED
        BY <4>1, <4>2
    <3>2. ASSUME NEW r \in R
          PROVE  LET c == [west |-> q * side, y |-> r] IN c \in laid /\ c.west <= u /\ u < c.west + side
      BY <1>6, <2>3, <2>4
    <3> QED
      BY <3>1, <3>2
  <2>6. Cardinality({[west |-> q * side, y |-> r] : r \in R}) = Cardinality(R)
    BY <1>5, OneARow
  <2> QED
    BY <1>7, <2>1, <2>5, <2>6
<1>9. ASSUME NEW c \in laid PROVE c.west < West(view) + Across(view) /\ c.west + side > West(view)
  <2>1. PICK k \in K, r \in R : c = [west |-> k * side, y |-> r]
    BY <1>6
  <2>2. PICK w \in Int, e \in Int : w = West(view) /\ e = West(view) + Across(view) - d
    BY <1>3
  <2>12. side \in Nat \ {0}
    BY <1>3
  <2>3. PICK p \in Int, a \in 0..side - 1 : p = w \div side /\ w = side * p + a
    BY <2>12, QuotientAndRest
  <2>4. PICK q \in Int, b \in 0..side - 1 : q = e \div side /\ e = side * q + b
    BY <2>12, QuotientAndRest
  <2>5. k \in Int /\ p <= k /\ k <= q
    <3>1. K = p..q
      BY <2>2, <2>3, <2>4, Zenon DEF K, TileColumns, side, d
    <3>2. k \in p..q
      BY <2>1, <3>1, Zenon
    <3> QED
      BY <3>2
  <2>6. \A m, n \in Int : m <= n => side * m <= side * n /\ side * m \in Int /\ side * n \in Int
    <3> TAKE m \in Int, n \in Int
    <3> HAVE m <= n
    <3>1. PICK z \in Nat : z = n - m
      OBVIOUS
    <3>2. z * side \in Nat /\ n = m + z
      BY <1>3, <3>1, TimesIsMore
    <3>3. side * (m + z) = side * m + z * side
      BY <1>3
    <3> QED
      BY <1>3, <3>2, <3>3
  <2>7. side * p <= side * k /\ side * k <= side * q /\ side * k = k * side /\ side * k \in Int
    BY <1>3, <2>5, <2>6
  <2>8. c.west = side * k
    BY <2>1, <2>7
  <2>9. side * k <= e
    BY <1>3, <2>4, <2>7
  <2>10. w < side * k + side
    BY <1>3, <2>3, <2>7
  <2>11. West(view) + Across(view) = e + d /\ e < e + d
    BY <1>3, <2>2
  <2> QED
    BY <1>3, <2>2, <2>7, <2>8, <2>9, <2>10, <2>11
<1>10. ASSUME NEW i \in 0..4 * view.rows - 1
       PROVE  LET u == Top(view) + i * d IN u \in 0..World - 1 => u \div side \in rows
  <2>1. 0 <= i * d /\ i * d <= 4 * (view.rows * d) - d /\ i * d \in Int
    <3>1. PICK j \in Nat : j = 4 * view.rows - 1 - i
      BY <1>3
    <3>2. i \in Nat /\ i * d \in Nat /\ j * d \in Nat
      BY <1>3, TimesIsMore
    <3>3. i + j = 4 * view.rows - 1
      BY <1>3, <3>1
    <3>4. (i + j) * d = i * d + j * d /\ (4 * view.rows - 1) * d = 4 * (view.rows * d) - d
      BY <1>3, <3>2
    <3> QED
      BY <3>2, <3>3, <3>4
  <2>2. PICK t \in Int, u \in Int, e \in Int :
           /\ t = Top(view) /\ u = Top(view) + i * d /\ e = Top(view) + Down(view) - d /\ t <= u /\ u <= e
    BY <1>3, <2>1
  <2>3. /\ TileRow(view, t) \in Nat /\ TileRow(view, u) \in Nat /\ TileRow(view, e) \in Nat
        /\ TileRow(view, t) <= TileRow(view, u) /\ TileRow(view, u) <= TileRow(view, e)
        /\ u \in 0..World - 1 => TileRow(view, u) = u \div side
    BY <1>1, <2>2, RowIs DEF side
  <2>4. R = TileRow(view, t)..TileRow(view, e)
    BY <2>2 DEF R, TileRows, d
  <2> QED
    BY <1>7, <2>2, <2>3, <2>4
<1> QED
  BY <1>8, <1>9, <1>10 DEF TilesCoverTheView, laid, side, d

-----------------------------------------------------------------------------
(* The shortest stretch that covers what is named.                         *)

AreArcs(A) == A # {} /\ \A a \in A : a.start \in 0..World - 1 /\ a.width \in 0..World - 1

LEMMA ArcIs ==
    ASSUME NEW w \in Int, NEW e \in Int
    PROVE  /\ ArcOf(w, e).start = (w - World \div 2) % World
           /\ ArcOf(w, e).start \in 0..World - 1 /\ ArcOf(w, e).width \in 0..World - 1
           /\ w = e => ArcOf(w, e).width = 0
<1>1. World \in Nat \ {0} /\ World \div 2 \in Nat
  BY WorldIsWhole
<1>2. PICK h \in Nat : h = World \div 2
  BY <1>1
<1>3. PICK q \in Int, start \in 0..World - 1 : start = (w - h) % World /\ w - h = World * q + start
  <2>1. World \in Nat \ {0} /\ w - h \in Int
    BY <1>1
  <2> QED
    BY <2>1, QuotientAndRest
<1>4. ((e - h) - start) % World \in 0..World - 1
  <2>1. World \in Nat \ {0} /\ (e - h) - start \in Int
    BY <1>1
  <2> QED
    BY <2>1, DivMod
<1>5. ArcOf(w, e) = [start |-> start, width |-> ((e - h) - start) % World]
  BY <1>2, <1>3 DEF ArcOf
<1>6. ASSUME w = e PROVE ((e - h) - start) % World = 0
  <2>1. PICK x \in Int, r \in 0..World - 1 : x = (e - h) - start /\ r = 0 /\ x = World * q + r
    BY <1>1, <1>3, <1>6
  <2>2. PICK d \in Nat \ {0} : d = World
    BY <1>1
  <2>4. r \in 0..d - 1 /\ x = d * q + r
    BY <2>1, <2>2
  <2>5. x % d = r
    BY <2>4, RestIs
  <2>3. x % World = r
    BY <2>2, <2>5
  <2> QED
    BY <2>1, <2>3
<1> QED
  BY <1>2, <1>3, <1>4, <1>5, <1>6

LEMMA FirstIs ==
    ASSUME NEW A, AreArcs(A)
    PROVE  /\ First(A) \in 0..World - 1 /\ \E a \in A : a.start = First(A)
           /\ \A a \in A : First(A) <= a.start
<1> DEFINE starts == {a.start : a \in A}
<1>1. starts \subseteq Nat /\ starts \subseteq 0..World - 1 /\ starts # {}
  BY WorldIsWhole DEF AreArcs
<1>2. Min(starts) \in starts /\ \A n \in starts : Min(starts) <= n
  BY <1>1, LeastOf
<1> QED
  BY <1>1, <1>2 DEF First

LEMMA ReachIs ==
    ASSUME NEW A, AreArcs(A)
    PROVE  /\ Reach(A) \in 0..2 * World /\ \E a \in A : a.start + a.width = Reach(A)
           /\ \A a \in A : a.start + a.width <= Reach(A)
<1> DEFINE ends == {a.start + a.width : a \in A}
<1>1. World \in Nat
  BY WorldIsWhole
<1>2. ends \subseteq 0..2 * World /\ ends # {}
  BY <1>1 DEF AreArcs
<1>3. Max(ends) \in ends /\ \A n \in ends : n <= Max(ends)
  <2> HIDE DEF ends
  <2>1. 0 \in Int /\ 2 * World \in Int
    BY <1>1
  <2> QED
    BY <1>2, <2>1, GreatestBetween
<1> QED
  BY <1>2, <1>3 DEF Reach

Before(A, s) == {a \in A : a.start < s}

LEMMA GapsAre ==
    ASSUME NEW A, AreArcs(A)
    PROVE  /\ \A u : u \in Uncovered(A) <=>
                 \/ \E s \in A : /\ s.start # First(A)
                                 /\ u = [gap |-> s.start - Reach(Before(A, s.start)), after |-> s.start]
                 \/ u = [gap |-> First(A) + World - Reach(A), after |-> First(A)]
           /\ \A s \in A : s.start # First(A) => AreArcs(Before(A, s.start))
           /\ \A u \in Uncovered(A) : u.gap \in (-2 * World)..(2 * World) /\ \E s \in A : u.after = s.start
<1>1. World \in Nat
  BY WorldIsWhole
<1>2. /\ First(A) \in 0..World - 1 /\ \E a \in A : a.start = First(A)
      /\ \A a \in A : First(A) <= a.start
  BY FirstIs
<1>3. ASSUME NEW s \in A, s.start # First(A) PROVE AreArcs(Before(A, s.start))
  <2>1. s.start \in Int /\ First(A) < s.start
    BY <1>1, <1>2, <1>3 DEF AreArcs
  <2>2. PICK a \in A : a.start = First(A)
    BY <1>2
  <2>3. a \in Before(A, s.start)
    BY <2>1, <2>2 DEF Before
  <2> QED
    BY <2>3 DEF AreArcs, Before
<1>4. \A u : u \in Uncovered(A) <=>
         \/ \E s \in A : /\ s.start # First(A)
                         /\ u = [gap |-> s.start - Reach(Before(A, s.start)), after |-> s.start]
         \/ u = [gap |-> First(A) + World - Reach(A), after |-> First(A)]
  BY Zenon DEF Uncovered, Before
<1>5. ASSUME NEW u \in Uncovered(A) PROVE u.gap \in (-2 * World)..(2 * World) /\ \E s \in A : u.after = s.start
  <2>1. CASE \E s \in A : /\ s.start # First(A)
                          /\ u = [gap |-> s.start - Reach(Before(A, s.start)), after |-> s.start]
    <3>1. PICK s \in A : /\ s.start # First(A)
                         /\ u = [gap |-> s.start - Reach(Before(A, s.start)), after |-> s.start]
      BY <2>1
    <3>2. Reach(Before(A, s.start)) \in 0..2 * World /\ s.start \in 0..World - 1
      BY <1>3, <3>1, ReachIs DEF AreArcs
    <3> QED
      BY <1>1, <3>1, <3>2
  <2>2. CASE u = [gap |-> First(A) + World - Reach(A), after |-> First(A)]
    <3>1. Reach(A) \in 0..2 * World
      BY ReachIs
    <3> QED
      BY <1>1, <1>2, <2>2, <3>1
  <2> QED
    BY <1>4, <1>5, <2>1, <2>2
<1> QED
  BY <1>3, <1>4, <1>5

\* The cover begins after a stretch that none is wider than.
LEMMA CoverIs ==
    ASSUME NEW A, AreArcs(A)
    PROVE  \E u \in Uncovered(A) :
              /\ \A v \in Uncovered(A) : v.gap <= u.gap
              /\ ShortestCover(A) = IF u.gap <= 0 THEN [west |-> 0, width |-> World]
                                    ELSE [west |-> u.after, width |-> World - u.gap]
<1> DEFINE gaps == {u.gap : u \in Uncovered(A)}
           widest == Max(gaps)
           afters == {u.after : u \in {v \in Uncovered(A) : v.gap = widest}}
           of == IF afters = {First(A)} THEN afters ELSE afters \ {First(A)}
<1>1. World \in Nat /\ -2 * World \in Int /\ 2 * World \in Int
  BY WorldIsWhole
<1>2. gaps \subseteq (-2 * World)..(2 * World) /\ gaps # {}
  <2>1. [gap |-> First(A) + World - Reach(A), after |-> First(A)] \in Uncovered(A)
    BY GapsAre
  <2>2. \A u \in Uncovered(A) : u.gap \in (-2 * World)..(2 * World)
    BY GapsAre
  <2> QED
    BY <2>1, <2>2
<1>3. widest \in gaps /\ \A n \in gaps : n <= widest
  <2> HIDE DEF gaps
  <2> QED
    BY <1>1, <1>2, GreatestBetween
<1>4. afters # {} /\ \A n \in afters : n \in Nat
  <2>1. \A u \in Uncovered(A) : \E s \in A : u.after = s.start
    BY GapsAre
  <2>2. \A s \in A : s.start \in Nat
    BY <1>1 DEF AreArcs
  <2> HIDE DEF widest
  <2> QED
    BY <1>3, <2>1, <2>2
<1>5. of \subseteq Nat /\ of # {} /\ of \subseteq afters
  <2> HIDE DEF afters
  <2> QED
    BY <1>4
<1>6. Min(of) \in afters
  <2> HIDE DEF of, afters
  <2> QED
    BY <1>5, LeastOf
<1>7. PICK u \in Uncovered(A) : u.gap = widest /\ u.after = Min(of)
  <2> HIDE DEF of, widest
  <2> QED
    BY <1>6
<1>8. ShortestCover(A) = IF widest <= 0 THEN [west |-> 0, width |-> World]
                         ELSE [west |-> Min(of), width |-> World - widest]
  BY DEF ShortestCover
<1>9. \A v \in Uncovered(A) : v.gap <= widest
  <2> HIDE DEF widest
  <2> QED
    BY <1>3
<1> HIDE DEF widest, of
<1> QED
  BY <1>7, <1>8, <1>9

ArePoints(A) == AreArcs(A) /\ \A a \in A : a.width = 0

\* The stretch before a point goes back to the point before it.
LEMMA PointGaps ==
    ASSUME NEW A, ArePoints(A)
    PROVE  /\ \A s \in A : s.start # First(A) =>
                 \E p \in A : /\ Reach(Before(A, s.start)) = p.start /\ p.start < s.start
                              /\ \A a \in A : a.start < s.start => a.start <= p.start
           /\ \E p \in A : Reach(A) = p.start /\ \A a \in A : a.start <= p.start
<1>1. World \in Nat /\ \A a \in A : a.start \in Nat /\ a.start + a.width = a.start
  BY WorldIsWhole DEF ArePoints, AreArcs
<1>2. ASSUME NEW s \in A, s.start # First(A)
      PROVE  \E p \in A : /\ Reach(Before(A, s.start)) = p.start /\ p.start < s.start
                          /\ \A a \in A : a.start < s.start => a.start <= p.start
  <2>1. AreArcs(Before(A, s.start))
    BY <1>2, GapsAre DEF ArePoints
  <2>2. PICK p \in Before(A, s.start) :
           /\ p.start + p.width = Reach(Before(A, s.start))
           /\ \A a \in Before(A, s.start) : a.start + a.width <= Reach(Before(A, s.start))
    BY <2>1, ReachIs
  <2>3. \A a : a \in Before(A, s.start) <=> a \in A /\ a.start < s.start
    BY DEF Before
  <2> QED
    BY <1>1, <2>2, <2>3
<1>3. \E p \in A : Reach(A) = p.start /\ \A a \in A : a.start <= p.start
  BY <1>1, ReachIs DEF ArePoints
<1> QED
  BY <1>2, <1>3

\* Every point is in the cover of the points, and no shorter stretch has them
\* all.
LEMMA PointsAreCovered ==
    ASSUME NEW A, ArePoints(A)
    PROVE  LET cover == ShortestCover(A)
           IN  /\ cover.west \in 0..World - 1 /\ cover.width \in 0..World - 1
               /\ \A a \in A : (a.start - cover.west) % World <= cover.width
               /\ \A low \in Int, span \in 0..World - 1 :
                     (\A a \in A : (a.start - low) % World <= span) => span >= cover.width
<1> DEFINE cover == ShortestCover(A)
<1>1. World \in Nat \ {0} /\ AreArcs(A) /\ \A a \in A : a.start \in 0..World - 1
  BY WorldIsWhole DEF ArePoints, AreArcs
<1>2. /\ First(A) \in 0..World - 1 /\ \E a \in A : a.start = First(A)
      /\ \A a \in A : First(A) <= a.start
  BY <1>1, FirstIs
<1>3. PICK u \in Uncovered(A) :
         /\ \A v \in Uncovered(A) : v.gap <= u.gap
         /\ cover = IF u.gap <= 0 THEN [west |-> 0, width |-> World]
                    ELSE [west |-> u.after, width |-> World - u.gap]
  BY <1>1, CoverIs
<1>4. \A w : w \in Uncovered(A) <=>
         \/ \E s \in A : /\ s.start # First(A)
                         /\ w = [gap |-> s.start - Reach(Before(A, s.start)), after |-> s.start]
         \/ w = [gap |-> First(A) + World - Reach(A), after |-> First(A)]
  BY <1>1, GapsAre
<1>5. \A s \in A : s.start # First(A) =>
         \E p \in A : /\ Reach(Before(A, s.start)) = p.start /\ p.start < s.start
                      /\ \A a \in A : a.start < s.start => a.start <= p.start
  BY PointGaps
<1>6. PICK last \in A : Reach(A) = last.start /\ \A a \in A : a.start <= last.start
  BY PointGaps
<1>7. u.gap \in Int /\ \E s \in A : u.after = s.start
  <2>1. -2 * World \in Int /\ 2 * World \in Int
    BY <1>1
  <2> QED
    BY <1>1, <2>1, GapsAre
<1>8. First(A) + World - last.start <= u.gap
  <2>1. [gap |-> First(A) + World - Reach(A), after |-> First(A)] \in Uncovered(A)
    BY <1>4
  <2> QED
    BY <1>3, <1>6, <2>1
<1>9. u.gap > 0
  BY <1>1, <1>2, <1>7, <1>8
<1>10. cover.west = u.after /\ cover.width = World - u.gap
  BY <1>3, <1>7, <1>9
<1>11. PICK first \in A : first.start = First(A)
  BY <1>2
<1> HIDE DEF cover
<1>12. \* What is so far past the west edge.
       \A b \in 0..World - 1, a \in 0..World - 1 : (a - b) % World = IF b <= a THEN a - b ELSE a - b + World
  <2> TAKE b \in 0..World - 1, a \in 0..World - 1
  <2>1. CASE b <= a
    <3>1. a - b \in Int /\ 0 <= a - b /\ a - b < World /\ World \in Nat \ {0}
      BY <1>1, <2>1
    <3>2. (a - b) % World = a - b
      BY <3>1, OneTurn
    <3> QED
      BY <2>1, <3>2
  <2>2. CASE ~(b <= a)
    <3>1. a - b \in Int /\ -World <= a - b /\ a - b < 0 /\ World \in Nat \ {0}
      BY <1>1, <2>2
    <3>2. (a - b) % World = a - b + World
      BY <3>1, OneTurn
    <3> QED
      BY <2>2, <3>2
  <2> QED
    BY <2>1, <2>2
<1>13. /\ u.gap <= World
       /\ \A a \in A : (a.start - u.after) % World <= World - u.gap
  <2>1. CASE \E s \in A : /\ s.start # First(A)
                          /\ u = [gap |-> s.start - Reach(Before(A, s.start)), after |-> s.start]
    <3>1. PICK s \in A, p \in A :
             /\ u.gap = s.start - p.start /\ u.after = s.start /\ p.start < s.start
             /\ \A a \in A : a.start < s.start => a.start <= p.start
      BY <1>5, <2>1
    <3>2. ASSUME NEW a \in A PROVE (a.start - s.start) % World <= World - u.gap
      <4>1. (a.start - s.start) % World = IF s.start <= a.start THEN a.start - s.start ELSE a.start - s.start + World
        BY <1>1, <1>12
      <4> QED
        BY <1>1, <3>1, <4>1
    <3> QED
      BY <1>1, <3>1, <3>2
  <2>2. CASE u = [gap |-> First(A) + World - Reach(A), after |-> First(A)]
    <3>1. u.gap = First(A) + World - last.start /\ u.after = First(A)
      BY <1>6, <2>2
    <3>2. ASSUME NEW a \in A PROVE (a.start - First(A)) % World <= World - u.gap
      <4>1. (a.start - First(A)) % World = a.start - First(A)
        BY <1>1, <1>2, <1>12
      <4>2. a.start <= last.start
        BY <1>6
      <4> QED
        BY <1>1, <1>2, <3>1, <4>1, <4>2
    <3> QED
      BY <1>1, <1>2, <1>6, <3>1, <3>2
  <2> QED
    BY <1>3, <1>4, <2>1, <2>2
<1>14. ASSUME NEW low \in Int, NEW span \in 0..World - 1, \A a \in A : (a.start - low) % World <= span
       PROVE  span >= World - u.gap
  <2>1. PICK b \in 0..World - 1, q \in Int : b = low % World /\ low = World * q + b
    BY <1>1, QuotientAndRest
  <2>2. ASSUME NEW a \in A PROVE (a.start - low) % World = IF b <= a.start THEN a.start - b ELSE a.start - b + World
    <3>1. PICK d \in Nat \ {0}, x \in Int : d = World /\ x = a.start - b
      BY <1>1
    <3>2. a.start - low = x - d * q
      BY <1>1, <2>1, <3>1
    <3>3. (x - d * q) % d = x % d
      BY TurnsAway
    <3> QED
      BY <1>12, <1>1, <2>1, <3>1, <3>2, <3>3
  <2>3. \A a \in A : IF b <= a.start THEN a.start - b <= span ELSE a.start - b + World <= span
    BY <1>14, <2>2
  <2>4. CASE (b <= first.start) <=> (b <= last.start)
    <3>1. last.start - first.start <= span
      BY <1>1, <2>1, <2>3, <2>4
    <3> QED
      BY <1>1, <1>7, <1>8, <1>11, <3>1
  <2>5. CASE ~((b <= first.start) <=> (b <= last.start))
    <3> DEFINE east == {a.start : a \in {c \in A : b <= c.start}}
    <3>1. first.start < b /\ b <= last.start
      BY <1>1, <1>2, <1>11, <2>1, <2>5
    <3>2. east \subseteq Nat /\ east # {}
      BY <1>1, <3>1
    <3>3. Min(east) \in east /\ \A n \in east : Min(east) <= n
      BY <3>2, LeastOf
    <3>4. PICK s \in A : b <= s.start /\ \A c \in A : b <= c.start => s.start <= c.start
      BY <3>3
    <3> HIDE DEF east
    <3>5. s.start # First(A)
      BY <1>1, <1>11, <2>1, <3>1, <3>4
    <3>6. PICK p \in A : Reach(Before(A, s.start)) = p.start /\ p.start < s.start
      BY <1>5, <3>5
    <3>7. s.start - p.start <= u.gap
      <4>1. [gap |-> s.start - Reach(Before(A, s.start)), after |-> s.start] \in Uncovered(A)
        BY <1>4, <3>5
      <4> QED
        BY <1>3, <3>6, <4>1
    <3>8. p.start < b
      BY <1>1, <2>1, <3>4, <3>6
    <3>9. p.start - b + World <= span
      BY <1>1, <2>1, <2>3, <3>8
    <3> QED
      BY <1>1, <1>7, <2>1, <3>4, <3>7, <3>9
  <2> QED
    BY <2>4, <2>5
<1>15. cover.west \in 0..World - 1 /\ cover.width \in 0..World - 1
  BY <1>1, <1>7, <1>9, <1>10, <1>13
<1> QED
  BY <1>10, <1>13, <1>14, <1>15 DEF cover

-----------------------------------------------------------------------------
(* The view framed on what is named.                                       *)

Spans(z, cols, rows, width, height) == cols * Cell(z) >= width /\ 2 * rows * Cell(z) >= height

\* The deepest zoom spans what is asked where it is not the least, and no
\* zoom past it does.
LEMMA DeepestIs ==
    ASSUME NEW cols, NEW rows, NEW width, NEW height
    PROVE  LET z == Deepest(cols, rows, width, height)
           IN  /\ z \in ViewZooms
               /\ z > MinViewZoom => Spans(z, cols, rows, width, height)
               /\ \A s \in ViewZooms : s > z => ~Spans(s, cols, rows, width, height)
<1> DEFINE S == {MinViewZoom} \union {z \in ViewZooms : Spans(z, cols, rows, width, height)}
<1>1. MinViewZoom \in Int /\ MaxViewZoom \in Int /\ MinViewZoom \in ViewZooms
  BY ViewAssumption DEF ViewZooms
<1>2. S \subseteq MinViewZoom..MaxViewZoom /\ S # {}
  BY <1>1 DEF ViewZooms
<1>3. Deepest(cols, rows, width, height) = Max(S)
  BY DEF Deepest, Spans
<1>4. Max(S) \in S /\ \A n \in S : n <= Max(S)
  <2> HIDE DEF S
  <2> QED
    BY <1>1, <1>2, GreatestBetween
<1>5. PICK z \in S : z = Max(S) /\ \A n \in S : n <= z
  BY <1>4
<1>6. z \in ViewZooms /\ (z = MinViewZoom \/ Spans(z, cols, rows, width, height))
  BY <1>1
<1>7. z > MinViewZoom => Spans(z, cols, rows, width, height)
  BY <1>1, <1>6 DEF ViewZooms
<1>8. ASSUME NEW s \in ViewZooms, s > z, Spans(s, cols, rows, width, height) PROVE FALSE
  <2>1. s \in S
    BY <1>8
  <2>2. s <= z /\ s \in Int /\ z \in Int
    BY <1>5, <1>6, <2>1 DEF ViewZooms
  <2> QED
    BY <1>8, <2>2
<1> QED
  BY <1>3, <1>5, <1>6, <1>7, <1>8

\* The whole world, at any size.
LEMMA WholeWorldIs ==
    ASSUME NEW cols \in 1..MaxCells, NEW rows \in 1..MaxCells
    PROVE  WholeWorld(cols, rows) \in Looking
<1>1. World \in Nat \ {0} /\ World \div 2 \in Int /\ WholeTop \in 0..World /\ WholeBottom \in 0..World
  BY WorldIsWhole, ViewAssumption
<1>2. (WholeTop + WholeBottom) \div 2 \in 0..World
  <2>1. ASSUME NEW W \in Nat, NEW a \in 0..W, NEW b \in 0..W PROVE (a + b) \div 2 \in 0..W
    OBVIOUS
  <2> QED
    BY <1>1, <2>1
<1>3. Deepest(cols, rows, World, WholeBottom - WholeTop) \in ViewZooms
  BY DeepestIs
<1> QED
  BY <1>1, <1>2, <1>3 DEF WholeWorld, Looking

North(spots, boxes) == Min({p[2] : p \in spots} \union {b.n : b \in boxes})
South(spots, boxes) == Max({p[2] : p \in spots} \union {b.s : b \in boxes})

LEMMA NamedAre ==
    ASSUME NEW spots \in SUBSET Spots, NEW boxes \in SUBSET Boxes, spots # {} \/ boxes # {}
    PROVE  /\ AreArcs(Arcs(spots, boxes))
           /\ North(spots, boxes) \in 0..World /\ South(spots, boxes) \in 0..World
           /\ \A p \in spots : North(spots, boxes) <= p[2] /\ p[2] <= South(spots, boxes)
           /\ boxes = {} => \E p, q \in spots : p[2] = North(spots, boxes) /\ q[2] = South(spots, boxes)
<1> DEFINE norths == {p[2] : p \in spots} \union {b.n : b \in boxes}
           souths == {p[2] : p \in spots} \union {b.s : b \in boxes}
<1>1. World \in Nat \ {0}
  BY WorldIsWhole
<1>2. /\ \A p \in spots : p[1] \in 0..World /\ p[2] \in 0..World
      /\ \A b \in boxes : b.w \in 0..World /\ b.e \in 0..World /\ b.n \in 0..World /\ b.s \in 0..World
  BY ViewAssumption
<1>3. AreArcs(Arcs(spots, boxes))
  <2>1. \A p \in spots : p[1] \in Int
    BY <1>1, <1>2
  <2>2. \A b \in boxes : b.w \in Int /\ b.e \in Int
    BY <1>1, <1>2
  <2>3. \A w, e \in Int : ArcOf(w, e).start \in 0..World - 1 /\ ArcOf(w, e).width \in 0..World - 1
    BY ArcIs
  <2>4. \A a \in Arcs(spots, boxes) : \E w, e \in Int : a = ArcOf(w, e)
    BY <2>1, <2>2 DEF Arcs
  <2>5. Arcs(spots, boxes) # {}
    BY DEF Arcs
  <2> QED
    BY <2>3, <2>4, <2>5 DEF AreArcs
<1>4. norths \subseteq 0..World /\ norths # {} /\ souths \subseteq 0..World /\ souths # {}
  BY <1>2
<1>5. /\ Min(norths) \in norths /\ \A n \in norths : Min(norths) <= n
      /\ Max(souths) \in souths /\ \A n \in souths : n <= Max(souths)
  <2> HIDE DEF norths, souths
  <2>1. 0 \in Int /\ World \in Int
    BY <1>1
  <2> QED
    BY <1>4, <2>1, LeastBetween, GreatestBetween
<1>6. North(spots, boxes) = Min(norths) /\ South(spots, boxes) = Max(souths)
  BY DEF North, South
<1>7. \A p \in spots : p[2] \in norths /\ p[2] \in souths
  OBVIOUS
<1>8. boxes = {} => \A n : (n \in norths \/ n \in souths) => \E p \in spots : p[2] = n
  OBVIOUS
<1> HIDE DEF norths, souths
<1>9. boxes = {} => \E p, q \in spots : p[2] = North(spots, boxes) /\ q[2] = South(spots, boxes)
  BY <1>5, <1>6, <1>8, Zenon
<1> QED
  BY <1>3, <1>4, <1>5, <1>6, <1>7, <1>9

LEMMA FramedIs ==
    ASSUME NEW v \in Looking, NEW margin \in Nat,
           NEW spots \in SUBSET Spots, NEW boxes \in SUBSET Boxes, spots # {} \/ boxes # {}
    PROVE  LET cover == ShortestCover(Arcs(spots, boxes))
               north == North(spots, boxes)
               south == South(spots, boxes)
               f == Framed(v, spots, boxes, margin)
           IN  /\ f \in Looking /\ f.cols = v.cols /\ f.rows = v.rows
               /\ f.x = (cover.west + cover.width \div 2 + World \div 2) % World
               /\ f.y = (north + south) \div 2
               /\ f.zoom = IF cover.width = 0 /\ north = south THEN v.zoom
                           ELSE Deepest(v.cols - 2 * margin, v.rows - 2 * margin, cover.width, south - north)
<1> DEFINE cover == ShortestCover(Arcs(spots, boxes))
           north == North(spots, boxes)
           south == South(spots, boxes)
           zoom == IF cover.width = 0 /\ north = south THEN v.zoom
                   ELSE Deepest(v.cols - 2 * margin, v.rows - 2 * margin, cover.width, south - north)
           x == (cover.west + cover.width \div 2 + World \div 2) % World
           y == (north + south) \div 2
<1>1. World \in Nat \ {0} /\ World \div 2 \in Int
  BY WorldIsWhole
<1>2. AreArcs(Arcs(spots, boxes)) /\ north \in 0..World /\ south \in 0..World
  BY NamedAre
<1>3. cover.west \in Int /\ cover.width \in Int
  <2>1. PICK u \in Uncovered(Arcs(spots, boxes)) :
           cover = IF u.gap <= 0 THEN [west |-> 0, width |-> World]
                   ELSE [west |-> u.after, width |-> World - u.gap]
    BY <1>2, CoverIs
  <2>2. u.gap \in (-2 * World)..(2 * World) /\ \E s \in Arcs(spots, boxes) : u.after = s.start
    BY <1>2, GapsAre
  <2>3. u.gap \in Int /\ u.after \in Int
    BY <1>1, <1>2, <2>2 DEF AreArcs
  <2> HIDE DEF cover
  <2> QED
    BY <1>1, <2>1, <2>3
<1>4. x \in Int
  <2> HIDE DEF cover
  <2>1. cover.west + cover.width \div 2 + World \div 2 \in Int
    BY <1>1, <1>3
  <2> QED
    BY <1>1, <2>1, DivMod
<1>5. y \in 0..World
  <2>1. ASSUME NEW W \in Nat, NEW a \in 0..W, NEW b \in 0..W PROVE (a + b) \div 2 \in 0..W
    OBVIOUS
  <2> HIDE DEF north, south
  <2> QED
    BY <1>1, <1>2, <2>1
<1>6. zoom \in ViewZooms
  <2>1. Deepest(v.cols - 2 * margin, v.rows - 2 * margin, cover.width, south - north) \in ViewZooms
    BY DeepestIs
  <2> QED
    BY <2>1 DEF Looking
<1>7. Framed(v, spots, boxes, margin) = [v EXCEPT !.x = x, !.y = y, !.zoom = zoom]
  BY DEF Framed, North, South
<1> HIDE DEF x, y, zoom
<1>8. LET f == [v EXCEPT !.x = x, !.y = y, !.zoom = zoom]
      IN  f \in Looking /\ f.cols = v.cols /\ f.rows = v.rows /\ f.x = x /\ f.y = y /\ f.zoom = zoom
  BY <1>4, <1>5, <1>6 DEF Looking
<1> QED
  BY <1>7, <1>8 DEF x, y, zoom

\* A place is shown where it lies within half the view's inside of its middle.
LEMMA ShowsIs ==
    ASSUME NEW v \in Looking, NEW margin \in Nat, NEW w \in Int, NEW n \in Int
    PROVE  LET h == (v.cols - 2 * margin) * Dot(v.zoom)
               k == (v.rows - 2 * margin) * Dot(v.zoom)
           IN  /\ h \in Int /\ k \in Int
               /\ (v.cols - 2 * margin) * Cell(v.zoom) = 2 * h
               /\ 2 * (v.rows - 2 * margin) * Cell(v.zoom) = 4 * k
               /\ Shows(v, w, 0, n, n, margin) <=>
                    /\ 2 * h >= World \/ (w - (v.x - h)) % World <= 2 * h
                    /\ v.y - 2 * k <= n /\ n <= v.y + 2 * k
<1>1. PICK d \in Nat \ {0}, a \in Nat \ {0}, b \in Nat \ {0}, m \in Nat :
         /\ d = Dot(v.zoom) /\ a = v.cols * d /\ b = v.rows * d /\ m = margin * d
         /\ Across(v) = 2 * a /\ West(v) = v.x - a /\ Down(v) = 4 * b /\ Top(v) = v.y - 2 * b
  <2>1. Dot(v.zoom) \in Nat \ {0}
    BY SpansAre
  <2>2. margin * Dot(v.zoom) \in Nat
    BY <2>1, TimesIsMore
  <2> QED
    BY <2>1, <2>2, SpansAre
<1>2. v.cols \in Int /\ v.rows \in Int /\ v.x \in Int /\ v.y \in Int /\ World \in Nat \ {0}
  BY WorldIsWhole, ViewAssumption DEF Looking
<1>3. \A c \in Int : (c - 2 * margin) * d = c * d - 2 * (margin * d)
  OBVIOUS
<1>4. PICK h \in Int, k \in Int :
         /\ h = (v.cols - 2 * margin) * Dot(v.zoom) /\ k = (v.rows - 2 * margin) * Dot(v.zoom)
         /\ h = a - 2 * m /\ k = b - 2 * m
  <2>1. (v.cols - 2 * margin) * d = a - 2 * m /\ (v.rows - 2 * margin) * d = b - 2 * m
    BY <1>1, <1>2, <1>3
  <2> QED
    BY <1>1, <2>1
<1>5. \A c \in Int : c * (2 * d) = 2 * (c * d) /\ 2 * c * (2 * d) = 4 * (c * d)
  OBVIOUS
<1>6. /\ (v.cols - 2 * margin) * Cell(v.zoom) = 2 * h
      /\ 2 * (v.rows - 2 * margin) * Cell(v.zoom) = 4 * k
  <2>1. v.cols - 2 * margin \in Int /\ v.rows - 2 * margin \in Int
    BY <1>2
  <2>2. Cell(v.zoom) = 2 * d
    BY <1>1 DEF Cell
  <2> QED
    BY <1>1, <1>4, <1>5, <2>1, <2>2
<1>7. margin * Cell(v.zoom) = 2 * m /\ 2 * margin * Cell(v.zoom) = 4 * m
  <2>1. Cell(v.zoom) = 2 * d /\ margin \in Int
    BY <1>1 DEF Cell
  <2> QED
    BY <1>1, <1>5, <2>1
<1>8. /\ Across(v) - 2 * margin * Cell(v.zoom) = 2 * h
      /\ w - (West(v) + margin * Cell(v.zoom)) = w - (v.x - h)
      /\ Top(v) + 2 * margin * Cell(v.zoom) = v.y - 2 * k
      /\ Top(v) + Down(v) - 2 * margin * Cell(v.zoom) = v.y + 2 * k
  BY <1>1, <1>2, <1>4, <1>7
<1>9. ((w - (v.x - h)) % World) + 0 = (w - (v.x - h)) % World
  <2>1. (w - (v.x - h)) % World \in Int
    <3>1. w - (v.x - h) \in Int
      BY <1>2
    <3> QED
      BY <1>2, <3>1, DivMod
  <2> QED
    BY <2>1
<1>10. Shows(v, w, 0, n, n, margin) <=>
         /\ 2 * h >= World \/ (w - (v.x - h)) % World <= 2 * h
         /\ v.y - 2 * k <= n /\ n <= v.y + 2 * k
  BY <1>8, <1>9 DEF Shows
<1> QED
  BY <1>4, <1>6, <1>10

\* Places are covered where their arcs are points.
LEMMA PlacesAre ==
    ASSUME NEW spots \in SUBSET Spots, spots # {}
    PROVE  /\ ArePoints(Arcs(spots, {}))
           /\ \A p \in spots : \E a \in Arcs(spots, {}) : a.start = (p[1] - World \div 2) % World
           /\ \A a \in Arcs(spots, {}) : \E p \in spots : a.start = (p[1] - World \div 2) % World
<1>1. \A p \in spots : p[1] \in Int
  BY WorldIsWhole, ViewAssumption
<1>2. Arcs(spots, {}) = {ArcOf(p[1], p[1]) : p \in spots}
  BY DEF Arcs
<1>3. \A p \in spots : /\ ArcOf(p[1], p[1]).start = (p[1] - World \div 2) % World
                       /\ ArcOf(p[1], p[1]).width = 0
  BY <1>1, ArcIs
<1>4. AreArcs(Arcs(spots, {}))
  BY NamedAre
<1> QED
  BY <1>2, <1>3, <1>4 DEF ArePoints

\* Whatever lies so far into a cover no wider than the view is in the view.
LEMMA CoveredIsShown ==
    ASSUME NEW W \in Nat \ {0}, NEW w \in Int, NEW half \in Int, NEW west \in Int, NEW width \in Nat,
           NEW h \in Nat, width <= 2 * h, 2 * h < W,
           ((w - half) - west) % W <= width
    PROVE  (w - (((west + width \div 2 + half) % W) - h)) % W <= 2 * h
<1>1. PICK q \in Int, t \in 0..W - 1 : t = ((w - half) - west) % W /\ (w - half) - west = W * q + t
  <2>1. (w - half) - west \in Int
    OBVIOUS
  <2> QED
    BY <2>1, QuotientAndRest
<1>2. PICK m \in Nat : m = width \div 2 /\ 2 * m <= width /\ width <= 2 * m + 1
  OBVIOUS
<1>3. PICK k \in Int, x \in 0..W - 1 : x = (west + m + half) % W /\ west + m + half = W * k + x
  <2>1. west + m + half \in Int
    OBVIOUS
  <2> QED
    BY <2>1, QuotientAndRest
<1>4. PICK g \in Int : g = t - m + h
  OBVIOUS
<1>5. 0 <= g /\ g <= 2 * h /\ g < W
  BY <1>1, <1>2, <1>4
<1>6. g % W = g
  BY <1>5, OneTurn
<1>7. PICK j \in Int : j = -(q + k)
  OBVIOUS
<1>8. w - (x - h) = g - W * j
  <2>1. W * j = -(W * q) - W * k
    BY <1>7
  <2>2. PICK a \in Int, b \in Int : a = W * q /\ b = W * k
    OBVIOUS
  <2>3. PICK c \in Int : c = W * j /\ c = -a - b
    BY <2>1, <2>2
  <2>4. w - half - west = a + t /\ west + m + half = b + x
    BY <1>1, <1>3, <2>2
  <2>5. w - (x - h) = (t - m + h) - c
    BY <2>3, <2>4
  <2> QED
    BY <1>4, <2>3, <2>5
<1>9. (g - W * j) % W = g % W
  BY TurnsAway
<1> QED
  BY <1>2, <1>3, <1>5, <1>6, <1>8, <1>9

LEMMA FitHolds ==
    ASSUME NEW v \in Looking, NEW margin \in Nat, v.cols > 2 * margin, v.rows > 2 * margin,
           NEW spots \in SUBSET Spots, spots # {},
           Framed(v, spots, {}, margin).zoom > MinViewZoom
    PROVE  \A p \in spots : Shows(Framed(v, spots, {}, margin), p[1], 0, p[2], p[2], margin)
<1> DEFINE f == Framed(v, spots, {}, margin)
           cover == ShortestCover(Arcs(spots, {}))
           north == North(spots, {})
           south == South(spots, {})
           h == (f.cols - 2 * margin) * Dot(f.zoom)
           k == (f.rows - 2 * margin) * Dot(f.zoom)
<1>1. /\ f \in Looking /\ f.cols = v.cols /\ f.rows = v.rows
      /\ f.x = (cover.west + cover.width \div 2 + World \div 2) % World
      /\ f.y = (north + south) \div 2
      /\ f.zoom = IF cover.width = 0 /\ north = south THEN v.zoom
                  ELSE Deepest(v.cols - 2 * margin, v.rows - 2 * margin, cover.width, south - north)
  BY FramedIs
<1>2. /\ World \in Nat \ {0} /\ World \div 2 \in Int /\ north \in 0..World /\ south \in 0..World
      /\ \A p \in spots : p[1] \in 0..World /\ p[2] \in 0..World /\ north <= p[2] /\ p[2] <= south
  <2>1. north \in 0..World /\ south \in 0..World /\ \A p \in spots : north <= p[2] /\ p[2] <= south
    BY NamedAre
  <2>2. \A p \in spots : p[1] \in 0..World /\ p[2] \in 0..World
    BY ViewAssumption
  <2> QED
    BY <2>1, <2>2, WorldIsWhole
<1>3. /\ cover.west \in 0..World - 1 /\ cover.width \in 0..World - 1
      /\ \A a \in Arcs(spots, {}) : (a.start - cover.west) % World <= cover.width
  BY PlacesAre, PointsAreCovered
<1> HIDE DEF f, cover, north, south
<1>4. /\ h \in Int /\ k \in Int
      /\ (f.cols - 2 * margin) * Cell(f.zoom) = 2 * h
      /\ 2 * (f.rows - 2 * margin) * Cell(f.zoom) = 4 * k
  <2>1. 0 \in Int
    OBVIOUS
  <2> QED
    BY <1>1, <2>1, ShowsIs
<1>5. h \in Nat /\ k \in Nat
  <2>1. Dot(f.zoom) \in Nat \ {0} /\ f.cols \in Int /\ f.rows \in Int
    BY <1>1, ViewAssumption, WorldIsWhole DEF Looking
  <2>2. f.cols - 2 * margin \in Nat /\ f.rows - 2 * margin \in Nat
    BY <1>1, <2>1
  <2> QED
    BY <2>1, <2>2, TimesIsMore
<1>6. 2 * h >= cover.width /\ 4 * k >= south - north
  <2>1. CASE cover.width = 0 /\ north = south
    BY <1>2, <1>5, <2>1
  <2>2. CASE ~(cover.width = 0 /\ north = south)
    <3>1. Spans(f.zoom, v.cols - 2 * margin, v.rows - 2 * margin, cover.width, south - north)
      BY <1>1, <2>2, DeepestIs DEF f
    <3> QED
      BY <1>1, <1>4, <3>1 DEF Spans
  <2> QED
    BY <2>1, <2>2
<1> SUFFICES ASSUME NEW p \in spots PROVE Shows(f, p[1], 0, p[2], p[2], margin)
  BY DEF f
<1>7. p[1] \in Int /\ p[2] \in Int
  BY <1>2
<1>8. f.y - 2 * k <= p[2] /\ p[2] <= f.y + 2 * k
  <2>1. PICK a \in Int, b \in Int, y \in Int, n \in Int :
           /\ a = north /\ b = south /\ y = f.y /\ n = p[2]
           /\ 2 * y <= a + b /\ a + b <= 2 * y + 1 /\ a <= n /\ n <= b
    <3>1. ASSUME NEW a \in Int, NEW b \in Int
          PROVE  (a + b) \div 2 \in Int /\ 2 * ((a + b) \div 2) <= a + b /\ a + b <= 2 * ((a + b) \div 2) + 1
      OBVIOUS
    <3>2. north \in Int /\ south \in Int
      BY <1>2
    <3> QED
      BY <1>1, <1>2, <1>7, <3>1, <3>2
  <2>2. PICK c \in Nat : c = k
    BY <1>5
  <2>3. 4 * c >= b - a
    BY <1>6, <2>1, <2>2
  <2>4. y - 2 * c <= n /\ n <= y + 2 * c
    BY <2>1, <2>3
  <2> QED
    BY <2>1, <2>2, <2>4
<1>9. 2 * h >= World \/ (p[1] - (f.x - h)) % World <= 2 * h
  <2>1. PICK a \in Arcs(spots, {}) : a.start = (p[1] - World \div 2) % World
    BY PlacesAre
  <2>2. (a.start - cover.west) % World <= cover.width
    BY <1>3
  <2>3. PICK d \in Nat \ {0}, w \in Int, half \in Int, west \in Int, width \in Nat, r \in Nat :
           d = World /\ w = p[1] /\ half = World \div 2 /\ west = cover.west /\ width = cover.width /\ r = h
    <3> HIDE DEF h
    <3>1. cover.west \in Int /\ cover.width \in Nat
      BY <1>2, <1>3
    <3> QED
      BY <1>2, <1>5, <1>7, <3>1
  <2>4. ((w - half) - west) % d <= width
    <3>1. PICK q \in Int, s \in 0..d - 1 : s = (w - half) % d /\ w - half = d * q + s
      <4>1. w - half \in Int
        OBVIOUS
      <4> QED
        BY <4>1, QuotientAndRest
    <3>2. PICK x \in Int : x = (w - half) - west
      OBVIOUS
    <3>3. s - west = x - d * q
      <4>1. PICK c \in Int : c = d * q
        OBVIOUS
      <4>2. w - half = c + s
        BY <3>1, <4>1
      <4>3. s - west = x - c
        BY <3>2, <4>2
      <4> QED
        BY <4>1, <4>3
    <3>4. (x - d * q) % d = x % d
      BY TurnsAway
    <3>5. a.start = s
      BY <2>1, <2>3, <3>1
    <3> QED
      BY <2>2, <2>3, <3>2, <3>3, <3>4, <3>5
  <2>5. CASE 2 * r < d
    <3>1. width <= 2 * r
      BY <1>6, <2>3
    <3>2. (w - (((west + width \div 2 + half) % d) - r)) % d <= 2 * r
      BY <2>4, <2>5, <3>1, CoveredIsShown
    <3> HIDE DEF h
    <3> QED
      BY <1>1, <2>3, <3>2
  <2> HIDE DEF h
  <2> QED
    BY <2>3, <2>5
<1> QED
  BY <1>1, <1>7, <1>8, <1>9, ShowsIs

\* No closer view shows places apart, wherever it looks.
LEMMA FitIsTight ==
    ASSUME NEW v \in Looking, NEW margin \in Nat, v.cols > 2 * margin, v.rows > 2 * margin,
           NEW spots \in SUBSET Spots,
           \E p, q \in spots : (p[1] - q[1]) % World # 0 \/ p[2] # q[2],
           NEW z \in Framed(v, spots, {}, margin).zoom + 1..MaxViewZoom,
           NEW x \in 0..World - 1, NEW y \in 0..World,
           NEW w, w = [Framed(v, spots, {}, margin) EXCEPT !.zoom = z, !.x = x, !.y = y],
           \A p \in spots : Shows(w, p[1], 0, p[2], p[2], margin)
    PROVE  FALSE
<1> DEFINE f == Framed(v, spots, {}, margin)
           cover == ShortestCover(Arcs(spots, {}))
           north == North(spots, {})
           south == South(spots, {})
           h == (w.cols - 2 * margin) * Dot(w.zoom)
           k == (w.rows - 2 * margin) * Dot(w.zoom)
<1>1. /\ f \in Looking /\ f.cols = v.cols /\ f.rows = v.rows
      /\ f.zoom = IF cover.width = 0 /\ north = south THEN v.zoom
                  ELSE Deepest(v.cols - 2 * margin, v.rows - 2 * margin, cover.width, south - north)
  BY FramedIs
<1>2. /\ World \in Nat \ {0} /\ World \div 2 \in Nat
      /\ \A p \in spots : p[1] \in 0..World /\ p[2] \in 0..World
  BY WorldIsWhole, ViewAssumption
<1>3. north \in 0..World /\ south \in 0..World /\ \A p \in spots : north <= p[2] /\ p[2] <= south
  BY NamedAre
<1>4. /\ cover.west \in 0..World - 1 /\ cover.width \in 0..World - 1
      /\ \A a \in Arcs(spots, {}) : (a.start - cover.west) % World <= cover.width
      /\ \A low \in Int, span \in 0..World - 1 :
            (\A a \in Arcs(spots, {}) : (a.start - low) % World <= span) => span >= cover.width
  BY PlacesAre, PointsAreCovered
<1>5. \E p, q \in spots : p[2] = north /\ q[2] = south
  BY NamedAre
<1>6. z \in ViewZooms /\ z > f.zoom
  <2>1. f.zoom \in ViewZooms
    BY <1>1 DEF Looking
  <2> HIDE DEF f
  <2>2. z \in f.zoom + 1..MaxViewZoom
    BY DEF f
  <2> QED
    BY <2>1, <2>2, ViewAssumption DEF ViewZooms
<1> HIDE DEF f, cover, north, south
<1>7. w \in Looking /\ w.x = x /\ w.y = y /\ w.zoom = z /\ w.cols = v.cols /\ w.rows = v.rows
  <2>1. w = [f EXCEPT !.zoom = z, !.x = x, !.y = y]
    BY DEF f
  <2>2. x \in Int
    BY <1>2
  <2> QED
    BY <1>1, <1>6, <2>1, <2>2 DEF Looking
<1>8. ~(cover.width = 0 /\ north = south)
  <2> SUFFICES ASSUME cover.width = 0, north = south PROVE FALSE
    OBVIOUS
  <2>1. PICK p \in spots, q \in spots : (p[1] - q[1]) % World # 0 \/ p[2] # q[2]
    OBVIOUS
  <2>2. p[2] = q[2]
    BY <1>2, <1>3
  <2>3. \A s \in spots : (s[1] - World \div 2) % World = cover.west
    <3> TAKE s \in spots
    <3>1. PICK a \in Arcs(spots, {}) : a.start = (s[1] - World \div 2) % World
      BY PlacesAre
    <3>2. (a.start - cover.west) % World <= 0
      BY <1>4, <3>1
    <3>9. PICK d \in Nat \ {0} : d = World
      BY <1>2
    <3>3. PICK b \in 0..d - 1, c \in 0..d - 1 : b = a.start /\ c = cover.west
      <4>1. s[1] - World \div 2 \in Int
        BY <1>2
      <4>2. a.start \in 0..World - 1
        BY <1>2, <3>1, <4>1, DivMod
      <4> QED
        BY <1>4, <3>9, <4>2
    <3>4. b - c \in Int /\ -d <= b - c /\ b - c < d /\ (b - c) % d <= 0
      BY <3>2, <3>3, <3>9
    <3>5. (0 <= b - c => (b - c) % d = b - c) /\ (b - c < 0 => (b - c) % d = (b - c) + d)
      BY <3>4, OneTurn
    <3>6. b = c
      BY <3>4, <3>5
    <3> QED
      BY <3>1, <3>3, <3>6
  <2>4. PICK d \in Nat \ {0}, a \in Int, b \in Int, half \in Int :
           d = World /\ a = p[1] /\ b = q[1] /\ half = World \div 2 /\ (a - half) % d = (b - half) % d
    <3>1. p[1] \in Int /\ q[1] \in Int
      BY <1>2
    <3> QED
      BY <1>2, <2>3, <3>1
  <2>5. PICK m \in Int, r \in 0..d - 1 : r = (a - half) % d /\ a - half = d * m + r
    <3>1. a - half \in Int
      OBVIOUS
    <3> QED
      BY <3>1, QuotientAndRest
  <2>6. PICK n \in Int, s \in 0..d - 1 : s = (b - half) % d /\ b - half = d * n + s
    <3>1. b - half \in Int
      OBVIOUS
    <3> QED
      BY <3>1, QuotientAndRest
  <2>7. a - b = 0 - d * (n - m)
    <3>1. PICK e \in Int, g \in Int : e = d * m /\ g = d * n
      OBVIOUS
    <3>2. PICK t \in Int : t = g - e
      OBVIOUS
    <3>5. d * (n - m) = t
      BY <3>1, <3>2
    <3>3. a - half = e + r /\ b - half = g + r
      BY <2>4, <2>5, <2>6, <3>1
    <3>4. a - b = 0 - t
      BY <3>2, <3>3
    <3> QED
      BY <3>4, <3>5
  <2>8. (0 - d * (n - m)) % d = 0 % d
    <3>1. PICK j \in Int, o \in Int : j = n - m /\ o = 0
      OBVIOUS
    <3>2. (o - d * j) % d = o % d
      BY TurnsAway
    <3> QED
      BY <3>1, <3>2
  <2>9. 0 % d = 0
    OBVIOUS
  <2> QED
    BY <2>1, <2>2, <2>4, <2>7, <2>8, <2>9
<1>9. /\ h \in Int /\ k \in Int
      /\ (w.cols - 2 * margin) * Cell(w.zoom) = 2 * h
      /\ 2 * (w.rows - 2 * margin) * Cell(w.zoom) = 4 * k
      /\ \A p \in spots : /\ 2 * h >= World \/ (p[1] - (x - h)) % World <= 2 * h
                          /\ y - 2 * k <= p[2] /\ p[2] <= y + 2 * k
  <2>1. 0 \in Int /\ \A p \in spots : p[1] \in Int /\ p[2] \in Int
    BY <1>2
  <2> QED
    BY <1>7, <2>1, ShowsIs
<1>10. 2 * h < cover.width \/ 4 * k < south - north
  <2>1. ~Spans(z, v.cols - 2 * margin, v.rows - 2 * margin, cover.width, south - north)
    BY <1>1, <1>6, <1>8, DeepestIs
  <2>2. ~(2 * h >= cover.width /\ 4 * k >= south - north)
    BY <1>7, <1>9, <2>1 DEF Spans
  <2> HIDE DEF h, k
  <2> QED
    BY <1>2, <1>3, <1>4, <1>9, <2>2
<1>11. h \in Nat
  <2>1. Dot(w.zoom) \in Nat \ {0} /\ w.cols \in Int
    <3>1. w.zoom \in ViewZooms /\ w.cols \in 1..MaxCells /\ MaxCells \in Nat
      BY <1>7, ViewAssumption DEF Looking
    <3>2. Dot(w.zoom) \in Nat \ {0}
      BY <3>1, WorldIsWhole
    <3> QED
      BY <3>1, <3>2
  <2>2. w.cols - 2 * margin \in Nat
    BY <1>7, <2>1
  <2> QED
    BY <2>1, <2>2, TimesIsMore
<1> HIDE DEF h, k
<1>12. CASE 4 * k < south - north
  <2>1. y - 2 * k <= north /\ south <= y + 2 * k
    BY <1>5, <1>9
  <2>2. y \in Int /\ north \in Int /\ south \in Int
    BY <1>1, <1>2, <1>3 DEF Looking
  <2> QED
    BY <1>9, <1>12, <2>1, <2>2
<1>13. CASE 2 * h < cover.width
  <2>1. 2 * h \in 0..World - 1 /\ ~(2 * h >= World)
    BY <1>2, <1>4, <1>11, <1>13
  <2>2. PICK low \in Int : low = x - h - World \div 2
    BY <1>2, <1>9
  <2>3. ASSUME NEW a \in Arcs(spots, {}) PROVE (a.start - low) % World <= 2 * h
    <3>1. PICK p \in spots : a.start = (p[1] - World \div 2) % World
      BY PlacesAre
    <3>2. (p[1] - (x - h)) % World <= 2 * h
      BY <1>9, <2>1
    <3>3. PICK d \in Nat \ {0}, b \in Int, half \in Int, c \in Int :
             d = World /\ b = p[1] /\ half = World \div 2 /\ c = x - h
      BY <1>2, <1>9
    <3>4. PICK m \in Int, r \in 0..d - 1 : r = (b - half) % d /\ b - half = d * m + r
      <4>1. b - half \in Int
        OBVIOUS
      <4> QED
        BY <4>1, QuotientAndRest
    <3>5. r - (c - half) = (b - c) - d * m
      <4>1. PICK e \in Int : e = d * m
        OBVIOUS
      <4>2. b - half = e + r
        BY <3>4, <4>1
      <4>3. r - (c - half) = (b - c) - e
        BY <4>2
      <4> QED
        BY <4>1, <4>3
    <3>6. ((b - c) - d * m) % d = (b - c) % d
      <4>1. b - c \in Int
        OBVIOUS
      <4> QED
        BY <4>1, TurnsAway
    <3> QED
      BY <2>2, <3>1, <3>2, <3>3, <3>4, <3>5, <3>6
  <2>4. 2 * h >= cover.width
    BY <1>4, <2>1, <2>3
  <2> QED
    BY <1>2, <1>4, <1>11, <1>13, <2>4
<1> QED
  BY <1>10, <1>12, <1>13

-----------------------------------------------------------------------------
(* The view is as it was asked, whatever calls move it.                    *)

\* A view frames the places of a fit, where it is of places alone.
Frames(v, fit) ==
    fit.spots # {} /\ fit.boxes = {} =>
       /\ fit.spots \in SUBSET Spots /\ fit.margin \in Nat
       /\ \E u \in Looking : /\ u.cols > 2 * fit.margin /\ u.rows > 2 * fit.margin
                             /\ v = Framed(u, fit.spots, {}, fit.margin)

ViewInv ==
    /\ ViewTypeOK
    /\ sized => view \in Looking
    /\ fitted.spots # {} => sized
    /\ bound = NoBound => Frames(view, fitted)
    /\ ViewKeepsTheBound

\* A bound of the host's or none holds a view that is a view.
LEMMA HeldIs ==
    ASSUME NEW v \in Looking, NEW b \in Bounds \union {NoBound}
    PROVE  /\ Bounded(v, b) \in Looking /\ Valid(Bounded(v, b)) /\ Bounded(v, b).x \in Int
           /\ b # NoBound => Keeps(Bounded(v, b), b)
           /\ b = NoBound => Bounded(v, b) = v
<1>1. CASE b = NoBound
  <2>1. Bounded(v, b) = v
    BY <1>1 DEF Bounded
  <2> QED
    BY <1>1, <2>1 DEF Looking, Valid
<1>2. CASE b # NoBound
  <2>1. Bounded(v, b) \in Looking /\ Keeps(Bounded(v, b), b)
    BY <1>2, BoundedIs
  <2> QED
    BY <1>2, <2>1 DEF Looking, Valid
<1> QED
  BY <1>1, <1>2

LEMMA NoFrames == ASSUME NEW v PROVE Frames(v, NoFit) /\ NoFit.spots = {}
  BY DEF Frames, NoFit

LEMMA ViewStarts == ASSUME ViewInit PROVE ViewInv
<1>1. ViewTypeOK
  <2>1. {shutView, sized, placed} \subseteq BOOLEAN
    BY Zenon DEF ViewInit
  <2> QED
    BY <2>1, ViewAssumption DEF ViewInit, ViewTypeOK
<1>2. ~sized /\ fitted = NoFit
  BY DEF ViewInit
<1> QED
  BY <1>1, <1>2, NoFrames DEF ViewInv, ViewKeepsTheBound

LEMMA MoveKeeps ==
    ASSUME ViewInv, NEW v \in Looking, NEW fit, Move(v, fit), Frames(v, fit)
    PROVE  ViewInv'
<1> DEFINE kept == Bounded(v, bound)
<1>1. /\ moves < MaxMoves /\ moves' = moves + 1 /\ sized /\ ~shutView
      /\ shutView' = shutView /\ sized' = sized /\ bound' = bound
  BY DEF Move, ViewCall
<1>2. /\ {shutView, sized, placed} \subseteq BOOLEAN /\ bound \in Bounds \union {NoBound}
      /\ changedView \in {0, 1} /\ moves \in 0..MaxMoves
  BY Zenon DEF ViewInv, ViewTypeOK
<1>3. /\ kept \in Looking /\ Valid(kept) /\ kept.x \in Int
      /\ bound # NoBound => Keeps(kept, bound)
      /\ bound = NoBound => kept = v
  BY <1>2, HeldIs
<1>4. /\ view' = kept /\ placed' = TRUE /\ fitted' = fit
      /\ changedView' = IF kept # view THEN 1 - changedView ELSE changedView
  BY <1>3 DEF Move
<1> HIDE DEF kept
<1>5. moves' \in 0..MaxMoves
  BY <1>1, <1>2, ViewAssumption
<1>6. changedView' \in {0, 1}
  BY <1>2, <1>4
<1>10. {shutView, sized, placed}' \subseteq BOOLEAN
  BY <1>1, <1>2, <1>4, Zenon
<1>7. ViewTypeOK'
  BY <1>1, <1>2, <1>3, <1>4, <1>5, <1>6, <1>10 DEF ViewTypeOK, Valid
<1>8. (bound = NoBound => Frames(view, fitted))'
  BY <1>1, <1>3, <1>4 DEF Frames
<1>9. ViewKeepsTheBound'
  BY <1>1, <1>3, <1>4 DEF ViewKeepsTheBound, Keeps, West, Top, Across, Down, Holds
<1> QED
  BY <1>1, <1>3, <1>4, <1>7, <1>8, <1>9 DEF ViewInv

LEMMA RecentreKeeps == ASSUME ViewInv, NEW spot \in Spots, Recentre(spot) PROVE ViewInv'
<1>1. view \in Looking
  BY DEF ViewInv, Recentre, Move
<1>2. spot[1] \in Int /\ spot[2] \in 0..World
  BY WorldIsWhole, ViewAssumption
<1>3. [view EXCEPT !.x = spot[1], !.y = spot[2]] \in Looking
  BY <1>1, <1>2 DEF Looking
<1> QED
  BY <1>3, MoveKeeps, NoFrames DEF Recentre

LEMMA ZoomKeeps == ASSUME ViewInv, NEW to \in ViewZooms, Zoom(to) PROVE ViewInv'
<1>1. view \in Looking
  BY DEF ViewInv, Zoom, Move
<1>2. [view EXCEPT !.zoom = to] \in Looking
  BY <1>1 DEF Looking
<1> QED
  BY <1>2, MoveKeeps, NoFrames DEF Zoom

LEMMA ZoomByKeeps == ASSUME ViewInv, NEW levels \in Int, ZoomBy(levels) PROVE ViewInv'
<1> DEFINE z == Highest(MinViewZoom, Lowest(MaxViewZoom, view.zoom + levels))
<1>1. view \in Looking
  BY DEF ViewInv, ZoomBy, Move
<1>2. z \in ViewZooms
  <2>1. view.zoom \in Int
    BY <1>1, ViewAssumption DEF Looking, ViewZooms
  <2> QED
    BY <2>1, ViewAssumption DEF ViewZooms, Highest, Lowest
<1>3. [view EXCEPT !.zoom = z] \in Looking
  <2> HIDE DEF z
  <2> QED
    BY <1>1, <1>2 DEF Looking
<1> QED
  BY <1>3, MoveKeeps, NoFrames DEF ZoomBy

LEMMA PanKeeps == ASSUME ViewInv, NEW cols \in Int, NEW rows \in Int, PanCells(cols, rows) PROVE ViewInv'
<1> DEFINE x == Normalize(view.x + cols * Cell(view.zoom))
           y == Highest(0, Lowest(World, view.y + 2 * rows * Cell(view.zoom)))
<1>1. view \in Looking
  BY DEF ViewInv, PanCells, Move
<1>2. PICK c \in Int : c = Cell(view.zoom)
  <2>1. Dot(view.zoom) \in Nat
    BY <1>1, SpansAre
  <2> QED
    BY <2>1 DEF Cell
<1>3. view.x \in Int /\ view.y \in Int /\ World \in Nat
  BY <1>1, WorldIsWhole DEF Looking
<1>4. view.x + cols * c \in Int /\ view.y + 2 * rows * c \in Int
  BY <1>3
<1>5. x \in Int
  BY <1>2, <1>3, <1>4 DEF Normalize
<1>6. y \in 0..World
  <2>1. PICK a \in Int : a = view.y + 2 * rows * Cell(view.zoom)
    BY <1>2, <1>4
  <2> QED
    BY <1>3, <2>1 DEF Highest, Lowest
<1>7. [view EXCEPT !.x = x, !.y = y] \in Looking
  <2> HIDE DEF x, y
  <2> QED
    BY <1>1, <1>5, <1>6 DEF Looking
<1> QED
  BY <1>7, MoveKeeps, NoFrames DEF PanCells

LEMMA FitWorldKeeps == ASSUME ViewInv, FitWorld PROVE ViewInv'
<1> DEFINE whole == WholeWorld(view.cols, view.rows)
<1>1. view \in Looking
  BY DEF ViewInv, FitWorld, Move
<1>2. whole \in Looking
  BY <1>1, WholeWorldIs DEF Looking
<1>3. [view EXCEPT !.x = whole.x, !.y = whole.y, !.zoom = whole.zoom] \in Looking
  <2> HIDE DEF whole
  <2> QED
    BY <1>1, <1>2 DEF Looking
<1> QED
  BY <1>3, MoveKeeps, NoFrames DEF FitWorld

LEMMA FitToKeeps ==
    ASSUME ViewInv, NEW spots \in SUBSET Spots, NEW boxes \in SUBSET Boxes, NEW margin \in {0, 1},
           FitTo(spots, boxes, margin)
    PROVE  ViewInv'
<1> DEFINE fit == [spots |-> spots, boxes |-> boxes, margin |-> margin]
           v == Framed(view, spots, boxes, margin)
<1>1. view \in Looking
  BY DEF ViewInv, FitTo, Move
<1>2. /\ spots # {} \/ boxes # {}
      /\ view.cols > 2 * margin /\ view.rows > 2 * margin /\ Move(v, fit) /\ margin \in Nat
  BY DEF FitTo
<1>3. v \in Looking
  BY <1>1, <1>2, FramedIs
<1>4. Frames(v, fit)
  BY <1>1, <1>2 DEF Frames
<1> HIDE DEF v, fit
<1> QED
  BY <1>2, <1>3, <1>4, MoveKeeps

LEMMA SetBoundKeeps == ASSUME ViewInv, NEW b \in Bounds \union {NoBound}, SetBound(b) PROVE ViewInv'
<1>1. /\ moves < MaxMoves /\ moves' = moves + 1
      /\ shutView' = shutView /\ sized' = sized /\ placed' = placed
      /\ bound' = b /\ fitted' = NoFit /\ changedView' = 1 - changedView
      /\ view' = IF sized THEN Bounded(view, b) ELSE view
  BY DEF SetBound, ViewCall
<1>2. /\ {shutView, sized, placed} \subseteq BOOLEAN
      /\ changedView \in {0, 1} /\ moves \in 0..MaxMoves
      /\ (sized => view \in Looking)
  BY Zenon DEF ViewInv, ViewTypeOK
<1>3. sized => /\ view' \in Looking /\ Valid(view') /\ view'.x \in Int
               /\ b # NoBound => Keeps(view', b)
  BY <1>1, <1>2, HeldIs
<1>4. moves' \in 0..MaxMoves /\ changedView' \in {0, 1}
  BY <1>1, <1>2, ViewAssumption
<1>7. {shutView, sized, placed}' \subseteq BOOLEAN
  BY <1>1, <1>2, Zenon
<1>5. ViewTypeOK'
  BY <1>1, <1>2, <1>3, <1>4, <1>7 DEF ViewTypeOK, Valid
<1>6. ViewKeepsTheBound'
  BY <1>1, <1>3 DEF ViewKeepsTheBound, Keeps, West, Top, Across, Down, Holds
<1> QED
  BY <1>1, <1>3, <1>5, <1>6, NoFrames DEF ViewInv, Frames

LEMMA ResizeKeeps == ASSUME ViewInv, NEW given, Resize(given) PROVE ViewInv'
<1>1. /\ moves < MaxMoves /\ moves' = moves + 1 /\ given[1] \in 1..MaxCells /\ given[2] \in 1..MaxCells
      /\ view' = ViewAt(given[1], given[2]) /\ sized' = TRUE /\ fitted' = NoFit
      /\ shutView' = shutView /\ placed' = placed /\ bound' = bound /\ changedView' = changedView
  BY DEF Resize, ViewCall
<1>2. placed \in BOOLEAN /\ shutView \in BOOLEAN /\ bound \in Bounds \union {NoBound}
      /\ changedView \in {0, 1} /\ moves \in 0..MaxMoves
      /\ (sized => view \in Looking)
  BY DEF ViewInv, ViewTypeOK
<1>3. PICK v \in Looking : view' = Bounded(v, bound)
  <2>1. CASE /\ sized /\ placed
             /\ Valid(Bounded([view EXCEPT !.cols = given[1], !.rows = given[2]], bound))
    <3>1. [view EXCEPT !.cols = given[1], !.rows = given[2]] \in Looking
      BY <1>1, <1>2, <2>1 DEF Looking
    <3> QED
      BY <1>1, <2>1, <3>1 DEF ViewAt
  <2>2. CASE ~(/\ sized /\ placed
               /\ Valid(Bounded([view EXCEPT !.cols = given[1], !.rows = given[2]], bound)))
    <3>1. WholeWorld(given[1], given[2]) \in Looking
      BY <1>1, WholeWorldIs
    <3> QED
      BY <1>1, <2>2, <3>1 DEF ViewAt
  <2> QED
    BY <2>1, <2>2
<1>4. /\ view' \in Looking /\ Valid(view') /\ view'.x \in Int
      /\ bound # NoBound => Keeps(view', bound)
  BY <1>2, <1>3, HeldIs
<1>5. moves' \in 0..MaxMoves
  BY <1>1, <1>2, ViewAssumption
<1>6. ViewTypeOK'
  BY <1>1, <1>2, <1>4, <1>5 DEF ViewTypeOK, Valid
<1>7. ViewKeepsTheBound'
  BY <1>1, <1>4 DEF ViewKeepsTheBound, Keeps, West, Top, Across, Down, Holds
<1> QED
  BY <1>1, <1>4, <1>6, <1>7, NoFrames DEF ViewInv, Frames

LEMMA CloseViewKeeps == ASSUME ViewInv, CloseView PROVE ViewInv'
<1>1. /\ moves < MaxMoves /\ moves' = moves + 1 /\ shutView' = TRUE
      /\ sized' = sized /\ placed' = placed /\ view' = view /\ bound' = bound
      /\ changedView' = changedView /\ fitted' = fitted
  BY DEF CloseView, ViewCall
<1>2. moves' \in 0..MaxMoves
  BY <1>1, ViewAssumption DEF ViewInv, ViewTypeOK
<1>3. ViewTypeOK'
  BY <1>1, <1>2 DEF ViewInv, ViewTypeOK, Valid
<1>4. ViewKeepsTheBound'
  BY <1>1 DEF ViewInv, ViewKeepsTheBound, West, Top, Across, Down, Holds, Dot, Cell
<1> QED
  BY <1>1, <1>3, <1>4 DEF ViewInv, Frames

LEMMA ViewStays == ASSUME ViewInv, UNCHANGED viewVars PROVE ViewInv'
  BY DEF ViewInv, ViewTypeOK, Valid, ViewKeepsTheBound, Frames, West, Top, Across, Down, Holds, Dot, Cell, viewVars

\* What was fitted to is shown, and no closer zoom shows it.
LEMMA FitIsKept == ASSUME ViewInv PROVE FittedHoldsPlaces
<1> SUFFICES ASSUME fitted.spots # {}, fitted.boxes = {}, bound = NoBound, view.zoom > MinViewZoom
             PROVE  /\ ShowsSpots(view, fitted)
                    /\ (\E p, q \in fitted.spots : (p[1] - q[1]) % World # 0 \/ p[2] # q[2]) =>
                         \A z \in view.zoom + 1..MaxViewZoom, x \in 0..World - 1, y \in 0..World :
                           ~ShowsSpots([view EXCEPT !.zoom = z, !.x = x, !.y = y], fitted)
  BY Zenon DEF FittedHoldsPlaces
<1>1. fitted.spots \in SUBSET Spots /\ fitted.margin \in Nat
  BY DEF ViewInv, Frames
<1>2. PICK u \in Looking : /\ u.cols > 2 * fitted.margin /\ u.rows > 2 * fitted.margin
                           /\ view = Framed(u, fitted.spots, {}, fitted.margin)
  BY DEF ViewInv, Frames
<1>3. ShowsSpots(view, fitted)
  <2>1. \A p \in fitted.spots : Shows(view, p[1], 0, p[2], p[2], fitted.margin)
    BY <1>1, <1>2, FitHolds
  <2> QED
    BY <2>1 DEF ShowsSpots
<1>4. ASSUME \E p, q \in fitted.spots : (p[1] - q[1]) % World # 0 \/ p[2] # q[2],
             NEW z \in view.zoom + 1..MaxViewZoom, NEW x \in 0..World - 1, NEW y \in 0..World,
             ShowsSpots([view EXCEPT !.zoom = z, !.x = x, !.y = y], fitted)
      PROVE  FALSE
  <2>1. PICK w : w = [view EXCEPT !.zoom = z, !.x = x, !.y = y]
    OBVIOUS
  <2>2. \A p \in fitted.spots : Shows(w, p[1], 0, p[2], p[2], fitted.margin)
    BY <1>4, <2>1 DEF ShowsSpots
  <2>3. w = [Framed(u, fitted.spots, {}, fitted.margin) EXCEPT !.zoom = z, !.x = x, !.y = y]
    BY <1>2, <2>1
  <2>4. z \in Framed(u, fitted.spots, {}, fitted.margin).zoom + 1..MaxViewZoom
    BY <1>2, <1>4
  <2> QED
    BY <1>1, <1>2, <1>4, <2>2, <2>3, <2>4, FitIsTight
<1> QED
  BY <1>3, <1>4

(* Under every call of the host, in any order and at any size: a bound     *)
(* set holds the view, every dot of the view is drawn from one placed tile *)
(* of each row, and places fitted to are shown whole at the deepest zoom   *)
(* that can show them (view.go, map.go, internal/project).                 *)
THEOREM ViewAsAsked == ViewSpec => []ViewIsAsAsked
<1>1. ViewInit => ViewInv
  BY ViewStarts
<1>2. ViewInv /\ [ViewNext]_viewVars => ViewInv'
  <2> SUFFICES ASSUME ViewInv, [ViewNext]_viewVars PROVE ViewInv'
    OBVIOUS
  <2>1. ASSUME NEW spot \in Spots, Recentre(spot) PROVE ViewInv'
    BY <2>1, RecentreKeeps
  <2>2. ASSUME NEW z \in ViewZooms, Zoom(z) PROVE ViewInv'
    BY <2>2, ZoomKeeps
  <2>3. ASSUME NEW by \in {-1, 1}, ZoomBy(by) PROVE ViewInv'
    <3>1. by \in Int
      OBVIOUS
    <3> QED
      BY <2>3, <3>1, ZoomByKeeps
  <2>4. ASSUME NEW by \in {-1, 1}, PanCells(by, 0) \/ PanCells(0, by) PROVE ViewInv'
    <3>1. by \in Int /\ 0 \in Int
      OBVIOUS
    <3> QED
      BY <2>4, <3>1, PanKeeps
  <2>5. CASE FitWorld
    BY <2>5, FitWorldKeeps
  <2>6. ASSUME NEW spots \in SUBSET Spots, NEW boxes \in SUBSET Boxes, NEW margin \in {0, 1},
               FitTo(spots, boxes, margin)
        PROVE  ViewInv'
    BY <2>6, FitToKeeps
  <2>7. ASSUME NEW b \in Bounds \union {NoBound}, SetBound(b) PROVE ViewInv'
    BY <2>7, SetBoundKeeps
  <2>8. ASSUME NEW given \in ScreenSizes, Resize(given) PROVE ViewInv'
    BY <2>8, ResizeKeeps
  <2>9. CASE CloseView
    BY <2>9, CloseViewKeeps
  <2>10. CASE UNCHANGED viewVars
    BY <2>10, ViewStays
  <2> QED
    BY <2>1, <2>2, <2>3, <2>4, <2>5, <2>6, <2>7, <2>8, <2>9, <2>10 DEF ViewNext
<1>3. ViewInv => ViewIsAsAsked
  <2> SUFFICES ASSUME ViewInv PROVE ViewIsAsAsked
    OBVIOUS
  <2>1. ViewKeepsTheBound /\ (sized => view \in Looking)
    BY DEF ViewInv
  <2>2. TilesCoverTheView
    BY <2>1, ViewIsCovered
  <2>3. FittedHoldsPlaces
    BY FitIsKept
  <2> QED
    BY <2>1, <2>2, <2>3 DEF ViewIsAsAsked
<1> QED
  BY <1>1, <1>2, <1>3, PTL DEF ViewSpec
=============================================================================

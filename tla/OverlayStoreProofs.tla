-------------------------- MODULE OverlayStoreProofs --------------------------
(***************************************************************************)
(* The overlay store, for any overlays, workers and buckets.               *)
(*                                                                         *)
(* What a host may write over: a version it was told is free is read by    *)
(* nothing (HostMayWrite), InUse is exact (InUseCounts), and so the memory *)
(* comes back with the last reader and no sooner (MemoryComesBack). The    *)
(* invariant counts the holds of each version and of the retired ones of   *)
(* each overlay (IInv).                                                    *)
(*                                                                         *)
(* What is kept of an overlay is of its version, and what stands in of one *)
(* older, whenever the job that made it lands (KeptStaysCurrent, KeptInv); *)
(* so no frame shows an older version than the frame before it             *)
(* (FramesGoForward, FramesInOrder).                                       *)
(*                                                                         *)
(* The bytes and vertices the caps are held by are sums over what is there *)
(* that each operation updates by hand, and settling stops only where the  *)
(* rest fits or is need alone (ShapesAreCounted).                          *)
(*                                                                         *)
(* And a shape too large for the cache, which is drawn by its index: the   *)
(* index leaves out no step that is seen (CullingLosesNothing).            *)
(***************************************************************************)
EXTENDS OverlayStore, ShapeGeometry, FoldTheorems, SequenceTheorems, WellFoundedInduction

\* The readers counted are the jobs that hold a version; a version set is not
\* retired, and every other one is; what is free is retired; a job that has
\* not begun holds nothing.
IInv ==
    /\ HoldTypes
    /\ freed \subseteq retired
    /\ \A id \in Ids : current[id] # 0 =>
          made[current[id]].id = id /\ current[id] \notin retired
    /\ \A v \in Versions : v \in retired \/ current[made[v].id] = v
    /\ \A w \in Workers :
          /\ job[w].stage \in {"idle", "taken"} => job[w].of = 0
          /\ job[w].stage # "idle" => job[w].key \in Ids \X Buckets
    /\ \A v \in Versions : readers[v] = Cardinality(Readers(v))
    /\ InUseIsExact
    /\ NothingReadIsFree

\* Inside the map a Render has a bucket, and what it misses is overlays.
Asked == missing \subseteq Ids /\ (host # "out" => bucket \in Buckets)

\* What the holds of the store are made of, and what only their steps change.
Holds == <<made, readers, retired, retiring, current, freed>>

-----------------------------------------------------------------------------
\* Sets of workers are finite, so adding one, taking one out and putting two
\* together that share none count as expected.
LEMMA WorkersFinite ==
    ASSUME NEW S, S \subseteq Workers
    PROVE  IsFiniteSet(S) /\ Cardinality(S) \in Nat
BY FS_Subset, FS_CardinalityType, OverlayAssumption DEF OverlayAssumption

LEMMA CountApart ==
    ASSUME NEW S, NEW T, S \subseteq Workers, T \subseteq Workers, S \cap T = {}
    PROVE  Cardinality(S \cup T) = Cardinality(S) + Cardinality(T)
<1>1. IsFiniteSet(S) /\ IsFiniteSet(T)
  BY WorkersFinite
<1>2. Cardinality(S) \in Nat /\ Cardinality(T) \in Nat
  BY WorkersFinite
<1>3. Cardinality(S \cup T) = Cardinality(S) + Cardinality(T) - Cardinality(S \cap T)
  BY <1>1, FS_Union
<1>4. Cardinality(S \cap T) = 0
  BY FS_EmptySet
<1> QED
  BY <1>2, <1>3, <1>4

LEMMA CountMore ==
    ASSUME NEW S, S \subseteq Workers, NEW w \in Workers, w \notin S
    PROVE  Cardinality(S \cup {w}) = Cardinality(S) + 1
BY WorkersFinite, FS_AddElement

LEMMA CountLess ==
    ASSUME NEW S, S \subseteq Workers, NEW w \in S
    PROVE  Cardinality(S \ {w}) = Cardinality(S) - 1
BY WorkersFinite, FS_RemoveElement

LEMMA CountNone ==
    ASSUME NEW S, S \subseteq Workers, Cardinality(S) = 0
    PROVE  S = {}
BY WorkersFinite, FS_EmptySet

\* A job keeps its type and its other fields when one is changed.
LEMMA JobStage ==
    ASSUME NEW j \in Jobs, NEW s \in {"idle", "taken", "reading", "read"}
    PROVE  /\ [j EXCEPT !.stage = s] \in Jobs
           /\ [j EXCEPT !.stage = s].stage = s
           /\ [j EXCEPT !.stage = s].key = j.key
           /\ [j EXCEPT !.stage = s].of = j.of
<1> DEFINE K == (Ids \X Buckets) \cup {<<>>}
<1> HIDE DEF K
<1>1. Jobs = [stage : {"idle", "taken", "reading", "read"}, key : K,
              of : Versions \cup {0}, off : BOOLEAN]
  BY DEF Jobs, K
<1> QED
  BY <1>1

LEMMA JobOff ==
    ASSUME NEW j \in Jobs, NEW x \in BOOLEAN
    PROVE  /\ [j EXCEPT !.off = x] \in Jobs
           /\ [j EXCEPT !.off = x].stage = j.stage
           /\ [j EXCEPT !.off = x].key = j.key
           /\ [j EXCEPT !.off = x].of = j.of
<1> DEFINE K == (Ids \X Buckets) \cup {<<>>}
<1> HIDE DEF K
<1>1. Jobs = [stage : {"idle", "taken", "reading", "read"}, key : K,
              of : Versions \cup {0}, off : BOOLEAN]
  BY DEF Jobs, K
<1> QED
  BY <1>1

LEMMA JobBegins ==
    ASSUME NEW j \in Jobs, NEW v \in Versions
    PROVE  /\ [j EXCEPT !.stage = "reading", !.of = v] \in Jobs
           /\ [j EXCEPT !.stage = "reading", !.of = v].stage = "reading"
           /\ [j EXCEPT !.stage = "reading", !.of = v].key = j.key
           /\ [j EXCEPT !.stage = "reading", !.of = v].of = v
<1> DEFINE K == (Ids \X Buckets) \cup {<<>>}
<1> HIDE DEF K
<1>1. Jobs = [stage : {"idle", "taken", "reading", "read"}, key : K,
              of : Versions \cup {0}, off : BOOLEAN]
  BY DEF Jobs, K
<1> QED
  BY <1>1

LEMMA MoveStage ==
    ASSUME job \in [Workers -> Jobs], NEW w \in Workers,
           NEW s \in {"idle", "taken", "reading", "read"},
           job' = [job EXCEPT ![w].stage = s]
    PROVE  /\ job' \in [Workers -> Jobs]
           /\ \A x \in Workers : /\ job'[x].of = job[x].of /\ job'[x].key = job[x].key
                                 /\ job'[x].stage = IF x = w THEN s ELSE job[x].stage
<1>1. job' = [job EXCEPT ![w] = [job[w] EXCEPT !.stage = s]]
  OBVIOUS
<1>2. /\ [job[w] EXCEPT !.stage = s] \in Jobs /\ [job[w] EXCEPT !.stage = s].stage = s
      /\ [job[w] EXCEPT !.stage = s].key = job[w].key
      /\ [job[w] EXCEPT !.stage = s].of = job[w].of
  <2>1. job[w] \in Jobs
    OBVIOUS
  <2> QED
    BY <2>1, JobStage, Zenon
<1> QED
  BY <1>1, <1>2

\* Versions are numbered from one, in the order they were handed in.
LEMMA VersionNumbers ==
    ASSUME HoldTypes
    PROVE  /\ Versions = 1..Len(made) /\ Len(made) \in Nat /\ 0 \notin Versions
           /\ \A v \in Versions : made[v].id \in Ids
<1> DEFINE Entries == [id : Ids, offer : Offers]
<1>1. made \in Seq(Entries) /\ \A e \in Entries : e.id \in Ids
  BY DEF HoldTypes
<1> HIDE DEF Entries
<1>2. Versions = 1..Len(made) /\ Len(made) \in Nat
  BY <1>1 DEF Versions
<1>3. \A v \in Versions : made[v] \in Entries
  BY <1>1, <1>2
<1> QED
  BY <1>1, <1>2, <1>3

-----------------------------------------------------------------------------
\* A step that neither begins nor ends a hold leaves every part as it was.
LEMMA HoldsUntouched ==
    ASSUME IInv, UNCHANGED Holds,
           waiting' \subseteq Ids \X Buckets,
           job' \in [Workers -> Jobs],
           \A w \in Workers :
              /\ job'[w].of = job[w].of
              /\ job'[w].stage \in {"idle", "taken"} => job[w].stage \in {"idle", "taken"}
              /\ job'[w].stage # "idle" => job'[w].key \in Ids \X Buckets
    PROVE  IInv'
<1>1. Versions' = Versions /\ Jobs' = Jobs /\ \A id : VersionsOf(id)' = VersionsOf(id)
  BY DEF Holds, Versions, Jobs, VersionsOf
<1>2. HoldTypes'
  BY <1>1 DEF IInv, HoldTypes, Holds
<1>3. \A v : Readers(v)' = Readers(v)
  BY DEF Readers
<1>4. \A id : OldReaders(id)' = OldReaders(id)
  BY <1>1 DEF OldReaders, Holds
<1> QED
  BY <1>1, <1>2, <1>3, <1>4 DEF IInv, Holds, InUseIsExact, NothingReadIsFree

\* A version that is retired takes its readers with it into the count of its
\* id, and is free at once only when it has none.
LEMMA Retires ==
    ASSUME IInv, NEW id \in Ids, current[id] # 0, retireLocked(id), job' = job,
           \A v \in Versions : v \in Versions' /\ made'[v] = made[v]
    PROVE  /\ retired' = retired \cup {current[id]} /\ retired' \subseteq Versions
           /\ freed' \subseteq retired' /\ retiring' \in [Ids -> Nat]
           /\ InUseIsExact' /\ NothingReadIsFree'
<1> DEFINE v == current[id]
<1>1. /\ v \in Versions /\ v \notin retired /\ made[v].id = id
      /\ readers[v] = Cardinality(Readers(v)) /\ readers[v] \in Nat
  BY DEF IInv, HoldTypes
<1>2. \A i : OldReaders(i) \subseteq Workers /\ Readers(v) \subseteq Workers
  BY DEF OldReaders, Readers
<1>3. retired' = retired \cup {v} /\ retired' \subseteq Versions
  BY <1>1 DEF retireLocked, IInv, HoldTypes
<1>4. \A i \in Ids : VersionsOf(i) = {n \in VersionsOf(i)' : n \in Versions}
  BY DEF VersionsOf, Versions
<1>5. OldReaders(id)' = OldReaders(id) \cup Readers(v)
  BY <1>1, <1>3, <1>4 DEF OldReaders, Readers, VersionsOf, Versions
<1>6. \A i \in Ids \ {id} : OldReaders(i)' = OldReaders(i)
  BY <1>1, <1>3, <1>4 DEF OldReaders, VersionsOf, Versions, IInv, HoldTypes
<1>7. OldReaders(id) \cap Readers(v) = {}
  BY <1>1 DEF OldReaders, Readers
<1>8. Cardinality(OldReaders(id)') = Cardinality(OldReaders(id)) + readers[v]
  BY <1>1, <1>2, <1>5, <1>7, CountApart
<1>9. CASE readers[v] = 0
  <2>1. freed' = freed \cup {v} /\ retiring' = retiring
    BY <1>9 DEF retireLocked
  <2>2. Readers(v) = {}
    BY <1>1, <1>2, <1>9, CountNone
  <2>3. InUseIsExact'
    <3>1. OldReaders(id)' = OldReaders(id)
      BY <1>5, <2>2
    <3> QED
      BY <1>6, <2>1, <3>1 DEF IInv, InUseIsExact
  <2>4. NothingReadIsFree'
    BY <2>1, <2>2 DEF IInv, NothingReadIsFree, Readers
  <2> QED
    BY <1>3, <2>1, <2>3, <2>4 DEF IInv, HoldTypes
<1>10. CASE readers[v] # 0
  <2>1. freed' = freed /\ retiring' = [retiring EXCEPT ![id] = @ + readers[v]]
    BY <1>10 DEF retireLocked
  <2>2. retiring' \in [Ids -> Nat]
    BY <1>1, <2>1 DEF IInv, HoldTypes
  <2>3. InUseIsExact'
    BY <1>6, <1>8, <2>1 DEF IInv, InUseIsExact, HoldTypes
  <2>4. NothingReadIsFree'
    BY <2>1 DEF IInv, NothingReadIsFree
  <2> QED
    BY <1>3, <2>1, <2>2, <2>3, <2>4 DEF IInv
<1> QED
  BY <1>9, <1>10

-----------------------------------------------------------------------------
\* The host's calls, one by one.
LEMMA HandInKeeps ==
    ASSUME IInv, NEW id \in Ids, NEW o \in Offers, HandIn(id, o)
    PROVE  IInv'
<1> DEFINE n == Len(made) + 1
           Entry == [id |-> id, offer |-> o]
           Entries == [id : Ids, offer : Offers]
<1>1. /\ Versions = 1..Len(made) /\ Len(made) \in Nat
      /\ 0 \notin Versions /\ n \notin Versions /\ n # 0
      /\ \A v \in Versions : made[v].id \in Ids
  BY VersionNumbers DEF IInv
<1>2. made' = Append(made, Entry) /\ made \in Seq(Entries) /\ Entry \in Entries
  BY DEF HandIn, IInv, HoldTypes
<1>3. /\ made' \in Seq(Entries) /\ Versions' = Versions \cup {n}
      /\ made'[n] = Entry /\ \A v \in Versions : made'[v] = made[v]
  <2> HIDE DEF Entry, Entries
  <2> QED
    BY <1>1, <1>2 DEF Versions
<1>4. /\ job' = job /\ waiting' = waiting /\ current' = [current EXCEPT ![id] = n]
      /\ readers' = Append(readers, 0)
  BY DEF HandIn
<1>5. readers \in [1..Len(made) -> Nat]
  BY <1>1 DEF IInv, HoldTypes
<1>6. /\ readers' \in [Versions' -> Nat] /\ readers'[n] = 0
      /\ \A v \in Versions : readers'[v] = readers[v]
  <2>1. readers \in Seq(Nat) /\ Len(readers) = Len(made)
    BY <1>1, <1>5
  <2>2. readers' \in Seq(Nat) /\ Len(readers') = Len(made) + 1
    BY <1>4, <2>1
  <2>3. \A v \in 1..(Len(made) + 1) : readers'[v] = IF v = n THEN 0 ELSE readers[v]
    BY <1>1, <1>4, <2>1
  <2>4. Versions' = 1..(Len(made) + 1)
    BY <1>1, <1>3
  <2> QED
    BY <1>1, <2>2, <2>3, <2>4
<1>7. /\ retired' = retired \cup (IF current[id] = 0 THEN {} ELSE {current[id]})
      /\ retired' \subseteq Versions
      /\ freed' \subseteq retired' /\ retiring' \in [Ids -> Nat]
      /\ InUseIsExact' /\ NothingReadIsFree'
  <2>1. CASE current[id] # 0
    <3>1. retireLocked(id)
      BY <2>1 DEF HandIn
    <3> QED
      BY <1>3, <1>4, <2>1, <3>1, Retires
  <2>2. CASE current[id] = 0
    <3>1. retired' = retired /\ freed' = freed /\ retiring' = retiring
      BY <2>2 DEF HandIn
    <3>2. \A i : OldReaders(i)' = OldReaders(i)
      BY <1>3, <1>4, <3>1 DEF OldReaders, VersionsOf, Versions, IInv, HoldTypes
    <3> QED
      BY <1>4, <2>2, <3>1, <3>2 DEF IInv, InUseIsExact, NothingReadIsFree, HoldTypes
  <2> QED
    BY <2>1, <2>2
<1>8. job' \in [Workers -> Jobs'] /\ current' \in [Ids -> Versions' \cup {0}]
  BY <1>1, <1>3, <1>4 DEF IInv, HoldTypes, Jobs
<1>9. HoldTypes'
  BY <1>3, <1>4, <1>6, <1>7, <1>8 DEF IInv, HoldTypes
<1>10. current'[id] = n /\ made'[n].id = id /\ \A i \in Ids \ {id} : current'[i] = current[i]
  <2>1. made'[n].id = id
    BY <1>3
  <2> QED
    BY <1>4, <2>1 DEF IInv, HoldTypes
<1>11. \A i \in Ids : current'[i] # 0 => made'[current'[i]].id = i /\ current'[i] \notin retired'
  <2> SUFFICES ASSUME NEW i \in Ids, current'[i] # 0
               PROVE  made'[current'[i]].id = i /\ current'[i] \notin retired'
    OBVIOUS
  <2>1. CASE i = id
    BY <1>1, <1>7, <1>10, <2>1
  <2>2. CASE i # id
    <3>1. /\ current'[i] = current[i] /\ current[i] \in Versions /\ current[i] \notin retired
          /\ made[current[i]].id = i
      BY <1>10, <2>2 DEF IInv, HoldTypes
    <3>2. current[id] # current[i]
      BY <2>2, <3>1 DEF IInv
    <3> QED
      BY <1>3, <1>7, <3>1, <3>2
  <2> QED
    BY <2>1, <2>2
<1>12. \A v \in Versions' : v \in retired' \/ current'[made'[v].id] = v
  <2> SUFFICES ASSUME NEW v \in Versions', v \notin retired'
               PROVE  current'[made'[v].id] = v
    OBVIOUS
  <2>1. CASE v = n
    BY <1>10, <2>1
  <2>2. CASE v # n
    <3>1. v \in Versions /\ v \notin retired /\ made'[v] = made[v] /\ v # current[id] /\ v # 0
      BY <1>1, <1>3, <1>7, <2>2
    <3>2. current[made[v].id] = v /\ made[v].id \in Ids
      BY <1>1, <3>1 DEF IInv
    <3>3. made[v].id # id
      BY <3>1, <3>2
    <3> QED
      BY <1>10, <3>1, <3>2, <3>3
  <2> QED
    BY <2>1, <2>2
<1>13. \A v \in Versions' : readers'[v] = Cardinality(Readers(v)')
  <2>1. Readers(n) = {}
    BY <1>1 DEF IInv, HoldTypes, Readers, Jobs
  <2>2. Cardinality({}) = 0
    BY FS_EmptySet
  <2>3. \A v : Readers(v)' = Readers(v)
    BY <1>4 DEF Readers
  <2> QED
    BY <1>3, <1>6, <2>1, <2>2, <2>3 DEF IInv
<1>14. \A w \in Workers :
          /\ job'[w].stage \in {"idle", "taken"} => job'[w].of = 0
          /\ job'[w].stage # "idle" => job'[w].key \in Ids \X Buckets
  BY <1>4 DEF IInv
<1> QED
  BY <1>7, <1>9, <1>11, <1>12, <1>13, <1>14 DEF IInv

LEMMA DropKeeps ==
    ASSUME IInv, NEW id \in Ids, Drop(id)
    PROVE  IInv'
<1>1. /\ made' = made /\ readers' = readers /\ job' = job /\ waiting' = waiting
      /\ current[id] # 0 /\ retireLocked(id)
      /\ current' = [current EXCEPT ![id] = 0]
  BY DEF Drop
<1>2. Versions' = Versions /\ Jobs' = Jobs
  BY <1>1 DEF Versions, Jobs
<1>3. /\ retired' = retired \cup {current[id]} /\ retired' \subseteq Versions
      /\ freed' \subseteq retired' /\ retiring' \in [Ids -> Nat]
      /\ InUseIsExact' /\ NothingReadIsFree'
  BY <1>1, <1>2, Retires
<1>4. HoldTypes'
  BY <1>1, <1>2, <1>3 DEF IInv, HoldTypes
<1>5. \A i \in Ids : current'[i] # 0 => made'[current'[i]].id = i /\ current'[i] \notin retired'
  BY <1>1, <1>3 DEF IInv, HoldTypes
<1>6. \A v \in Versions' : v \in retired' \/ current'[made'[v].id] = v
  BY <1>1, <1>2, <1>3 DEF IInv, HoldTypes
<1>7. \A v \in Versions' : readers'[v] = Cardinality(Readers(v)')
  BY <1>1, <1>2 DEF IInv, Readers
<1> QED
  BY <1>1, <1>3, <1>4, <1>5, <1>6, <1>7 DEF IInv

\* InUse says no when the count is nothing, and then nothing old is read.
LEMMA InUseKeeps ==
    ASSUME IInv, NEW id \in Ids, InUse(id)
    PROVE  IInv'
<1>1. /\ UNCHANGED <<made, readers, retired, retiring, current, waiting, job>>
      /\ retiring[id] = 0
      /\ freed' = freed \cup (VersionsOf(id) \cap retired)
  BY DEF InUse
<1>2. Versions' = Versions /\ Jobs' = Jobs /\ (\A i : OldReaders(i)' = OldReaders(i))
      /\ \A v : Readers(v)' = Readers(v)
  BY <1>1 DEF Versions, Jobs, OldReaders, Readers, VersionsOf
<1>3. OldReaders(id) = {}
  <2>1. OldReaders(id) \subseteq Workers
    BY DEF OldReaders
  <2>2. Cardinality(OldReaders(id)) = 0
    BY <1>1 DEF IInv, InUseIsExact
  <2> QED
    BY <2>1, <2>2, CountNone
<1>4. NothingReadIsFree'
  BY <1>1, <1>3 DEF IInv, NothingReadIsFree, OldReaders
<1>5. HoldTypes' /\ freed' \subseteq retired'
  BY <1>1, <1>2 DEF IInv, HoldTypes
<1> QED
  BY <1>1, <1>2, <1>4, <1>5 DEF IInv, InUseIsExact
\* Close retires what is set, and calls everything free when no call is in.
LEMMA CloseKeeps ==
    ASSUME IInv, Close
    PROVE  IInv'
<1>1. /\ UNCHANGED <<made, readers>> /\ current' = [id \in Ids |-> 0] /\ waiting' = {}
      /\ retired' = retired \cup {current[id] : id \in Held}
      /\ retiring' = [id \in Ids |-> retiring[id] +
                         (IF current[id] = 0 THEN 0 ELSE readers[current[id]])]
      /\ freed' = IF \E w \in Workers : Flying(w) THEN freed ELSE DOMAIN made
      /\ job' = [w \in Workers |-> Dropped(job[w])]
  BY DEF Close
<1>2. /\ 0 \notin Versions /\ Versions' = Versions /\ Jobs' = Jobs
      /\ \A id : VersionsOf(id)' = VersionsOf(id) /\ VersionsOf(id) \subseteq Versions
      /\ \A v \in Versions : made[v].id \in Ids
  BY <1>1, VersionNumbers DEF IInv, Versions, Jobs, VersionsOf
<1>3. job' \in [Workers -> Jobs] /\ \A w \in Workers : job'[w].of = job[w].of
        /\ job'[w].stage = job[w].stage /\ job'[w].key = job[w].key
  <2>1. ASSUME NEW w \in Workers
        PROVE  /\ Dropped(job[w]) \in Jobs /\ Dropped(job[w]).of = job[w].of
               /\ Dropped(job[w]).stage = job[w].stage /\ Dropped(job[w]).key = job[w].key
    <3>1. job[w] \in Jobs
      BY DEF IInv, HoldTypes
    <3> QED
      BY <3>1, JobOff, Zenon DEF Dropped
  <2> QED
    BY <1>1, <2>1
<1>4. retired' = Versions
  <2>1. retired' \subseteq Versions
    BY <1>1 DEF IInv, HoldTypes, Held
  <2>2. ASSUME NEW v \in Versions PROVE v \in retired'
    <3>1. v \in retired \/ (current[made[v].id] = v /\ made[v].id \in Held)
      BY <1>2 DEF IInv, Held
    <3> QED
      BY <1>1, <3>1
  <2> QED
    BY <2>1, <2>2
<1>5. \A v : Readers(v)' = Readers(v)
  BY <1>3 DEF Readers
<1>6. ASSUME NEW id \in Ids
      PROVE  retiring'[id] = Cardinality(OldReaders(id)') /\ retiring'[id] \in Nat
  <2>1. OldReaders(id) \subseteq Workers /\ retiring[id] = Cardinality(OldReaders(id))
        /\ retiring[id] \in Nat
    BY DEF IInv, InUseIsExact, HoldTypes, OldReaders
  <2>2. OldReaders(id)' = {w \in Workers : job[w].of \in VersionsOf(id)}
    BY <1>2, <1>3, <1>4 DEF OldReaders
  <2>3. \A v \in VersionsOf(id) : v \in retired \/ v = current[id]
    BY DEF IInv, VersionsOf, Versions
  <2>4. CASE current[id] = 0
    <3>1. OldReaders(id)' = OldReaders(id)
      BY <1>2, <2>2, <2>3, <2>4 DEF OldReaders
    <3> QED
      BY <1>1, <2>1, <2>4, <3>1
  <2>5. CASE current[id] # 0
    <3>1. /\ current[id] \in VersionsOf(id) /\ current[id] \notin retired
          /\ current[id] \in Versions
      BY <2>5 DEF IInv, HoldTypes, VersionsOf, Versions
    <3>2. readers[current[id]] = Cardinality(Readers(current[id])) /\ readers[current[id]] \in Nat
      BY <3>1 DEF IInv, HoldTypes
    <3>3. OldReaders(id)' = OldReaders(id) \cup Readers(current[id])
      BY <2>2, <2>3, <3>1 DEF OldReaders, Readers
    <3>4. OldReaders(id) \cap Readers(current[id]) = {} /\ Readers(current[id]) \subseteq Workers
      BY <3>1 DEF OldReaders, Readers
    <3>5. Cardinality(OldReaders(id)') = Cardinality(OldReaders(id)) + Cardinality(Readers(current[id]))
      BY <2>1, <3>3, <3>4, CountApart
    <3>6. retiring'[id] = retiring[id] + readers[current[id]]
      BY <1>1, <2>5
    <3> QED
      BY <2>1, <3>2, <3>5, <3>6
  <2> QED
    BY <2>4, <2>5
<1>7. NothingReadIsFree' /\ freed' \subseteq retired'
  <2>1. CASE \E w \in Workers : Flying(w)
    BY <1>1, <1>3, <1>4, <2>1 DEF IInv, HoldTypes, NothingReadIsFree
  <2>2. CASE \A w \in Workers : ~Flying(w)
    <3>1. freed' = Versions
      BY <1>1, <2>2 DEF Versions
    <3>2. \A w \in Workers : job[w].of = 0
      BY <2>2 DEF IInv, Flying
    <3> QED
      BY <1>2, <1>3, <1>4, <3>1, <3>2 DEF NothingReadIsFree
  <2> QED
    BY <2>1, <2>2
<1>8. retiring' \in [Ids -> Nat] /\ InUseIsExact'
  BY <1>1, <1>6 DEF InUseIsExact
<1>9. HoldTypes'
  BY <1>1, <1>2, <1>3, <1>4, <1>7, <1>8 DEF IInv, HoldTypes
<1>10. /\ \A id \in Ids : current'[id] = 0
       /\ \A v \in Versions' : v \in retired'
       /\ \A v \in Versions' : readers'[v] = Cardinality(Readers(v)')
  BY <1>1, <1>2, <1>4, <1>5 DEF IInv
<1>11. \A w \in Workers :
          /\ job'[w].stage \in {"idle", "taken"} => job'[w].of = 0
          /\ job'[w].stage # "idle" => job'[w].key \in Ids \X Buckets
  BY <1>3 DEF IInv
<1> QED
  BY <1>7, <1>8, <1>9, <1>10, <1>11 DEF IInv

-----------------------------------------------------------------------------
\* A job begins its hold on the version set, which is not free, and ends it.
LEMMA BeginKeeps ==
    ASSUME IInv, NEW w \in Workers, Begin(w)
    PROVE  IInv'
<1> DEFINE v == current[job[w].key[1]]
<1>1. /\ UNCHANGED <<made, retired, retiring, current, freed, waiting>>
      /\ job[w].stage = "taken" /\ job[w].of = 0 /\ job[w].key[1] \in Ids
  BY DEF Begin, IInv
<1>2. CASE job[w].off \/ v = 0
  <2>1. job' = [job EXCEPT ![w].stage = "read"] /\ readers' = readers
    BY <1>2 DEF Begin
  <2>2. /\ job' \in [Workers -> Jobs]
        /\ \A x \in Workers : /\ job'[x].of = job[x].of /\ job'[x].key = job[x].key
                              /\ job'[x].stage = IF x = w THEN "read" ELSE job[x].stage
    BY <2>1, MoveStage DEF IInv, HoldTypes
  <2>3. UNCHANGED Holds /\ waiting' \subseteq Ids \X Buckets
    BY <1>1, <2>1 DEF Holds, IInv, HoldTypes
  <2> QED
    BY <1>1, <2>2, <2>3, HoldsUntouched DEF IInv
<1>3. CASE ~job[w].off /\ v # 0
  <2>1. /\ job' = [job EXCEPT ![w].stage = "reading", ![w].of = v]
        /\ readers' = [readers EXCEPT ![v] = @ + 1]
    BY <1>3 DEF Begin
  <2>2. v \in Versions /\ v \notin retired /\ v \notin freed
    BY <1>1, <1>3 DEF IInv, HoldTypes
  <2>3. Versions' = Versions /\ Jobs' = Jobs /\ \A id : VersionsOf(id)' = VersionsOf(id)
    BY <1>1 DEF Versions, Jobs, VersionsOf
  <2>4. /\ job' \in [Workers -> Jobs]
        /\ \A x \in Workers :
              /\ job'[x].of = IF x = w THEN v ELSE job[x].of
              /\ job'[x].stage = IF x = w THEN "reading" ELSE job[x].stage
              /\ job'[x].key = job[x].key
    <3>1. job' = [job EXCEPT ![w] = [job[w] EXCEPT !.stage = "reading", !.of = v]]
      BY <2>1
    <3> HIDE DEF v
    <3>2. job \in [Workers -> Jobs]
      BY DEF IInv, HoldTypes
    <3>3. /\ [job[w] EXCEPT !.stage = "reading", !.of = v] \in Jobs
          /\ [job[w] EXCEPT !.stage = "reading", !.of = v].stage = "reading"
          /\ [job[w] EXCEPT !.stage = "reading", !.of = v].key = job[w].key
          /\ [job[w] EXCEPT !.stage = "reading", !.of = v].of = v
      <4>1. job[w] \in Jobs
        BY <3>2
      <4> QED
        BY <2>2, <4>1, JobBegins, Zenon
    <3> QED
      BY <3>1, <3>2, <3>3
  <2>5. readers' \in [Versions -> Nat]
    BY <2>1, <2>2 DEF IInv, HoldTypes
  <2>6. \A n \in Versions : readers'[n] = Cardinality(Readers(n)')
    <3>1. ASSUME NEW n \in Versions, n # v PROVE readers'[n] = Cardinality(Readers(n)')
      <4>1. Readers(n)' = Readers(n)
        <5>1. n # 0
          BY VersionNumbers DEF IInv
        <5> QED
          BY <1>1, <2>4, <3>1, <5>1 DEF Readers
      <4> QED
        BY <2>1, <3>1, <4>1 DEF IInv, HoldTypes
    <3>2. ASSUME NEW n \in Versions, n = v PROVE readers'[n] = Cardinality(Readers(n)')
      <4>1. Readers(n)' = Readers(n) \cup {w} /\ w \notin Readers(n) /\ Readers(n) \subseteq Workers
        BY <1>1, <1>3, <2>4, <3>2 DEF Readers
      <4>2. Cardinality(Readers(n) \cup {w}) = Cardinality(Readers(n)) + 1
        BY <4>1, CountMore
      <4> QED
        BY <2>1, <2>2, <3>2, <4>1, <4>2 DEF IInv, HoldTypes
    <3> QED
      <4> SUFFICES ASSUME NEW n \in Versions PROVE readers'[n] = Cardinality(Readers(n)')
        OBVIOUS
      <4>1. CASE n = v
        BY <3>2, <4>1
      <4>2. CASE n # v
        BY <3>1, <4>2
      <4> QED
        BY <4>1, <4>2
  <2>7. \A id : OldReaders(id)' = OldReaders(id)
    <3>1. 0 \notin retired
      BY VersionNumbers DEF IInv, HoldTypes
    <3> QED
      BY <1>1, <2>2, <2>3, <2>4, <3>1 DEF OldReaders
  <2>8. HoldTypes'
    BY <1>1, <2>3, <2>4, <2>5 DEF IInv, HoldTypes
  <2>9. InUseIsExact' /\ NothingReadIsFree'
    BY <1>1, <2>2, <2>4, <2>7 DEF IInv, InUseIsExact, NothingReadIsFree
  <2>10. \A x \in Workers :
            /\ job'[x].stage \in {"idle", "taken"} => job'[x].of = 0
            /\ job'[x].stage # "idle" => job'[x].key \in Ids \X Buckets
    BY <1>1, <2>4 DEF IInv
  <2> QED
    BY <1>1, <2>3, <2>6, <2>8, <2>9, <2>10 DEF IInv
<1> QED
  BY <1>2, <1>3

LEMMA DoneKeeps ==
    ASSUME IInv, NEW w \in Workers, Done(w)
    PROVE  IInv'
<1> DEFINE v == job[w].of
<1>1. /\ UNCHANGED <<made, retired, current, freed, waiting>> /\ job' = [job EXCEPT ![w] = Idle]
      /\ readers' = IF v = 0 THEN readers ELSE [readers EXCEPT ![v] = @ - 1]
      /\ retiring' = IF v # 0 /\ v \in retired
                       THEN [retiring EXCEPT ![made[v].id] = @ - 1] ELSE retiring
      /\ job[w].stage = "read"
  BY DEF Done
<1>2. /\ Versions' = Versions /\ Jobs' = Jobs /\ 0 \notin Versions /\ v \in Versions \cup {0}
      /\ \A id : VersionsOf(id)' = VersionsOf(id)
      /\ \A n \in Versions : made[n].id \in Ids
  BY <1>1, VersionNumbers DEF IInv, HoldTypes, Versions, Jobs, VersionsOf
<1>3. /\ job' \in [Workers -> Jobs] /\ waiting' \subseteq Ids \X Buckets
      /\ \A x \in Workers : job'[x] = IF x = w THEN Idle ELSE job[x]
  BY <1>1 DEF IInv, HoldTypes, Jobs, Idle
<1>4. ASSUME NEW n \in Versions
      PROVE  readers'[n] = Cardinality(Readers(n)') /\ readers'[n] \in Nat
  <2>1. readers[n] = Cardinality(Readers(n)) /\ readers[n] \in Nat /\ Readers(n) \subseteq Workers
    BY DEF IInv, HoldTypes, Readers
  <2>2. Readers(n)' \subseteq Workers
    BY DEF Readers
  <2>3. Cardinality(Readers(n)') \in Nat
    BY <2>2, WorkersFinite
  <2>4. CASE n # v
    <3>1. Readers(n)' = Readers(n)
      BY <1>2, <1>3, <2>4 DEF Readers, Idle
    <3>2. readers'[n] = readers[n]
      BY <1>1, <2>4 DEF IInv, HoldTypes
    <3> QED
      BY <2>1, <3>1, <3>2
  <2>5. CASE n = v
    <3>1. Readers(n)' = Readers(n) \ {w} /\ w \in Readers(n)
      BY <1>2, <1>3, <2>5 DEF Readers, Idle
    <3>2. Cardinality(Readers(n) \ {w}) = Cardinality(Readers(n)) - 1
      BY <2>1, <3>1, CountLess
    <3>3. readers'[n] = readers[n] - 1
      BY <1>1, <1>2, <2>5 DEF IInv, HoldTypes
    <3> QED
      BY <2>1, <2>3, <3>1, <3>2, <3>3
  <2> QED
    BY <2>4, <2>5
<1>5. ASSUME NEW id \in Ids
      PROVE  retiring'[id] = Cardinality(OldReaders(id)') /\ retiring'[id] \in Nat
  <2>1. /\ retiring[id] = Cardinality(OldReaders(id)) /\ retiring[id] \in Nat
        /\ OldReaders(id) \subseteq Workers
    BY DEF IInv, InUseIsExact, HoldTypes, OldReaders
  <2>2. OldReaders(id)' \subseteq Workers
    BY DEF OldReaders
  <2>3. Cardinality(OldReaders(id)') \in Nat
    BY <2>2, WorkersFinite
  <2>4. 0 \notin retired
    BY <1>2 DEF IInv, HoldTypes
  <2>5. CASE v \in retired /\ made[v].id = id
    <3>1. v \in VersionsOf(id)
      BY <1>2, <2>4, <2>5 DEF VersionsOf, Versions
    <3>2. OldReaders(id)' = OldReaders(id) \ {w} /\ w \in OldReaders(id)
      BY <1>1, <1>2, <1>3, <2>4, <2>5, <3>1 DEF OldReaders, Idle
    <3>3. Cardinality(OldReaders(id) \ {w}) = Cardinality(OldReaders(id)) - 1
      BY <2>1, <3>2, CountLess
    <3>4. retiring'[id] = retiring[id] - 1
      BY <1>1, <2>4, <2>5 DEF IInv, HoldTypes
    <3> QED
      BY <2>1, <2>3, <3>2, <3>3, <3>4
  <2>6. CASE ~(v \in retired /\ made[v].id = id)
    <3>1. v \notin retired \cap VersionsOf(id)
      BY <2>6 DEF VersionsOf
    <3>2. OldReaders(id)' = OldReaders(id)
      BY <1>1, <1>2, <1>3, <2>4, <3>1 DEF OldReaders, Idle
    <3>3. retiring'[id] = retiring[id]
      BY <1>1, <1>2, <2>6 DEF IInv, HoldTypes
    <3> QED
      BY <2>1, <3>2, <3>3
  <2> QED
    BY <2>5, <2>6
<1>6. readers' \in [Versions -> Nat]
  <2>1. readers' = [n \in Versions |-> readers'[n]]
    BY <1>1 DEF IInv, HoldTypes
  <2> QED
    BY <1>4, <2>1
<1>7. retiring' \in [Ids -> Nat] /\ InUseIsExact'
  <2>1. retiring' = [id \in Ids |-> retiring'[id]]
    BY <1>1 DEF IInv, HoldTypes
  <2> QED
    BY <1>5, <2>1 DEF InUseIsExact
<1>8. HoldTypes'
  BY <1>1, <1>2, <1>3, <1>6, <1>7 DEF IInv, HoldTypes
<1>9. NothingReadIsFree'
  <2>1. 0 \notin freed
    BY <1>2 DEF IInv, HoldTypes
  <2> QED
    BY <1>1, <1>3, <2>1 DEF IInv, NothingReadIsFree, Idle
<1>10. \A x \in Workers :
          /\ job'[x].stage \in {"idle", "taken"} => job'[x].of = 0
          /\ job'[x].stage # "idle" => job'[x].key \in Ids \X Buckets
  BY <1>3 DEF IInv, Idle
<1> QED
  BY <1>1, <1>2, <1>4, <1>7, <1>8, <1>9, <1>10 DEF IInv

-----------------------------------------------------------------------------
\* The steps of the host and of the queue that touch no hold.
LEMMA HostKeeps ==
    ASSUME IInv, DropSpares \/ RenderAsks \/ RenderPicks \/ RenderDraws \/ Shed \/ UNCHANGED vars
    PROVE  IInv'
<1>1. UNCHANGED Holds /\ job' = job
  BY DEF DropSpares, RenderAsks, RenderPicks, RenderDraws, Shed, vars, store, Holds
<1>2. waiting' \subseteq waiting
  BY DEF DropSpares, RenderAsks, RenderPicks, RenderDraws, Shed, vars
<1> QED
  BY <1>1, <1>2, HoldsUntouched DEF IInv, HoldTypes

LEMMA NotesKeeps ==
    ASSUME IInv, NEW b \in Buckets, RenderNotes(b)
    PROVE  IInv'
<1> DEFINE Off(w) == Flying(w) /\ ~(job[w].key[2] = b /\ job[w].key[1] \in Held)
<1>1. /\ UNCHANGED Holds
      /\ job' = [w \in Workers |-> IF Off(w) THEN Dropped(job[w]) ELSE job[w]]
  BY DEF RenderNotes, store, Holds
<1>2. waiting' \subseteq Ids \X Buckets
  BY DEF RenderNotes, IInv, HoldTypes
<1>3. ASSUME NEW w \in Workers
      PROVE  /\ job'[w] \in Jobs /\ job'[w].of = job[w].of
             /\ job'[w].stage = job[w].stage /\ job'[w].key = job[w].key
  <2>1. job[w] \in Jobs
    BY DEF IInv, HoldTypes
  <2>2. /\ Dropped(job[w]) \in Jobs /\ Dropped(job[w]).of = job[w].of
        /\ Dropped(job[w]).stage = job[w].stage /\ Dropped(job[w]).key = job[w].key
    BY <2>1, JobOff, Zenon DEF Dropped
  <2>3. job'[w] = Dropped(job[w]) \/ job'[w] = job[w]
    BY <1>1
  <2> QED
    BY <2>1, <2>2, <2>3
<1>4. job' \in [Workers -> Jobs]
  <2>1. job' = [w \in Workers |-> job'[w]]
    BY <1>1
  <2> QED
    BY <1>3, <2>1
<1> QED
  BY <1>1, <1>2, <1>3, <1>4, HoldsUntouched DEF IInv

LEMMA AddsKeeps ==
    ASSUME IInv, Asked, RenderAdds
    PROVE  IInv'
<1>1. UNCHANGED Holds /\ job' = job
  BY DEF RenderAdds, store, Holds
<1>2. waiting' \subseteq Ids \X Buckets
  <2>1. waiting' \subseteq waiting \cup {<<id, bucket>> : id \in missing}
    BY DEF RenderAdds
  <2>2. missing \subseteq Ids /\ bucket \in Buckets
    BY DEF RenderAdds, Asked
  <2> QED
    BY <2>1, <2>2 DEF IInv, HoldTypes
<1> QED
  BY <1>1, <1>2, HoldsUntouched DEF IInv, HoldTypes

LEMMA TakeKeeps ==
    ASSUME IInv, NEW w \in Workers, Take(w)
    PROVE  IInv'
<1>1. PICK key \in waiting :
         /\ waiting' = waiting \ {key}
         /\ job' = [job EXCEPT ![w] = [stage |-> "taken", key |-> key, of |-> 0, off |-> FALSE]]
  BY DEF Take
<1>2. /\ UNCHANGED Holds /\ job[w].stage = "idle" /\ key \in Ids \X Buckets
      /\ waiting' \subseteq Ids \X Buckets
  BY <1>1 DEF Take, store, Holds, IInv, HoldTypes
<1> DEFINE j == [stage |-> "taken", key |-> key, of |-> 0, off |-> FALSE]
<1>3. job' = [job EXCEPT ![w] = j] /\ j \in Jobs
  BY <1>1, <1>2 DEF Jobs
<1>4. j.stage = "taken" /\ j.key = key /\ j.of = 0 /\ job[w].of = 0
  BY <1>2 DEF IInv
<1>5. job' \in [Workers -> Jobs] /\ \A x \in Workers : job'[x] = IF x = w THEN j ELSE job[x]
  <2> HIDE DEF j
  <2> QED
    BY <1>3 DEF IInv, HoldTypes
<1>6. \A x \in Workers :
         /\ job'[x].of = job[x].of
         /\ job'[x].stage \in {"idle", "taken"} => job[x].stage \in {"idle", "taken"}
         /\ job'[x].stage # "idle" => job'[x].key \in Ids \X Buckets
  <2> HIDE DEF j
  <2> QED
    BY <1>2, <1>4, <1>5 DEF IInv
<1> QED
  BY <1>2, <1>5, <1>6, HoldsUntouched

\* What is read is kept, or is not: the hold stays until Done.
LEMMA ReadKeeps ==
    ASSUME IInv, NEW w \in Workers,
           ReadNothing(w) \/ KeepRetired(w) \/ keepPictures(w) \/ keepField(w) \/ keep(w)
    PROVE  IInv'
<1>1. /\ UNCHANGED Holds /\ waiting' = waiting
      /\ job[w].stage = "reading" /\ job' = [job EXCEPT ![w].stage = "read"]
  BY DEF ReadNothing, KeepRetired, keepPictures, keepField, keep, Landed, store, Holds
<1>2. /\ job' \in [Workers -> Jobs]
      /\ \A x \in Workers : /\ job'[x].of = job[x].of /\ job'[x].key = job[x].key
                            /\ job'[x].stage = IF x = w THEN "read" ELSE job[x].stage
  BY <1>1, MoveStage DEF IInv, HoldTypes
<1> QED
  BY <1>1, <1>2, HoldsUntouched DEF IInv, HoldTypes

LEMMA CallOffKeeps ==
    ASSUME IInv, NEW w \in Workers, CallOff(w)
    PROVE  IInv'
<1>1. /\ UNCHANGED Holds /\ waiting' = waiting
      /\ job' = [job EXCEPT ![w] = [job[w] EXCEPT !.off = TRUE]]
  BY DEF CallOff, store, Holds
<1>2. /\ [job[w] EXCEPT !.off = TRUE] \in Jobs
      /\ [job[w] EXCEPT !.off = TRUE].stage = job[w].stage
      /\ [job[w] EXCEPT !.off = TRUE].key = job[w].key
      /\ [job[w] EXCEPT !.off = TRUE].of = job[w].of
  <2>1. job[w] \in Jobs
    BY DEF IInv, HoldTypes
  <2> QED
    BY <2>1, JobOff, Zenon
<1>3. /\ job' \in [Workers -> Jobs]
      /\ \A x \in Workers : /\ job'[x].of = job[x].of /\ job'[x].key = job[x].key
                            /\ job'[x].stage = job[x].stage
  BY <1>1, <1>2 DEF IInv, HoldTypes
<1> QED
  BY <1>1, <1>3, HoldsUntouched DEF IInv, HoldTypes

-----------------------------------------------------------------------------
LEMMA InitHolds == Init => IInv
<1> SUFFICES ASSUME Init PROVE IInv
  OBVIOUS
<1>1. /\ made = <<>> /\ readers = <<>> /\ retired = {} /\ freed = {} /\ waiting = {}
      /\ retiring = [id \in Ids |-> 0] /\ current = [id \in Ids |-> 0]
      /\ job = [w \in Workers |-> Idle]
  BY DEF Init
<1>2. Versions = {} /\ \A id \in Ids : OldReaders(id) = {}
  BY <1>1 DEF Versions, OldReaders
<1>3. job \in [Workers -> Jobs]
  <2>1. Idle \in Jobs
    BY DEF Idle, Jobs
  <2> QED
    BY <1>1, <2>1
<1>4. HoldTypes
  BY <1>1, <1>2, <1>3 DEF HoldTypes
<1>5. InUseIsExact
  BY <1>1, <1>2, FS_EmptySet DEF InUseIsExact
<1>6. \A w \in Workers : job[w].stage = "idle" /\ job[w].of = 0
  BY <1>1 DEF Idle
<1> QED
  BY <1>1, <1>2, <1>4, <1>5, <1>6 DEF IInv, NothingReadIsFree

LEMMA StepHolds == IInv /\ Asked /\ [Next]_vars => IInv'
<1> SUFFICES ASSUME IInv, Asked, [Next]_vars PROVE IInv'
  OBVIOUS
<1>1. CASE \E id \in Ids, o \in Offers : HandIn(id, o)
  BY <1>1, HandInKeeps
<1>2. CASE \E id \in Ids : Drop(id) \/ InUse(id)
  BY <1>2, DropKeeps, InUseKeeps
<1>3. CASE Close
  BY <1>3, CloseKeeps
<1>4. CASE \E b \in Buckets : RenderNotes(b)
  BY <1>4, NotesKeeps
<1>5. CASE \E w \in Workers : Work(w) \/ CallOff(w)
  BY <1>5, TakeKeeps, BeginKeeps, ReadKeeps, DoneKeeps, CallOffKeeps DEF Work
<1>6. CASE DropSpares \/ RenderAsks \/ RenderPicks \/ RenderDraws \/ Shed \/ UNCHANGED vars
  BY <1>6, HostKeeps
<1>7. CASE RenderAdds
  BY <1>7, AddsKeeps
<1> QED
  BY <1>1, <1>2, <1>3, <1>4, <1>5, <1>6, <1>7 DEF Next

LEMMA AskedStays == Asked /\ [Next]_vars => Asked'
<1> SUFFICES ASSUME Asked, [Next]_vars PROVE Asked'
  OBVIOUS
<1>1. CASE \E id \in Ids, o \in Offers : HandIn(id, o)
  BY <1>1 DEF HandIn, drawn, Asked
<1>2. CASE \E id \in Ids : Drop(id) \/ InUse(id)
  BY <1>2 DEF Drop, InUse, drawn, Asked
<1>3. CASE DropSpares \/ Close \/ Shed \/ UNCHANGED vars
  BY <1>3 DEF DropSpares, Close, Shed, drawn, vars, Asked
<1>4. CASE \E b \in Buckets : RenderNotes(b)
  BY <1>4 DEF RenderNotes, Asked
<1>5. CASE RenderAsks
  BY <1>5 DEF RenderAsks, Held, Asked
<1>6. CASE RenderAdds \/ RenderPicks \/ RenderDraws
  BY <1>6 DEF RenderAdds, RenderPicks, RenderDraws, Asked
<1>7. CASE \E w \in Workers : Work(w) \/ CallOff(w)
  BY <1>7 DEF Work, Take, Begin, ReadNothing, KeepRetired, keepPictures, keepField, keep,
              Done, CallOff, drawn, Asked
<1> QED
  BY <1>1, <1>2, <1>3, <1>4, <1>5, <1>6, <1>7 DEF Next

\* The holds of the store, and what the parts of IInv say of them, for every
\* number of overlays, jobs and hand-ins.
THEOREM HoldsInvariant == Spec => []IInv
<1>1. Init => Asked
  BY DEF Init, Asked
<1>2. Spec => []Asked
  BY <1>1, AskedStays, PTL DEF Spec
<1> QED
  BY <1>2, InitHolds, StepHolds, PTL DEF Spec

\* The host is told that it may write over a version only when no job reads
\* it: by the hand-in that replaced it, by InUse, or by Close.
THEOREM HostMayWrite == Spec => []NothingReadIsFree
<1>1. IInv => NothingReadIsFree
  BY DEF IInv
<1> QED
  BY <1>1, HoldsInvariant, PTL

\* InUse counts exactly the jobs that read a retired version of an id, over
\* every order of hand-ins, removals, reads and Close.
THEOREM InUseCounts == Spec => []InUseIsExact
<1>1. IInv => InUseIsExact
  BY DEF IInv
<1> QED
  BY <1>1, HoldsInvariant, PTL

\* The host has its memory back when the last reader of a version retired
\* has come back, and no sooner.
THEOREM MemoryComesBack == Spec => []MemoryIsGivenBack
<1>1. NothingReadIsFree /\ InUseIsExact => MemoryIsGivenBack
  BY DEF MemoryIsGivenBack
<1> QED
  BY <1>1, HostMayWrite, InUseCounts, PTL

-----------------------------------------------------------------------------
(* What is kept of an overlay, and what the frames show of it.             *)

\* The kept tables and what they are of: what Fresh below speaks of.
JobsKnow ==
    \A w \in Workers :
        /\ job[w].of # 0 => made[job[w].of].id = job[w].key[1]
        /\ job[w].stage = "reading" => job[w].of # 0

Tables ==
    /\ prepared \in [Ids -> [Buckets -> Nat]] /\ stand \in [Ids -> [Buckets -> Nat]]
    /\ {fields, pictures, standPics} \subseteq [Ids -> Nat]
    /\ spare \in [Ids -> SUBSET Nat]

OlderOf(id, v) == v \in VersionsOf(id) /\ v < current[id]

\* What is kept of an overlay is of its version, what stands in of one older;
\* each is of the version's kind, and nothing stands in for a form prepared.
Fresh(id) ==
    /\ \A b \in Buckets : prepared[id][b] \in {0, current[id]}
    /\ fields[id] \in {0, current[id]} /\ pictures[id] \in {0, current[id]}
    /\ \A b \in Buckets : stand[id][b] # 0 => OlderOf(id, stand[id][b])
    /\ standPics[id] # 0 => OlderOf(id, standPics[id])
    /\ \A v \in spare[id] : OlderOf(id, v)
    /\ \A u, v \in spare[id] : u = v
    /\ spare[id] # {} => pictures[id] = 0
    /\ fields[id] # 0 => Offer(current[id]).kind = "grid"
    /\ pictures[id] # 0 \/ standPics[id] # 0 => IsImage(current[id])
    /\ id \in fromMemory \/ FormsAt(prepared[id]) # {} =>
          /\ current[id] # 0 /\ Offer(current[id]).kind = "shape"
          /\ \A b \in Buckets : stand[id][b] = 0
    /\ \A b, c \in Buckets : stand[id][b] # 0 /\ stand[id][c] # 0 => stand[id][b] = stand[id][c]

KeptInv == JobsKnow /\ Tables /\ \A id \in Ids : Fresh(id)

\* What a settling does, but for the order of use.
LEMMA SettlingSheds ==
    ASSUME NEW form, NEW held, NEW uses, NEW at, settleLocked(form, held, uses, at)
    PROVE  \E shed \in SUBSET FormsOf(form, Ids) :
              /\ IsShed(shed, form, held, uses, at)
              /\ prepared' = [id \in Ids |-> [b \in Buckets |->
                                IF <<id, b>> \in shed THEN 0 ELSE form[id][b]]]
              /\ shapeHeld' = held - Bytes(form, shed)
BY Zenon DEF settleLocked

\* An eviction only takes forms away.
LEMMA EvictionOnlyDrops ==
    ASSUME NEW form \in [Ids -> [Buckets -> Nat]], NEW held, NEW uses, NEW at,
           settleLocked(form, held, uses, at)
    PROVE  /\ prepared' \in [Ids -> [Buckets -> Nat]]
           /\ \A id \in Ids : \A b \in Buckets : prepared'[id][b] \in {0, form[id][b]}
<1>1. PICK shed \in SUBSET FormsOf(form, Ids) :
         /\ IsShed(shed, form, held, uses, at)
         /\ prepared' = [id \in Ids |-> [b \in Buckets |->
                           IF <<id, b>> \in shed THEN 0 ELSE form[id][b]]]
         /\ shapeHeld' = held - Bytes(form, shed)
  BY SettlingSheds, Zenon
<1> QED
  BY <1>1

\* The nearest of some buckets is one of them.
LEMMA NearestIsOne ==
    ASSUME NEW want \in Nat, NEW have, have \subseteq Nat, have # {}
    PROVE  Nearest(want, have) \in have
<1> DEFINE gaps == {Gap(b, want) : b \in have}
<1>1. gaps \subseteq Nat /\ gaps # {}
  <2>1. \A b \in have : Gap(b, want) \in Nat
    <3> TAKE b \in have
    <3>1. b \in Nat
      OBVIOUS
    <3> QED
      BY <3>1 DEF Gap
  <2> QED
    BY <2>1
<1>2. PICK m \in gaps : \A n \in Nat : <<n, m>> \in OpToRel(<, Nat) => n \notin gaps
  BY <1>1, NatLessThanWellFounded, WFMin
<1>3. \A b \in have : m <= Gap(b, want)
  <2> SUFFICES ASSUME NEW b \in have PROVE m <= Gap(b, want)
    OBVIOUS
  <2>1. Gap(b, want) \in gaps /\ Gap(b, want) \in Nat /\ m \in Nat
    BY <1>1
  <2>2. ~(Gap(b, want) < m)
    BY <1>2, <2>1 DEF OpToRel
  <2> QED
    BY <2>1, <2>2
<1>4. \E b \in have : Gap(b, want) = m
  BY <1>2
<1>5. \A b \in have : Gap(b, want) = m => b = want + m \/ b = want - m
  <2> SUFFICES ASSUME NEW b \in have, Gap(b, want) = m PROVE b = want + m \/ b = want - m
    OBVIOUS
  <2>1. b \in Nat
    OBVIOUS
  <2>2. m = want - b \/ m = b - want
    BY <2>1 DEF Gap
  <2> QED
    BY <2>1, <2>2
<1>6. \E b \in have : \A c \in have :
        Gap(b, want) < Gap(c, want) \/ (Gap(b, want) = Gap(c, want) /\ b >= c)
  <2>1. CASE want + m \in have
    <3>1. Gap(want + m, want) = m
      BY <1>1 DEF Gap
    <3>2. \A c \in have : m < Gap(c, want) \/ (m = Gap(c, want) /\ want + m >= c)
      BY <1>1, <1>3, <1>5 DEF Gap
    <3> QED
      BY <2>1, <3>1, <3>2
  <2>2. CASE want + m \notin have
    <3>1. PICK b \in have : Gap(b, want) = m
      BY <1>4
    <3>2. b = want - m
      BY <1>5, <2>2, <3>1
    <3>3. \A c \in have : m < Gap(c, want) \/ (m = Gap(c, want) /\ b >= c)
      BY <1>1, <1>3, <1>5, <2>2, <3>2 DEF Gap
    <3> QED
      BY <3>1, <3>3
  <2> QED
    BY <2>1, <2>2
<1> QED
  BY <1>6 DEF Nearest

\* A version handed in later takes nothing from what is kept of another id,
\* nor does a step that only drops.
LEMMA FreshStays ==
    ASSUME IInv, NEW id \in Ids, Fresh(id),
           \A v \in Versions : v \in Versions' /\ made'[v] = made[v],
           current'[id] = current[id],
           \A b \in Buckets : prepared'[id][b] \in {0, prepared[id][b]},
           stand'[id] = stand[id], fields'[id] = fields[id],
           pictures'[id] = pictures[id], standPics'[id] = standPics[id],
           spare'[id] \subseteq spare[id],
           id \in fromMemory' => id \in fromMemory
    PROVE  Fresh(id)'
<1>1. current[id] \in Versions \cup {0} /\ 0 \notin Versions
  BY VersionNumbers DEF IInv, HoldTypes
<1>2. current[id] # 0 => Offer(current[id])' = Offer(current[id])
  BY <1>1 DEF Offer
<1>3. IsImage(current[id]) => IsImage(current[id])'
  BY <1>1, <1>2 DEF IsImage
<1>4. \A v : OlderOf(id, v) => v < current'[id] /\ v \in VersionsOf(id)'
  BY DEF OlderOf, VersionsOf, Versions
<1>5. FormsAt(prepared[id])' \subseteq FormsAt(prepared[id])
  BY DEF FormsAt
<1>6. /\ \A b \in Buckets : prepared'[id][b] \in {0, current'[id]}
      /\ fields'[id] \in {0, current'[id]} /\ pictures'[id] \in {0, current'[id]}
      /\ fields'[id] # 0 => Offer(current[id])'.kind = "grid"
  BY <1>1, <1>2 DEF Fresh
<1>7. pictures'[id] # 0 \/ standPics'[id] # 0 => IsImage(current[id])'
  BY <1>3 DEF Fresh
<1>8. id \in fromMemory' \/ FormsAt(prepared[id])' # {} =>
          /\ current'[id] # 0 /\ Offer(current[id])'.kind = "shape"
          /\ \A b \in Buckets : stand'[id][b] = 0
  BY <1>1, <1>2, <1>5 DEF Fresh
<1>9. /\ \A b \in Buckets : stand'[id][b] # 0 => OlderOf(id, stand[id][b])'
      /\ standPics'[id] # 0 => OlderOf(id, standPics[id])'
      /\ \A v \in spare'[id] : OlderOf(id, v)'
  BY <1>4 DEF Fresh, OlderOf
<1>10. /\ \A u, v \in spare'[id] : u = v
       /\ spare'[id] # {} => pictures'[id] = 0
       /\ \A b, c \in Buckets : stand'[id][b] # 0 /\ stand'[id][c] # 0 => stand'[id][b] = stand'[id][c]
  BY DEF Fresh
<1> QED
  BY <1>6, <1>7, <1>8, <1>9, <1>10 DEF Fresh

\* What is not kept is not stale.
LEMMA EmptyIsFresh ==
    ASSUME NEW id \in Ids, \A b \in Buckets : prepared'[id][b] = 0 /\ stand'[id][b] = 0,
           fields'[id] = 0, pictures'[id] = 0, standPics'[id] = 0, spare'[id] = {},
           id \notin fromMemory'
    PROVE  Fresh(id)'
<1>1. FormsAt(prepared[id])' = {}
  BY DEF FormsAt
<1> QED
  BY <1>1 DEF Fresh

\* The version a job that is not retired has read is the one set.
LEMMA ReadIsSet ==
    ASSUME IInv, JobsKnow, NEW w \in Workers, job[w].stage = "reading", ~Retired(w)
    PROVE  /\ job[w].key \in Ids \X Buckets
           /\ job[w].of # 0 /\ job[w].of \in Versions
           /\ current[job[w].key[1]] = job[w].of
<1>1. job[w] \in Jobs /\ job[w].of # 0 /\ job[w].key \in Ids \X Buckets
  BY DEF IInv, HoldTypes, JobsKnow
<1>2. job[w].of \in Versions
  <2> DEFINE K == (Ids \X Buckets) \cup {<<>>}
  <2> HIDE DEF K
  <2>1. Jobs = [stage : {"idle", "taken", "reading", "read"}, key : K,
                of : Versions \cup {0}, off : BOOLEAN]
    BY DEF Jobs, K
  <2> QED
    BY <1>1, <2>1
<1>3. current[made[job[w].of].id] = job[w].of
  BY <1>2 DEF IInv, Retired
<1> QED
  BY <1>1, <1>2, <1>3 DEF JobsKnow

-----------------------------------------------------------------------------
\* The jobs know their overlays, whatever is handed in meanwhile.
LEMMA JobsStayKnown ==
    ASSUME IInv, JobsKnow,
           \A v \in Versions : v \in Versions' /\ made'[v] = made[v],
           \A w \in Workers :
              \/ job'[w].of = 0 /\ job'[w].stage # "reading"
              \/ /\ job'[w].of = job[w].of /\ job'[w].key = job[w].key
                 /\ job'[w].stage = "reading" => job[w].stage = "reading"
    PROVE  JobsKnow'
<1>1. \A w \in Workers : job[w].of \in Versions \cup {0}
  <2> SUFFICES ASSUME NEW w \in Workers PROVE job[w].of \in Versions \cup {0}
    OBVIOUS
  <2>1. job[w] \in Jobs
    BY DEF IInv, HoldTypes
  <2> DEFINE K == (Ids \X Buckets) \cup {<<>>}
  <2> HIDE DEF K
  <2>2. Jobs = [stage : {"idle", "taken", "reading", "read"}, key : K,
                of : Versions \cup {0}, off : BOOLEAN]
    BY DEF Jobs, K
  <2> QED
    BY <2>1, <2>2
<1> QED
  BY <1>1 DEF JobsKnow

\* Steps that leave what is kept, or drop the spare frames.
LEMMA KeptUntouched ==
    ASSUME IInv, KeptInv, JobsKnow',
           UNCHANGED <<made, current, prepared, stand, fromMemory, fields, pictures, standPics>>,
           spare' = spare \/ spare' = [id \in Ids |-> {}]
    PROVE  KeptInv'
<1>1. Tables'
  <2>1. spare' \in [Ids -> SUBSET Nat]
    BY DEF KeptInv, Tables
  <2> QED
    BY <2>1 DEF KeptInv, Tables
<1>2. \A v \in Versions : v \in Versions' /\ made'[v] = made[v]
  BY DEF Versions
<1>3. ASSUME NEW id \in Ids PROVE Fresh(id)'
  <2>1. spare'[id] \subseteq spare[id]
    OBVIOUS
  <2>2. Fresh(id)
    BY DEF KeptInv
  <2> QED
    BY <1>2, <2>1, <2>2, FreshStays
<1> QED
  BY <1>1, <1>3 DEF KeptInv

LEMMA HostKept ==
    ASSUME IInv, KeptInv,
           \/ \E id \in Ids : InUse(id)
           \/ DropSpares \/ RenderAsks \/ RenderAdds \/ RenderPicks \/ RenderDraws
           \/ Shed \/ UNCHANGED vars
    PROVE  KeptInv'
<1>1. /\ UNCHANGED <<made, current, prepared, stand, fromMemory, fields, pictures, standPics, job>>
      /\ spare' = spare \/ spare' = [id \in Ids |-> {}]
  BY DEF InUse, DropSpares, RenderAsks, RenderAdds, RenderPicks, RenderDraws, Shed,
         vars, store, cache, kept
<1>2. JobsKnow'
  BY <1>1 DEF KeptInv, JobsKnow
<1> QED
  BY <1>1, <1>2, KeptUntouched

LEMMA TakeKept ==
    ASSUME IInv, KeptInv, NEW w \in Workers, Take(w)
    PROVE  KeptInv'
<1>1. PICK key \in waiting :
         job' = [job EXCEPT ![w] = [stage |-> "taken", key |-> key, of |-> 0, off |-> FALSE]]
  BY DEF Take
<1>2. UNCHANGED <<made, current, prepared, stand, fromMemory, fields, pictures, standPics, spare>>
  BY DEF Take, store, cache, kept
<1> DEFINE j == [stage |-> "taken", key |-> key, of |-> 0, off |-> FALSE]
<1>3. j.of = 0 /\ j.stage # "reading"
  OBVIOUS
<1>4. \A x \in Workers : job'[x] = j \/ job'[x] = job[x]
  <2> HIDE DEF j
  <2>1. job' = [job EXCEPT ![w] = j]
    BY <1>1 DEF j
  <2> QED
    BY <2>1 DEF IInv, HoldTypes
<1>5. JobsKnow'
  <2> HIDE DEF j
  <2> QED
    BY <1>2, <1>3, <1>4 DEF KeptInv, JobsKnow
<1> QED
  BY <1>2, <1>5, KeptUntouched

LEMMA BeginKept ==
    ASSUME IInv, KeptInv, NEW w \in Workers, Begin(w)
    PROVE  KeptInv'
<1> DEFINE v == current[job[w].key[1]]
<1>1. /\ UNCHANGED <<made, current, prepared, stand, fromMemory, fields, pictures, standPics, spare>>
      /\ job[w].stage = "taken" /\ job[w].of = 0 /\ job[w].key[1] \in Ids
  BY DEF Begin, cache, kept, IInv
<1>2. CASE job[w].off \/ v = 0
  <2>1. job' = [job EXCEPT ![w].stage = "read"]
    BY <1>2 DEF Begin
  <2>2. \A x \in Workers : /\ job'[x].of = job[x].of /\ job'[x].key = job[x].key
                           /\ job'[x].stage = IF x = w THEN "read" ELSE job[x].stage
    BY <2>1, MoveStage DEF IInv, HoldTypes
  <2>3. JobsKnow'
    BY <1>1, <2>2 DEF KeptInv, JobsKnow
  <2> QED
    BY <1>1, <2>3, KeptUntouched
<1>3. CASE ~job[w].off /\ v # 0
  <2>1. job' = [job EXCEPT ![w].stage = "reading", ![w].of = v]
    BY <1>3 DEF Begin
  <2>2. v \in Versions /\ made[v].id = job[w].key[1]
    BY <1>1, <1>3 DEF IInv, HoldTypes
  <2>3. job \in [Workers -> Jobs]
    BY DEF IInv, HoldTypes
  <2>4. job' = [job EXCEPT ![w] = [job[w] EXCEPT !.stage = "reading", !.of = v]]
    BY <2>1
  <2> HIDE DEF v
  <2>5. \A x \in Workers :
           IF x = w THEN job'[x].of = v /\ job'[x].key = job[x].key ELSE job'[x] = job[x]
    <3>1. job[w] \in Jobs
      BY <2>3
    <3>2. /\ [job[w] EXCEPT !.stage = "reading", !.of = v].key = job[w].key
          /\ [job[w] EXCEPT !.stage = "reading", !.of = v].of = v
      BY <2>2, <3>1, JobBegins, Zenon
    <3> QED
      BY <2>3, <2>4, <3>2
  <2>6. JobsKnow'
    BY <1>1, <1>3, <2>2, <2>5 DEF KeptInv, JobsKnow
  <2> QED
    BY <1>1, <2>6, KeptUntouched
<1> QED
  BY <1>2, <1>3

LEMMA NothingKept ==
    ASSUME IInv, KeptInv, NEW w \in Workers,
           ReadNothing(w) \/ KeepRetired(w) \/ Done(w) \/ CallOff(w)
    PROVE  KeptInv'
<1>1. UNCHANGED <<made, current, prepared, stand, fromMemory, fields, pictures, standPics, spare>>
  BY DEF ReadNothing, KeepRetired, Done, CallOff, store, cache, kept
<1>2. job \in [Workers -> Jobs]
  BY DEF IInv, HoldTypes
<1>3. CASE ReadNothing(w) \/ KeepRetired(w)
  <2>1. job' = [job EXCEPT ![w].stage = "read"]
    BY <1>3 DEF ReadNothing, KeepRetired
  <2>2. \A x \in Workers : /\ job'[x].of = job[x].of /\ job'[x].key = job[x].key
                           /\ job'[x].stage = IF x = w THEN "read" ELSE job[x].stage
    BY <1>2, <2>1, MoveStage
  <2> QED
    BY <1>1, <2>2, KeptUntouched DEF KeptInv, JobsKnow
<1>4. CASE Done(w)
  <2>1. \A x \in Workers : job'[x] = Idle \/ job'[x] = job[x]
    BY <1>2, <1>4 DEF Done
  <2>2. Idle.of = 0 /\ Idle.stage # "reading"
    BY DEF Idle
  <2> QED
    BY <1>1, <2>1, <2>2, KeptUntouched DEF KeptInv, JobsKnow
<1>5. CASE CallOff(w)
  <2>1. job' = [job EXCEPT ![w] = [job[w] EXCEPT !.off = TRUE]]
    BY <1>5 DEF CallOff
  <2>2. /\ [job[w] EXCEPT !.off = TRUE].stage = job[w].stage
        /\ [job[w] EXCEPT !.off = TRUE].key = job[w].key
        /\ [job[w] EXCEPT !.off = TRUE].of = job[w].of
    <3>1. job[w] \in Jobs
      BY <1>2
    <3> QED
      BY <3>1, JobOff, Zenon
  <2>3. \A x \in Workers : /\ job'[x].of = job[x].of /\ job'[x].key = job[x].key
                           /\ job'[x].stage = job[x].stage
    BY <1>2, <2>1, <2>2
  <2> QED
    BY <1>1, <2>3, KeptUntouched DEF KeptInv, JobsKnow
<1> QED
  BY <1>3, <1>4, <1>5

\* A Render's note evicts forms, and calls jobs off.
LEMMA NotesKept ==
    ASSUME IInv, KeptInv, NEW b \in Buckets, RenderNotes(b)
    PROVE  KeptInv'
<1>1. /\ UNCHANGED <<made, current, stand, fromMemory, fields, pictures, standPics, spare>>
      /\ settleLocked(prepared, shapeHeld, used, b)
  BY DEF RenderNotes, store, kept
<1>2. \A w \in Workers : job'[w] = Dropped(job[w]) \/ job'[w] = job[w]
  BY DEF RenderNotes
<1>3. \A w \in Workers : /\ job'[w].of = job[w].of /\ job'[w].key = job[w].key
                         /\ job'[w].stage = job[w].stage
  <2> SUFFICES ASSUME NEW w \in Workers
               PROVE  /\ job'[w].of = job[w].of /\ job'[w].key = job[w].key
                      /\ job'[w].stage = job[w].stage
    OBVIOUS
  <2>1. job[w] \in Jobs
    BY DEF IInv, HoldTypes
  <2>2. /\ Dropped(job[w]).of = job[w].of
        /\ Dropped(job[w]).stage = job[w].stage /\ Dropped(job[w]).key = job[w].key
    BY <2>1, JobOff, Zenon DEF Dropped
  <2> QED
    BY <1>2, <2>2
<1>4. JobsKnow'
  BY <1>1, <1>3 DEF KeptInv, JobsKnow
<1>5. prepared' \in [Ids -> [Buckets -> Nat]]
  <2>1. prepared \in [Ids -> [Buckets -> Nat]]
    BY DEF KeptInv, Tables
  <2> QED
    BY <1>1, <2>1, EvictionOnlyDrops
<1>6. \A id \in Ids : \A c \in Buckets : prepared'[id][c] \in {0, prepared[id][c]}
  BY <1>1, EvictionOnlyDrops DEF KeptInv, Tables
<1>7. ASSUME NEW id \in Ids PROVE Fresh(id)'
  <2>1. \A v \in Versions : v \in Versions' /\ made'[v] = made[v]
    BY <1>1 DEF Versions
  <2>2. Fresh(id)
    BY DEF KeptInv
  <2> QED
    BY <1>1, <1>6, <2>1, <2>2, FreshStays
<1> QED
  BY <1>1, <1>4, <1>5, <1>7 DEF KeptInv, Tables

-----------------------------------------------------------------------------
\* What a hand-in leaves of the id's forms and pictures: they stand in, or go.
LEMMA StandInTables ==
    ASSUME Tables, NEW id \in Ids, NEW keep_, standInLocked(id, keep_)
    PROVE  LET stays == keep_ /\ FormsAt(prepared[id]) # {}
           IN  /\ stand' = [stand EXCEPT ![id] = IF stays THEN prepared[id] ELSE NoForms]
               /\ prepared' = [prepared EXCEPT ![id] = NoForms]
               /\ fields' = [fields EXCEPT ![id] = 0] /\ pictures' = [pictures EXCEPT ![id] = 0]
               /\ fromMemory' = fromMemory \ {id}
               /\ prepared' \in [Ids -> [Buckets -> Nat]] /\ stand' \in [Ids -> [Buckets -> Nat]]
               /\ fields' \in [Ids -> Nat] /\ pictures' \in [Ids -> Nat]
               /\ \A b \in Buckets : prepared'[id][b] = 0
<1> DEFINE stays == keep_ /\ FormsAt(prepared[id]) # {}
<1>1. /\ stand' = [stand EXCEPT ![id] = IF stays THEN prepared[id] ELSE NoForms]
      /\ prepared' = [prepared EXCEPT ![id] = NoForms]
      /\ fields' = [fields EXCEPT ![id] = 0] /\ pictures' = [pictures EXCEPT ![id] = 0]
      /\ fromMemory' = fromMemory \ {id}
  BY DEF standInLocked
<1>2. NoForms \in [Buckets -> Nat] /\ \A b \in Buckets : NoForms[b] = 0
  BY DEF NoForms
<1> HIDE DEF stays
<1>3. /\ prepared' \in [Ids -> [Buckets -> Nat]] /\ stand' \in [Ids -> [Buckets -> Nat]]
      /\ fields' \in [Ids -> Nat] /\ pictures' \in [Ids -> Nat]
      /\ \A b \in Buckets : prepared'[id][b] = 0
  BY <1>1, <1>2 DEF Tables
<1> QED
  BY <1>1, <1>3 DEF stays

LEMMA HandInKept ==
    ASSUME IInv, KeptInv, NEW id \in Ids, NEW o \in Offers, HandIn(id, o)
    PROVE  KeptInv'
<1> DEFINE n == Len(made) + 1
           v == current[id]
           stays == ~Indexed(o) /\ FormsAt(prepared[id]) # {}
<1>1. /\ HoldTypes /\ Tables /\ Fresh(id)
      /\ Versions = 1..Len(made) /\ Len(made) \in Nat /\ 0 \notin Versions
      /\ v \in Versions \cup {0} /\ (v # 0 => made[v].id = id)
  BY VersionNumbers DEF IInv, KeptInv, HoldTypes
<1>2. /\ Versions' = Versions \cup {n} /\ made'[n].id = id /\ made'[n].offer = o
      /\ \A u \in Versions : made'[u] = made[u]
  <2>1. made' = Append(made, [id |-> id, offer |-> o])
    BY DEF HandIn
  <2> DEFINE Entries == [id : Ids, offer : Offers]
             e == [id |-> id, offer |-> o]
  <2>2. made \in Seq(Entries) /\ e \in Entries /\ e.id = id /\ e.offer = o
    BY <1>1 DEF HoldTypes
  <2> HIDE DEF Entries, e
  <2>3. made' = Append(made, e)
    BY <2>1 DEF e
  <2> QED
    BY <1>1, <2>2, <2>3 DEF Versions
<1>3. /\ job' = job /\ current' = [current EXCEPT ![id] = n]
      /\ spareFramesLocked(id, o) /\ standPicturesLocked(id, o) /\ standInLocked(id, ~Indexed(o))
  BY DEF HandIn
<1>4. current'[id] = n /\ \A i \in Ids \ {id} : current'[i] = current[i]
  BY <1>1, <1>3 DEF HoldTypes
<1>5. /\ stand' = [stand EXCEPT ![id] = IF stays THEN prepared[id] ELSE NoForms]
      /\ prepared' = [prepared EXCEPT ![id] = NoForms]
      /\ fields' = [fields EXCEPT ![id] = 0] /\ pictures' = [pictures EXCEPT ![id] = 0]
      /\ fromMemory' = fromMemory \ {id}
      /\ prepared' \in [Ids -> [Buckets -> Nat]] /\ stand' \in [Ids -> [Buckets -> Nat]]
      /\ fields' \in [Ids -> Nat] /\ pictures' \in [Ids -> Nat]
      /\ \A b \in Buckets : prepared'[id][b] = 0
  BY <1>1, <1>3, StandInTables
<1>6. /\ spare' \in [Ids -> SUBSET Nat]
      /\ spare'[id] = IF o.kind # "loop" THEN {}
                      ELSE spare[id] \cup {u \in {pictures[id]} : IsLoop(u)}
      /\ \A i \in Ids \ {id} : spare'[i] = spare[i]
  BY <1>1, <1>3 DEF spareFramesLocked, Tables
<1>7. /\ standPics' \in [Ids -> Nat]
      /\ standPics'[id] = IF ~IsImage(v) \/ o.kind \notin {"image", "loop"} THEN 0
                          ELSE IF pictures[id] # 0 THEN pictures[id] ELSE standPics[id]
      /\ \A i \in Ids \ {id} : standPics'[i] = standPics[i]
  BY <1>1, <1>3 DEF standPicturesLocked, Tables
<1>8. JobsKnow'
  <2>1. \A u \in Versions : u \in Versions' /\ made'[u] = made[u]
    BY <1>2
  <2>2. \A w \in Workers : /\ job'[w].of = job[w].of /\ job'[w].key = job[w].key
                           /\ job'[w].stage = "reading" => job[w].stage = "reading"
    BY <1>3
  <2> QED
    BY <2>1, <2>2, JobsStayKnown DEF KeptInv
<1>9. Tables'
  BY <1>5, <1>6, <1>7 DEF Tables
<1>10. ASSUME NEW i \in Ids, i # id PROVE Fresh(i)'
  <2>1. \A u \in Versions : u \in Versions' /\ made'[u] = made[u]
    BY <1>2
  <2>2. /\ prepared'[i] = prepared[i] /\ stand'[i] = stand[i] /\ fields'[i] = fields[i]
        /\ pictures'[i] = pictures[i]
    BY <1>1, <1>5, <1>10 DEF Tables
  <2>3. i \in fromMemory' => i \in fromMemory
    BY <1>5
  <2> QED
    BY <1>4, <1>6, <1>7, <1>10, <2>1, <2>2, <2>3, FreshStays DEF KeptInv
<1>11. Fresh(id)'
  <2>1. v # 0 => v \in VersionsOf(id)' /\ v < current'[id]
    <3> SUFFICES ASSUME v # 0 PROVE v \in VersionsOf(id)' /\ v < current'[id]
      OBVIOUS
    <3>1. v \in Versions' /\ made'[v].id = id
      BY <1>1, <1>2
    <3>2. v < current'[id]
      BY <1>1, <1>4
    <3> QED
      BY <3>1, <3>2 DEF VersionsOf, Versions
  <2>2. \A u : OlderOf(id, u) => u \in VersionsOf(id)' /\ u < current'[id]
    BY <1>1, <1>2, <1>4 DEF OlderOf, VersionsOf, Versions
  <2>3. \A b \in Buckets : stand'[id][b] = IF stays THEN prepared[id][b] ELSE 0
    BY <1>1, <1>5 DEF Tables, NoForms
  <2> HIDE DEF stays
  <2>4. \A b \in Buckets : stand'[id][b] # 0 => stand'[id][b] = v /\ v # 0
    BY <1>1, <2>3 DEF Fresh
  <2>5. \A b \in Buckets : stand'[id][b] # 0 => OlderOf(id, stand[id][b])'
    BY <2>1, <2>4 DEF OlderOf
  <2>6. standPics'[id] # 0 => OlderOf(id, standPics[id])'
    <3>1. standPics'[id] \in {0, v} \/ (standPics'[id] = standPics[id] /\ OlderOf(id, standPics[id]))
      BY <1>1, <1>7 DEF Fresh
    <3> QED
      BY <2>1, <2>2, <3>1 DEF OlderOf
  <2>7. \A u \in spare'[id] : OlderOf(id, u)'
    <3> SUFFICES ASSUME NEW u \in spare'[id] PROVE OlderOf(id, u)'
      OBVIOUS
    <3>1. (u = pictures[id] /\ IsLoop(u)) \/ u \in spare[id]
      BY <1>6
    <3>2. (u = v /\ v # 0) \/ OlderOf(id, u)
      BY <1>1, <3>1 DEF Fresh, IsLoop
    <3> QED
      BY <2>1, <2>2, <3>2 DEF OlderOf
  <2>8. \A u, t \in spare'[id] : u = t
    <3>1. CASE pictures[id] = 0
      <4>1. spare'[id] \subseteq spare[id]
        BY <1>6, <3>1 DEF IsLoop
      <4> QED
        BY <1>1, <4>1 DEF Fresh
    <3>2. CASE pictures[id] # 0
      <4>1. spare[id] = {}
        BY <1>1, <3>2 DEF Fresh
      <4> QED
        BY <1>6, <4>1
    <3> QED
      BY <3>1, <3>2
  <2>9. standPics'[id] # 0 => IsImage(current[id])'
    <3>1. Offer(current[id])' = o
      BY <1>2, <1>4 DEF Offer
    <3>2. standPics'[id] # 0 => o.kind \in {"image", "loop"}
      BY <1>7
    <3> QED
      BY <1>1, <1>4, <3>1, <3>2 DEF IsImage
  <2>10. FormsAt(prepared[id])' = {} /\ id \notin fromMemory'
    BY <1>5 DEF FormsAt
  <2>11. fields'[id] = 0 /\ pictures'[id] = 0
    BY <1>1, <1>5 DEF Tables
  <2>12. \A b, c \in Buckets : stand'[id][b] # 0 /\ stand'[id][c] # 0 => stand'[id][b] = stand'[id][c]
    BY <2>4
  <2> QED
    BY <1>5, <2>5, <2>6, <2>7, <2>8, <2>9, <2>10, <2>11, <2>12 DEF Fresh
<1> QED
  BY <1>8, <1>9, <1>10, <1>11 DEF KeptInv

LEMMA DropKept ==
    ASSUME IInv, KeptInv, NEW id \in Ids, Drop(id)
    PROVE  KeptInv'
<1>1. /\ UNCHANGED <<made, job>> /\ current' = [current EXCEPT ![id] = 0]
      /\ spare' = [spare EXCEPT ![id] = {}] /\ standPics' = [standPics EXCEPT ![id] = 0]
      /\ standInLocked(id, FALSE)
  BY DEF Drop
<1>2. /\ stand' = [stand EXCEPT ![id] = NoForms]
      /\ prepared' = [prepared EXCEPT ![id] = NoForms]
      /\ fields' = [fields EXCEPT ![id] = 0] /\ pictures' = [pictures EXCEPT ![id] = 0]
      /\ fromMemory' = fromMemory \ {id}
      /\ prepared' \in [Ids -> [Buckets -> Nat]] /\ stand' \in [Ids -> [Buckets -> Nat]]
      /\ fields' \in [Ids -> Nat] /\ pictures' \in [Ids -> Nat]
      /\ \A b \in Buckets : prepared'[id][b] = 0
  BY <1>1, StandInTables DEF KeptInv
<1>3. Tables
  BY DEF KeptInv
<1>4. Tables'
  BY <1>1, <1>2, <1>3 DEF Tables
<1>5. JobsKnow'
  BY <1>1 DEF KeptInv, JobsKnow
<1>6. Fresh(id)'
  BY <1>1, <1>2, <1>3, EmptyIsFresh DEF Tables, NoForms
<1>7. ASSUME NEW i \in Ids, i # id PROVE Fresh(i)'
  <2>1. \A u \in Versions : u \in Versions' /\ made'[u] = made[u]
    BY <1>1 DEF Versions
  <2>2. /\ prepared'[i] = prepared[i] /\ stand'[i] = stand[i] /\ fields'[i] = fields[i]
        /\ pictures'[i] = pictures[i] /\ standPics'[i] = standPics[i] /\ spare'[i] = spare[i]
        /\ i \in fromMemory' => i \in fromMemory
    BY <1>1, <1>2, <1>3, <1>7 DEF Tables
  <2>3. current'[i] = current[i]
    BY <1>1, <1>7 DEF IInv, HoldTypes
  <2> QED
    BY <2>1, <2>2, <2>3, FreshStays DEF KeptInv
<1> QED
  BY <1>4, <1>5, <1>6, <1>7 DEF KeptInv

LEMMA CloseKept ==
    ASSUME IInv, KeptInv, Close
    PROVE  KeptInv'
<1>1. /\ made' = made /\ job' = [w \in Workers |-> Dropped(job[w])]
      /\ prepared' = [id \in Ids |-> NoForms] /\ stand' = [id \in Ids |-> NoForms]
      /\ fields' = [id \in Ids |-> 0] /\ pictures' = [id \in Ids |-> 0]
      /\ spare' = [id \in Ids |-> {}] /\ standPics' = [id \in Ids |-> 0] /\ fromMemory' = {}
  BY DEF Close
<1>2. \A w \in Workers : /\ job'[w].of = job[w].of /\ job'[w].key = job[w].key
                         /\ job'[w].stage = job[w].stage
  <2> SUFFICES ASSUME NEW w \in Workers
               PROVE  /\ job'[w].of = job[w].of /\ job'[w].key = job[w].key
                      /\ job'[w].stage = job[w].stage
    OBVIOUS
  <2>1. job[w] \in Jobs
    BY DEF IInv, HoldTypes
  <2>2. /\ Dropped(job[w]).of = job[w].of
        /\ Dropped(job[w]).stage = job[w].stage /\ Dropped(job[w]).key = job[w].key
    BY <2>1, JobOff, Zenon DEF Dropped
  <2> QED
    BY <1>1, <2>2
<1>3. JobsKnow'
  BY <1>1, <1>2 DEF KeptInv, JobsKnow
<1>4. Tables'
  BY <1>1 DEF Tables, NoForms
<1>5. ASSUME NEW id \in Ids PROVE Fresh(id)'
  BY <1>1, <1>5, EmptyIsFresh DEF NoForms
<1> QED
  BY <1>3, <1>4, <1>5 DEF KeptInv

-----------------------------------------------------------------------------
\* What a job hands over is of the version set, and of its kind.
LEMMA LandedKnown ==
    ASSUME IInv, JobsKnow, NEW w \in Workers, made' = made,
           job' = [job EXCEPT ![w].stage = "read"]
    PROVE  JobsKnow'
<1>1. \A x \in Workers : /\ job'[x].of = job[x].of /\ job'[x].key = job[x].key
                         /\ job'[x].stage = IF x = w THEN "read" ELSE job[x].stage
  BY MoveStage DEF IInv, HoldTypes
<1>2. \A v \in Versions : v \in Versions' /\ made'[v] = made[v]
  BY DEF Versions
<1> QED
  BY <1>1, <1>2, JobsStayKnown

\* The overlay, bucket and version of what a job hands over.
LEMMA LandsOn ==
    ASSUME IInv, KeptInv, NEW w \in Workers, job[w].stage = "reading", ~Retired(w)
    PROVE  \E id \in Ids, b \in Buckets, v \in Nat :
              /\ id = job[w].key[1] /\ b = job[w].key[2] /\ v = job[w].of
              /\ v # 0 /\ current[id] = v /\ Fresh(id)
<1>1. /\ job[w].key \in Ids \X Buckets /\ job[w].of \in Versions /\ job[w].of # 0
      /\ current[job[w].key[1]] = job[w].of
  BY ReadIsSet DEF KeptInv
<1>2. job[w].key[1] \in Ids /\ job[w].key[2] \in Buckets /\ job[w].of \in Nat
  BY <1>1, VersionNumbers DEF IInv
<1> QED
  BY <1>1, <1>2 DEF KeptInv

LEMMA PicturesKept ==
    ASSUME IInv, KeptInv, NEW w \in Workers, keepPictures(w)
    PROVE  KeptInv'
<1>1. PICK id \in Ids, b \in Buckets, v \in Nat :
         /\ id = job[w].key[1] /\ b = job[w].key[2] /\ v = job[w].of
         /\ v # 0 /\ current[id] = v /\ Fresh(id)
  BY LandsOn DEF keepPictures
<1>2. /\ IsImage(v)
      /\ pictures' = [pictures EXCEPT ![id] = v]
      /\ standPics' = [standPics EXCEPT ![id] = 0] /\ spare' = [spare EXCEPT ![id] = {}]
      /\ job' = [job EXCEPT ![w].stage = "read"]
      /\ UNCHANGED <<made, current, prepared, stand, fromMemory, fields>>
  BY <1>1 DEF keepPictures, Landed, store, cache
<1>3. Tables /\ Fresh(id)
  BY <1>1 DEF KeptInv
<1>4. JobsKnow'
  BY <1>2, LandedKnown DEF KeptInv
<1>5. Tables'
  BY <1>2, <1>1, <1>3 DEF Tables
<1>7. Fresh(id)'
  <2>1. pictures'[id] = v /\ standPics'[id] = 0 /\ spare'[id] = {}
    BY <1>2, <1>1, <1>3 DEF Tables
  <2>2. IsImage(current[id])'
    BY <1>2, <1>1 DEF IsImage, Offer
  <2>3. FormsAt(prepared[id])' = FormsAt(prepared[id]) /\ Offer(current[id])' = Offer(current[id])
    BY <1>2 DEF FormsAt, Offer
  <2>4. \A c \in Buckets : stand'[id][c] # 0 => OlderOf(id, stand[id][c])'
    BY <1>2, <1>3 DEF Fresh, OlderOf, VersionsOf
  <2> QED
    BY <1>2, <1>1, <1>3, <2>1, <2>2, <2>3, <2>4 DEF Fresh
<1>8. ASSUME NEW i \in Ids, i # id PROVE Fresh(i)'
  <2>1. \A u \in Versions : u \in Versions' /\ made'[u] = made[u]
    BY <1>2 DEF Versions
  <2>2. pictures'[i] = pictures[i] /\ standPics'[i] = standPics[i] /\ spare'[i] = spare[i]
    BY <1>2, <1>3, <1>8 DEF Tables
  <2> QED
    BY <1>2, <2>1, <2>2, FreshStays DEF KeptInv
<1> QED
  BY <1>4, <1>5, <1>7, <1>8 DEF KeptInv

LEMMA FieldKept ==
    ASSUME IInv, KeptInv, NEW w \in Workers, keepField(w)
    PROVE  KeptInv'
<1>1. PICK id \in Ids, b \in Buckets, v \in Nat :
         /\ id = job[w].key[1] /\ b = job[w].key[2] /\ v = job[w].of
         /\ v # 0 /\ current[id] = v /\ Fresh(id)
  BY LandsOn DEF keepField
<1>2. /\ Offer(v).kind = "grid"
      /\ fields' = [fields EXCEPT ![id] = v]
      /\ job' = [job EXCEPT ![w].stage = "read"]
      /\ UNCHANGED <<made, current, prepared, stand, fromMemory, pictures, standPics, spare>>
  BY <1>1 DEF keepField, Landed, store, cache
<1>3. Tables /\ Fresh(id)
  BY <1>1 DEF KeptInv
<1>4. JobsKnow'
  BY <1>2, LandedKnown DEF KeptInv
<1>5. Offer(current[id]).kind = "grid"
  BY <1>2, <1>1
<1>6. Tables'
  BY <1>2, <1>1, <1>3 DEF Tables
<1>7. Fresh(id)'
  <2>1. fields'[id] = v
    BY <1>2, <1>1, <1>3 DEF Tables
  <2>2. IsImage(current[id]) => IsImage(current[id])'
    BY <1>2, <1>1 DEF IsImage, Offer
  <2>3. FormsAt(prepared[id])' = FormsAt(prepared[id]) /\ Offer(current[id])' = Offer(current[id])
    BY <1>2 DEF FormsAt, Offer
  <2>4. /\ \A c \in Buckets : stand'[id][c] # 0 => OlderOf(id, stand[id][c])'
        /\ standPics'[id] # 0 => OlderOf(id, standPics[id])'
        /\ \A u \in spare'[id] : OlderOf(id, u)'
    BY <1>2, <1>3 DEF Fresh, OlderOf, VersionsOf
  <2> QED
    BY <1>2, <1>1, <1>3, <1>5, <2>1, <2>2, <2>3, <2>4 DEF Fresh
<1>8. ASSUME NEW i \in Ids, i # id PROVE Fresh(i)'
  <2>1. \A u \in Versions : u \in Versions' /\ made'[u] = made[u]
    BY <1>2 DEF Versions
  <2>2. fields'[i] = fields[i]
    BY <1>2, <1>3, <1>8 DEF Tables
  <2> QED
    BY <1>2, <2>1, <2>2, FreshStays DEF KeptInv
<1> QED
  BY <1>4, <1>6, <1>7, <1>8 DEF KeptInv

\* A form landed is held, or larger than the cap and drawn from memory; what
\* the cache evicts to hold it is forms only.
LEMMA FormKept ==
    ASSUME IInv, KeptInv, NEW w \in Workers, keep(w)
    PROVE  KeptInv'
<1>1. PICK id \in Ids, b \in Buckets, v \in Nat :
         /\ id = job[w].key[1] /\ b = job[w].key[2] /\ v = job[w].of
         /\ v # 0 /\ current[id] = v /\ Fresh(id)
  BY LandsOn DEF keep
<1> DEFINE grown == [prepared EXCEPT ![id][b] = v]
<1>2. /\ Offer(v).kind = "shape"
      /\ stand' = [stand EXCEPT ![id] = NoForms]
      /\ job' = [job EXCEPT ![w].stage = "read"]
      /\ UNCHANGED <<made, current, fields, pictures, standPics, spare>>
      /\ fromMemory' = fromMemory \/ fromMemory' = fromMemory \cup {id}
      /\ \/ prepared' = prepared
         \/ \E held, uses : settleLocked(grown, held, uses, bucket)
  BY <1>1 DEF keep, Landed, store, kept
<1>3. Tables /\ Fresh(id)
  BY <1>1 DEF KeptInv
<1>4. JobsKnow'
  BY <1>2, LandedKnown DEF KeptInv
<1>5. Offer(current[id]).kind = "shape"
  BY <1>2, <1>1
<1>6. /\ grown \in [Ids -> [Buckets -> Nat]]
      /\ \A i \in Ids : \A c \in Buckets : grown[i][c] = IF i = id /\ c = b THEN v ELSE prepared[i][c]
  BY <1>1, <1>3 DEF Tables
<1> HIDE DEF grown
<1>7. /\ prepared' \in [Ids -> [Buckets -> Nat]]
      /\ \A i \in Ids : \A c \in Buckets :
            \/ prepared'[i][c] \in {0, prepared[i][c]}
            \/ i = id /\ prepared'[i][c] = v
  <2>1. CASE prepared' = prepared
    BY <1>3, <2>1 DEF Tables
  <2>2. ASSUME NEW held, NEW uses, settleLocked(grown, held, uses, bucket)
        PROVE  /\ prepared' \in [Ids -> [Buckets -> Nat]]
               /\ \A i \in Ids : \A c \in Buckets : prepared'[i][c] \in {0, grown[i][c]}
    BY <1>6, <2>2, EvictionOnlyDrops
  <2> QED
    BY <1>2, <1>6, <2>1, <2>2
<1>8. stand' \in [Ids -> [Buckets -> Nat]] /\ \A c \in Buckets : stand'[id][c] = 0
  BY <1>2, <1>1, <1>3 DEF Tables, NoForms
<1>9. Tables'
  BY <1>2, <1>3, <1>7, <1>8 DEF Tables
<1>10. Fresh(id)'
  <2>1. IsImage(current[id]) => IsImage(current[id])'
    BY <1>2 DEF IsImage, Offer
  <2>2. Offer(current[id])' = Offer(current[id])
    BY <1>2 DEF Offer
  <2>3. /\ standPics'[id] # 0 => OlderOf(id, standPics[id])'
        /\ \A u \in spare'[id] : OlderOf(id, u)'
    BY <1>2, <1>3 DEF Fresh, OlderOf, VersionsOf
  <2>4. \A c \in Buckets : prepared'[id][c] \in {0, current'[id]}
    BY <1>2, <1>1, <1>3, <1>7 DEF Fresh
  <2> QED
    BY <1>2, <1>1, <1>3, <1>5, <1>8, <2>1, <2>2, <2>3, <2>4 DEF Fresh
<1>11. ASSUME NEW i \in Ids, i # id PROVE Fresh(i)'
  <2>1. \A u \in Versions : u \in Versions' /\ made'[u] = made[u]
    BY <1>2 DEF Versions
  <2>2. stand'[i] = stand[i] /\ (i \in fromMemory' => i \in fromMemory)
    BY <1>2, <1>3, <1>11 DEF Tables
  <2>3. \A c \in Buckets : prepared'[i][c] \in {0, prepared[i][c]}
    BY <1>7, <1>11
  <2> QED
    BY <1>2, <2>1, <2>2, <2>3, FreshStays DEF KeptInv
<1> QED
  BY <1>4, <1>9, <1>10, <1>11 DEF KeptInv

LEMMA InitKept == Init => KeptInv
<1> SUFFICES ASSUME Init PROVE KeptInv
  OBVIOUS
<1>1. JobsKnow
  BY DEF Init, Idle, JobsKnow
<1>2. Tables
  BY DEF Init, NoForms, Tables
<1>3. ASSUME NEW id \in Ids PROVE Fresh(id)
  <2>1. FormsAt(prepared[id]) = {}
    BY DEF Init, NoForms, FormsAt
  <2> QED
    BY <2>1 DEF Init, NoForms, Fresh
<1> QED
  BY <1>1, <1>2, <1>3 DEF KeptInv

LEMMA StepKept == IInv /\ KeptInv /\ [Next]_vars => KeptInv'
<1> SUFFICES ASSUME IInv, KeptInv, [Next]_vars PROVE KeptInv'
  OBVIOUS
<1>1. CASE \E id \in Ids, o \in Offers : HandIn(id, o)
  BY <1>1, HandInKept
<1>2. CASE \E id \in Ids : Drop(id) \/ InUse(id)
  BY <1>2, DropKept, HostKept
<1>3. CASE Close
  BY <1>3, CloseKept
<1>4. CASE \E b \in Buckets : RenderNotes(b)
  BY <1>4, NotesKept
<1>5. CASE \E w \in Workers : Work(w) \/ CallOff(w)
  BY <1>5, TakeKept, BeginKept, NothingKept, PicturesKept, FieldKept, FormKept DEF Work
<1>6. CASE DropSpares \/ RenderAsks \/ RenderAdds \/ RenderPicks \/ RenderDraws
           \/ Shed \/ UNCHANGED vars
  BY <1>6, HostKept
<1> QED
  BY <1>1, <1>2, <1>3, <1>4, <1>5, <1>6 DEF Next

\* The tables of what is kept, and Fresh of every overlay.
THEOREM KeptInvariant == Spec => []KeptInv
BY InitKept, StepKept, HoldsInvariant, PTL DEF Spec

\* What was prepared is of the version set now, however many jobs of versions
\* replaced land late; what stands in is of an older one of the same id; and
\* a refresh finds decoded frames of one version at most.
THEOREM KeptStaysCurrent == Spec => []KeptIsCurrent
<1>1. KeptInv => KeptIsCurrent
  <2> SUFFICES ASSUME KeptInv, NEW id \in Ids
               PROVE  /\ \A b \in Buckets : prepared[id][b] \in {0, current[id]}
                      /\ {fields[id], pictures[id]} \subseteq {0, current[id]}
                      /\ \A v \in {stand[id][b] : b \in Buckets} \cup {standPics[id]} \cup spare[id] :
                            v # 0 => v \in VersionsOf(id) /\ v < current[id]
                      /\ Cardinality(spare[id]) <= 1
    BY DEF KeptIsCurrent
  <2>1. Fresh(id)
    BY DEF KeptInv
  <2>2. Cardinality(spare[id]) <= 1
    <3>1. CASE spare[id] = {}
      BY <3>1, FS_EmptySet
    <3>2. CASE spare[id] # {}
      <4>1. PICK v \in spare[id] : spare[id] = {v}
        BY <2>1, <3>2 DEF Fresh
      <4>2. Cardinality({v}) = 1
        BY FS_Singleton
      <4> QED
        BY <4>1, <4>2
    <3> QED
      BY <3>1, <3>2
  <2> QED
    BY <2>1, <2>2 DEF Fresh, OlderOf
<1> QED
  BY <1>1, KeptInvariant, PTL

-----------------------------------------------------------------------------
(* From frame to frame.                                                    *)

\* A version drawn is not newer than any that may be drawn after it.
NotAfter(id, x) ==
    /\ x \in Nat /\ x <= Len(made)
    /\ current[id] # 0 => x <= current[id]
    /\ fields[id] = 0 /\ pictures[id] = 0 =>
          IF standPics[id] # 0 THEN x <= standPics[id]
          ELSE \A b \in Buckets : stand[id][b] # 0 => x <= stand[id][b]

FramesInOrder ==
    \A id \in Ids :
        /\ NotAfter(id, frame[id].of)
        /\ host = "picked" =>
              NotAfter(id, picked[id].of) /\ (picked[id] # Nothing => frame[id].of <= picked[id].of)

\* Steps that change nothing of an id, or give it a picture or field of its own.
LEMMA LaterHolds ==
    ASSUME NEW id \in Ids, NEW x, NotAfter(id, x), made' = made, current'[id] = current[id],
           \/ fields'[id] # 0 \/ pictures'[id] # 0
           \/ /\ fields'[id] = fields[id] /\ pictures'[id] = pictures[id]
              /\ standPics'[id] = standPics[id]
              /\ \A b \in Buckets : stand'[id][b] \in {0, stand[id][b]}
    PROVE  NotAfter(id, x)'
BY DEF NotAfter

LEMMA LaterHandedIn ==
    ASSUME IInv, KeptInv, NEW i \in Ids, NEW o \in Offers, HandIn(i, o),
           NEW id \in Ids, NEW x, NotAfter(id, x)
    PROVE  NotAfter(id, x)'
<1>1. HoldTypes /\ Tables /\ Fresh(i) /\ Versions = 1..Len(made) /\ Len(made) \in Nat
  BY VersionNumbers DEF IInv, KeptInv
<1>2. Len(made') = Len(made) + 1
  <2>1. made' = Append(made, [id |-> i, offer |-> o])
    BY DEF HandIn
  <2> DEFINE Entries == [id : Ids, offer : Offers]
             e == [id |-> i, offer |-> o]
  <2>2. made \in Seq(Entries) /\ e \in Entries
    BY <1>1 DEF HoldTypes
  <2> HIDE DEF Entries, e
  <2>3. made' = Append(made, e)
    BY <2>1 DEF e
  <2> QED
    BY <2>2, <2>3
<1>3. /\ current' = [current EXCEPT ![i] = Len(made) + 1]
      /\ standPicturesLocked(i, o) /\ standInLocked(i, ~Indexed(o))
  BY DEF HandIn
<1>4. CASE id # i
  <2>1. /\ current'[id] = current[id] /\ standPics'[id] = standPics[id]
    BY <1>1, <1>3, <1>4 DEF HoldTypes, Tables, standPicturesLocked
  <2>2. /\ stand'[id] = stand[id] /\ fields'[id] = fields[id] /\ pictures'[id] = pictures[id]
    BY <1>1, <1>3, <1>4 DEF Tables, standInLocked
  <2>3. x <= Len(made')
    BY <1>1, <1>2 DEF NotAfter
  <2> QED
    BY <2>1, <2>2, <2>3 DEF NotAfter
<1>5. CASE id = i
  <2>1. current'[id] = Len(made) + 1 /\ current[id] \in Versions \cup {0}
    BY <1>1, <1>3, <1>5 DEF HoldTypes
  <2>2. x \in Nat /\ x <= Len(made') /\ x <= current'[id]
    BY <1>1, <1>2, <2>1 DEF NotAfter
  <2>3. standPics'[id] # 0 => x <= standPics'[id]
    <3>1. standPics'[id] = IF ~IsImage(current[id]) \/ o.kind \notin {"image", "loop"} THEN 0
                           ELSE IF pictures[id] # 0 THEN pictures[id] ELSE standPics[id]
      BY <1>1, <1>3, <1>5 DEF Tables, standPicturesLocked
    <3>2. CASE standPics'[id] # 0 /\ pictures[id] # 0
      <4>1. standPics'[id] = current[id] /\ current[id] # 0
        BY <1>1, <1>5, <3>1, <3>2 DEF Fresh
      <4> QED
        BY <4>1 DEF NotAfter
    <3>3. CASE standPics'[id] # 0 /\ pictures[id] = 0
      <4>1. standPics'[id] = standPics[id] /\ IsImage(current[id]) /\ fields[id] = 0
        BY <1>1, <1>5, <3>1, <3>3 DEF Fresh, IsImage
      <4> QED
        BY <3>3, <4>1 DEF NotAfter
    <3> QED
      BY <3>2, <3>3
  <2>4. \A b \in Buckets : stand'[id][b] # 0 => x <= stand'[id][b]
    <3>1. \A b \in Buckets : stand'[id][b] \in {0, prepared[id][b]}
      BY <1>1, <1>3, <1>5 DEF Tables, standInLocked, NoForms
    <3>2. \A b \in Buckets : stand'[id][b] # 0 => stand'[id][b] = current[id] /\ current[id] # 0
      BY <1>1, <1>5, <3>1 DEF Fresh
    <3> QED
      BY <3>2 DEF NotAfter
  <2> QED
    BY <2>2, <2>3, <2>4 DEF NotAfter
<1> QED
  BY <1>4, <1>5

LEMMA LaterLands ==
    ASSUME IInv, KeptInv, NEW w \in Workers,
           keepPictures(w) \/ keepField(w) \/ keep(w),
           NEW id \in Ids, NEW x, NotAfter(id, x)
    PROVE  NotAfter(id, x)'
<1>1. PICK i \in Ids, b \in Buckets, v \in Nat :
         /\ i = job[w].key[1] /\ b = job[w].key[2] /\ v = job[w].of
         /\ v # 0 /\ current[i] = v /\ Fresh(i)
  BY LandsOn DEF keepPictures, keepField, keep
<1>2. made' = made /\ current' = current /\ Tables
  BY DEF keepPictures, keepField, keep, store, KeptInv
<1>3. CASE keepPictures(w)
  <2>1. /\ fields' = fields /\ stand' = stand
        /\ pictures' = [pictures EXCEPT ![i] = v] /\ standPics' = [standPics EXCEPT ![i] = 0]
    BY <1>1, <1>3 DEF keepPictures, cache
  <2>2. pictures'[id] # 0 \/ (pictures'[id] = pictures[id] /\ standPics'[id] = standPics[id])
    BY <1>1, <1>2, <2>1 DEF Tables
  <2> QED
    BY <1>2, <2>1, <2>2, LaterHolds
<1>4. CASE keepField(w)
  <2>1. /\ pictures' = pictures /\ stand' = stand /\ standPics' = standPics
        /\ fields' = [fields EXCEPT ![i] = v]
    BY <1>1, <1>4 DEF keepField, cache
  <2>2. fields'[id] # 0 \/ fields'[id] = fields[id]
    BY <1>1, <1>2, <2>1 DEF Tables
  <2> QED
    BY <1>2, <2>1, <2>2, LaterHolds
<1>5. CASE keep(w)
  <2>1. /\ pictures' = pictures /\ fields' = fields /\ standPics' = standPics
        /\ stand' = [stand EXCEPT ![i] = NoForms]
    BY <1>1, <1>5 DEF keep, kept
  <2>2. \A c \in Buckets : stand'[id][c] \in {0, stand[id][c]}
    BY <1>1, <1>2, <2>1 DEF Tables, NoForms
  <2> QED
    BY <1>2, <2>1, <2>2, LaterHolds
<1> QED
  BY <1>3, <1>4, <1>5

LEMMA LaterGone ==
    ASSUME IInv, KeptInv, Close \/ \E i \in Ids : Drop(i),
           NEW id \in Ids, NEW x, NotAfter(id, x)
    PROVE  NotAfter(id, x)'
<1>1. CASE Close
  BY <1>1 DEF Close, NoForms, NotAfter
<1>2. ASSUME NEW i \in Ids, Drop(i) PROVE NotAfter(id, x)'
  <2>1. /\ made' = made /\ current' = [current EXCEPT ![i] = 0]
        /\ standPics' = [standPics EXCEPT ![i] = 0] /\ standInLocked(i, FALSE)
    BY <1>2 DEF Drop
  <2>2. /\ stand' = [stand EXCEPT ![i] = NoForms]
        /\ fields' = [fields EXCEPT ![i] = 0] /\ pictures' = [pictures EXCEPT ![i] = 0]
    BY <2>1 DEF standInLocked
  <2>3. CASE id = i
    BY <2>1, <2>2, <2>3 DEF NotAfter, KeptInv, Tables, NoForms, IInv, HoldTypes
  <2>4. CASE id # i
    <3>1. /\ current'[id] = current[id] /\ standPics'[id] = standPics[id]
          /\ stand'[id] = stand[id] /\ fields'[id] = fields[id] /\ pictures'[id] = pictures[id]
      BY <2>1, <2>2, <2>4 DEF KeptInv, Tables, IInv, HoldTypes
    <3> QED
      BY <2>1, <3>1 DEF NotAfter
  <2> QED
    BY <2>3, <2>4
<1> QED
  BY <1>1, <1>2

LEMMA LaterStays ==
    ASSUME IInv, KeptInv, [Next]_vars, NEW id \in Ids, NEW x, NotAfter(id, x)
    PROVE  NotAfter(id, x)'
<1>1. CASE \E i \in Ids, o \in Offers : HandIn(i, o)
  BY <1>1, LaterHandedIn
<1>2. CASE Close \/ \E i \in Ids : Drop(i)
  BY <1>2, LaterGone
<1>3. CASE \E w \in Workers : keepPictures(w) \/ keepField(w) \/ keep(w)
  BY <1>3, LaterLands
<1>4. CASE \/ \E i \in Ids : InUse(i)
           \/ DropSpares \/ RenderAsks \/ RenderAdds \/ RenderPicks \/ RenderDraws
           \/ \E b \in Buckets : RenderNotes(b)
           \/ Shed \/ UNCHANGED vars
  <2>1. UNCHANGED <<made, current, stand, fields, pictures, standPics>>
    BY <1>4 DEF InUse, DropSpares, RenderAsks, RenderAdds, RenderPicks, RenderDraws, RenderNotes,
                Shed, vars, store, cache, kept
  <2> QED
    BY <2>1, LaterHolds
<1>5. CASE \E w \in Workers : \/ Take(w) \/ Begin(w) \/ ReadNothing(w) \/ KeepRetired(w)
                              \/ Done(w) \/ CallOff(w)
  <2>1. UNCHANGED <<made, current, stand, fields, pictures, standPics>>
    BY <1>5 DEF Take, Begin, ReadNothing, KeepRetired, Done, CallOff, store, cache, kept
  <2> QED
    BY <2>1, LaterHolds
<1> QED
  BY <1>1, <1>2, <1>3, <1>4, <1>5 DEF Next, Work

-----------------------------------------------------------------------------
\* What an overlay would be drawn from is of no older version than what is
\* drawn, and what may be drawn later of none older than that.
LEMMA LookIsNext ==
    ASSUME IInv, KeptInv, NEW id \in Ids, bucket \in Buckets, NEW x, NotAfter(id, x)
    PROVE  NotAfter(id, Look(id).of) /\ (Look(id) # Nothing => x <= Look(id).of)
<1>1. /\ Tables /\ Fresh(id) /\ current[id] \in Nat /\ Len(made) \in Nat
      /\ current[id] <= Len(made)
  BY VersionNumbers DEF IInv, HoldTypes, KeptInv
<1>2. NotAfter(id, 0) /\ Nothing.of = 0
  BY <1>1 DEF NotAfter, Nothing, Tables
<1>3. Buckets \subseteq Nat
  BY OverlayAssumption DEF OverlayAssumption
<1>4. CASE current[id] = 0
  BY <1>2, <1>4 DEF Look
<1>5. CASE current[id] # 0 /\ fields[id] # 0
  <2>1. Look(id).of = current[id]
    BY <1>1, <1>5 DEF Look, Fresh
  <2> QED
    BY <1>1, <1>5, <2>1 DEF NotAfter
<1>6. CASE current[id] # 0 /\ fields[id] = 0 /\ pictures[id] # 0
  <2>1. RasterAt(id).path = "picture" /\ RasterAt(id).of = current[id]
    BY <1>1, <1>6 DEF RasterAt, Fresh
  <2>2. Look(id) = RasterAt(id)
    BY <1>6, <2>1 DEF Look, Nothing
  <2> QED
    BY <1>1, <1>6, <2>1, <2>2 DEF NotAfter
<1>7. CASE current[id] # 0 /\ fields[id] = 0 /\ pictures[id] = 0 /\ standPics[id] # 0
  <2>1. RasterAt(id).path = "picture" /\ RasterAt(id).of = standPics[id]
    BY <1>7 DEF RasterAt
  <2>2. Look(id) = RasterAt(id)
    BY <1>7, <2>1 DEF Look, Nothing
  <2>3. standPics[id] \in Nat /\ standPics[id] < current[id] /\ x <= standPics[id]
    BY <1>1, <1>7 DEF Fresh, OlderOf, NotAfter, Tables
  <2> QED
    BY <1>1, <1>7, <2>1, <2>2, <2>3 DEF NotAfter
<1>8. CASE current[id] # 0 /\ fields[id] = 0 /\ pictures[id] = 0 /\ standPics[id] = 0
  <2> DEFINE own == FormsAt(prepared[id])
             old == FormsAt(stand[id])
  <2>1. RasterAt(id) = Nothing /\ Look(id) = Drawn(id)
    BY <1>8 DEF RasterAt, Look
  <2>2. own \subseteq Buckets /\ old \subseteq Buckets /\ bucket \in Nat
    BY <1>3 DEF FormsAt
  <2>3. CASE own # {} \/ id \in fromMemory
    <3>1. \A b \in Buckets : stand[id][b] = 0
      BY <1>1, <2>3 DEF Fresh
    <3>2. Drawn(id).of = current[id]
      <4>1. CASE own # {}
        <5>1. Nearest(bucket, own) \in own
          BY <1>3, <2>2, <4>1, NearestIsOne
        <5>2. Drawn(id).of = prepared[id][Nearest(bucket, own)]
          BY <4>1 DEF Drawn
        <5> QED
          BY <1>1, <5>1, <5>2 DEF FormsAt, Fresh
      <4>2. CASE own = {} /\ id \in fromMemory
        BY <4>2 DEF Drawn
      <4> QED
        BY <2>3, <4>1, <4>2
    <3> QED
      BY <1>1, <1>8, <2>1, <3>1, <3>2 DEF NotAfter
  <2>4. CASE own = {} /\ id \notin fromMemory /\ old # {}
    <3>1. PICK b \in old : b = Nearest(bucket, old)
      BY <1>3, <2>2, <2>4, NearestIsOne
    <3>2. Drawn(id).of = stand[id][b]
      BY <2>4, <3>1 DEF Drawn
    <3>3. b \in Buckets /\ stand[id][b] # 0 /\ stand[id][b] \in Nat /\ stand[id][b] < current[id]
      BY <1>1, <3>1 DEF FormsAt, Fresh, OlderOf, Tables
    <3>4. \A c \in Buckets : stand[id][c] # 0 => stand[id][c] = stand[id][b]
      BY <1>1, <3>3 DEF Fresh
    <3> QED
      BY <1>1, <1>8, <2>1, <3>2, <3>3, <3>4 DEF NotAfter
  <2>5. CASE own = {} /\ id \notin fromMemory /\ old = {}
    <3>1. Drawn(id) = Nothing
      BY <2>5 DEF Drawn
    <3> QED
      BY <1>2, <2>1, <3>1
  <2> QED
    BY <2>3, <2>4, <2>5
<1> QED
  BY <1>4, <1>5, <1>6, <1>7, <1>8

\* Only a Render's own steps change what is shown and what is picked.
LEMMA FrameSteps ==
    ASSUME [Next]_vars
    PROVE  \/ frame' = frame /\ picked' = picked /\ (host' = "picked" => host = "picked")
           \/ RenderPicks \/ RenderDraws
<1>1. CASE \E id \in Ids, o \in Offers : HandIn(id, o)
  BY <1>1 DEF HandIn, drawn
<1>2. CASE \E id \in Ids : Drop(id) \/ InUse(id)
  BY <1>2 DEF Drop, InUse, drawn
<1>3. CASE DropSpares \/ Close \/ Shed \/ UNCHANGED vars
  BY <1>3 DEF DropSpares, Close, Shed, drawn, vars
<1>4. CASE (\E b \in Buckets : RenderNotes(b)) \/ RenderAsks \/ RenderAdds
  BY <1>4 DEF RenderNotes, RenderAsks, RenderAdds
<1>5. CASE \E w \in Workers : Work(w) \/ CallOff(w)
  BY <1>5, ZenonT(40) DEF Work, Take, Begin, ReadNothing, KeepRetired, keepPictures, keepField, keep,
              Done, CallOff, drawn
<1> QED
  BY <1>1, <1>2, <1>3, <1>4, <1>5 DEF Next

LEMMA StepInOrder ==
    ASSUME IInv, Asked, KeptInv, FramesInOrder, [Next]_vars
    PROVE  FramesInOrder'
<1>1. \A id \in Ids : \A x : NotAfter(id, x) => NotAfter(id, x)'
  BY LaterStays
<1>2. ASSUME NEW id \in Ids
      PROVE  /\ NotAfter(id, frame[id].of)'
             /\ host' = "picked" =>
                  /\ NotAfter(id, picked[id].of)'
                  /\ picked'[id] # Nothing => frame'[id].of <= picked'[id].of
  <2>1. NotAfter(id, frame[id].of)
    BY DEF FramesInOrder
  <2>2. CASE frame' = frame /\ picked' = picked /\ (host' = "picked" => host = "picked")
    BY <1>1, <2>1, <2>2 DEF FramesInOrder, NotAfter
  <2>3. CASE RenderPicks
    <3>1. frame' = frame /\ picked'[id] = Look(id) /\ bucket \in Buckets
      BY <2>3 DEF RenderPicks, Asked
    <3>2. PICK x : x = Look(id).of
      OBVIOUS
    <3>3. NotAfter(id, x) /\ (Look(id) # Nothing => frame[id].of <= x)
      BY <2>1, <3>1, <3>2, LookIsNext
    <3>4. NotAfter(id, x)'
      BY <1>1, <3>3
    <3>5. picked'[id].of = x
      BY <3>1, <3>2
    <3>6. NotAfter(id, frame[id].of)'
      BY <1>1, <2>1, <3>1 DEF NotAfter
    <3> QED
      BY <3>1, <3>3, <3>4, <3>5, <3>6 DEF NotAfter
  <2>4. CASE RenderDraws
    <3>1. host' = "out" /\ host = "picked" /\ (frame' = frame \/ frame' = picked)
      BY <2>4 DEF RenderDraws
    <3> QED
      BY <1>1, <2>1, <3>1 DEF FramesInOrder, NotAfter
  <2> QED
    BY <2>2, <2>3, <2>4, FrameSteps
<1> QED
  BY <1>2 DEF FramesInOrder

\* The frame drawn is of no older version than the one before it.
LEMMA StepGoesForward ==
    ASSUME FramesInOrder, [Next]_vars, NEW id \in Ids, frame'[id] # Nothing
    PROVE  frame[id].of <= frame'[id].of
<1>1. frame[id].of \in Nat
  BY DEF FramesInOrder, NotAfter
<1>2. frame' = frame \/ (host = "picked" /\ frame' = picked)
  BY FrameSteps DEF RenderPicks, RenderDraws
<1> QED
  BY <1>1, <1>2 DEF FramesInOrder

\* An overlay handed in again over a picture, or over a form of its own.
LEMMA StepStaysDrawn ==
    ASSUME IInv, KeptInv, [Next]_vars, NEW id \in Ids,
           current[id] # 0, current'[id] # 0, current'[id] # current[id],
           \/ RasterAt(id) # Nothing /\ made'[current'[id]].offer.kind \in {"image", "loop"}
           \/ /\ FormsAt(prepared[id]) # {} /\ made'[current'[id]].offer.kind = "shape"
              /\ ~Indexed(made'[current'[id]].offer)
    PROVE  Look(id)' # Nothing
<1>1. PICK i \in Ids, o \in Offers : HandIn(i, o)
  <2>1. CASE \E i \in Ids : Drop(i)
    BY <2>1 DEF Drop, IInv, HoldTypes
  <2>2. CASE Close
    BY <2>2 DEF Close
  <2>3. CASE \/ \E i \in Ids : InUse(i)
             \/ DropSpares \/ RenderAsks \/ RenderAdds \/ RenderPicks \/ RenderDraws
             \/ \E b \in Buckets : RenderNotes(b)
             \/ Shed \/ UNCHANGED vars
    BY <2>3 DEF InUse, DropSpares, RenderAsks, RenderAdds, RenderPicks, RenderDraws, RenderNotes,
                Shed, vars, store
  <2>4. CASE \E w \in Workers : Work(w) \/ CallOff(w)
    BY <2>4 DEF Work, Take, Begin, ReadNothing, KeepRetired, keepPictures, keepField, keep,
                Done, CallOff, store
  <2> QED
    BY <2>1, <2>2, <2>3, <2>4 DEF Next
<1>2. /\ HoldTypes /\ Tables /\ Fresh(id)
      /\ current' = [current EXCEPT ![i] = Len(made) + 1]
      /\ standPicturesLocked(i, o) /\ standInLocked(i, ~Indexed(o))
  BY <1>1 DEF HandIn, IInv, KeptInv
<1>3. i = id /\ current'[id] = Len(made) + 1
  BY <1>2 DEF HoldTypes
<1>4. made'[current'[id]].offer = o
  <2>1. made' = Append(made, [id |-> i, offer |-> o])
    BY <1>1 DEF HandIn
  <2> DEFINE Entries == [id : Ids, offer : Offers]
             e == [id |-> i, offer |-> o]
  <2>2. made \in Seq(Entries) /\ e \in Entries /\ e.offer = o
    BY <1>2 DEF HoldTypes
  <2> HIDE DEF Entries, e
  <2>3. made' = Append(made, e)
    BY <2>1 DEF e
  <2> QED
    BY <1>3, <2>2, <2>3
<1>5. /\ fields'[id] = 0 /\ pictures'[id] = 0 /\ id \notin fromMemory'
      /\ FormsAt(prepared[id])' = {}
  BY <1>2, <1>3 DEF standInLocked, Tables, NoForms, FormsAt
<1>6. standPics'[id] = IF ~IsImage(current[id]) \/ o.kind \notin {"image", "loop"} THEN 0
                       ELSE IF pictures[id] # 0 THEN pictures[id] ELSE standPics[id]
  BY <1>2, <1>3 DEF Tables, standPicturesLocked
<1>7. CASE RasterAt(id) # Nothing /\ o.kind \in {"image", "loop"}
  <2>1. pictures[id] # 0 \/ standPics[id] # 0
    BY <1>7 DEF RasterAt
  <2>2. standPics'[id] # 0
    BY <1>2, <1>6, <1>7, <2>1 DEF Fresh
  <2>3. RasterAt(id)'.path = "picture"
    BY <1>5, <2>2 DEF RasterAt
  <2> QED
    BY <1>5, <2>3 DEF Look, Nothing
<1>8. CASE FormsAt(prepared[id]) # {} /\ o.kind = "shape" /\ ~Indexed(o)
  <2>1. standPics'[id] = 0
    BY <1>6, <1>8
  <2>2. stand'[id] = prepared[id]
    BY <1>2, <1>3, <1>8 DEF standInLocked, Tables
  <2>3. FormsAt(stand[id])' # {}
    BY <1>8, <2>2 DEF FormsAt
  <2>4. RasterAt(id)' = Nothing' /\ Drawn(id)'.path = "stand"
    BY <1>5, <2>1, <2>3 DEF RasterAt, Drawn
  <2>5. Look(id)' = Drawn(id)'
    BY <1>5, <2>4 DEF Look
  <2> QED
    BY <2>4, <2>5 DEF Nothing
<1> QED
  BY <1>4, <1>7, <1>8

\* No frame shows an older version than the one before it, and an overlay
\* handed in again over its picture or its form stays drawn, wherever jobs of
\* versions replaced land and however often it is handed in.
THEOREM FramesGoForward == Spec => FramesOnlyImprove
<1>1. Init => FramesInOrder
  BY DEF Init, FramesInOrder, NotAfter, Nothing, NoForms
<1>2. Spec => []Asked
  <2>1. Init => Asked
    BY DEF Init, Asked
  <2> QED
    BY <2>1, AskedStays, PTL DEF Spec
<1>3. Spec => []FramesInOrder
  BY <1>1, <1>2, StepInOrder, HoldsInvariant, KeptInvariant, PTL DEF Spec
<1>4. FramesInOrder /\ [Next]_vars =>
         [\A id \in Ids : frame'[id] # Nothing => frame[id].of <= frame'[id].of]_vars
  BY StepGoesForward
<1>5. IInv /\ KeptInv /\ [Next]_vars =>
         [\A id \in Ids :
            LET v == current[id]
                n == current'[id]
            IN  v # 0 /\ n # 0 /\ n # v /\ Look(id) # Nothing
                /\ \/ RasterAt(id) # Nothing /\ made'[n].offer.kind \in {"image", "loop"}
                   \/ FormsAt(prepared[id]) # {} /\ made'[n].offer.kind = "shape" /\ ~Indexed(made'[n].offer)
                => Look(id)' # Nothing]_vars
  BY StepStaysDrawn
<1>6. Spec => NeverGoesBack
  BY <1>3, <1>4, PTL DEF Spec, NeverGoesBack
<1>7. Spec => HandedInAgainStaysDrawn
  BY <1>5, HoldsInvariant, KeptInvariant, PTL DEF Spec, HandedInAgainStaysDrawn
<1> QED
  BY <1>6, <1>7 DEF FramesOnlyImprove

-----------------------------------------------------------------------------
(* What the caps are held by.                                              *)

\* The bytes of each form, by the versions M there are.
Weights(M, form) == [e \in Ids \X Buckets |-> M[form[e[1]][e[2]]].offer.form[e[2]]]

\* The bytes of the forms of some ids.
Part(M, form, ids) == SumOf(Weights(M, form), FormsOf(form, ids))

FormsAreOf(M, form) == form \in [Ids -> [Buckets -> DOMAIN M \cup {0}]]

MadeBy(M) == M \in Seq([id : Ids, offer : Offers])

LEMMA OffersWeigh ==
    ASSUME NEW M, MadeBy(M), NEW v \in DOMAIN M, NEW b \in Buckets
    PROVE  /\ M[v].offer.form[b] \in Nat /\ M[v].offer.vertices \in Nat
           /\ v \in Nat /\ v # 0
<1> DEFINE Made == [id : Ids, offer : Offers]
<1>0. M \in Seq(Made)
  BY DEF MadeBy
<1> HIDE DEF Made
<1>1. v \in 1 .. Len(M) /\ M[v] \in Made
  BY <1>0
<1>2. M[v].offer \in Offers
  BY <1>1 DEF Made
<1>3. M[v].offer.form \in [Buckets -> Nat] /\ M[v].offer.vertices \in Nat
  BY <1>2, OverlayAssumption DEF OverlayAssumption
<1> QED
  BY <1>1, <1>3

LEMMA FormsAreFinite ==
    ASSUME NEW form, NEW ids \in SUBSET Ids
    PROVE  /\ IsFiniteSet(FormsOf(form, ids))
           /\ FormsOf(form, ids) \subseteq Ids \X Buckets
<1>1. IsFiniteSet(Ids \X Buckets)
  BY OverlayAssumption, FS_Product DEF OverlayAssumption
<1>2. FormsOf(form, ids) \subseteq Ids \X Buckets
  BY DEF FormsOf
<1> QED
  BY <1>1, <1>2, FS_Subset

LEMMA WeightIs ==
    ASSUME NEW M, NEW form, NEW e \in Ids \X Buckets
    PROVE  Weights(M, form)[e] = M[form[e[1]][e[2]]].offer.form[e[2]]
BY DEF Weights

LEMMA WeightsAreNumbers ==
    ASSUME NEW M, MadeBy(M), NEW form, FormsAreOf(M, form)
    PROVE  \A e \in FormsOf(form, Ids) :
              Weights(M, form)[e] \in Nat /\ Weights(M, form)[e] \in Int
<1> SUFFICES ASSUME NEW e \in FormsOf(form, Ids)
             PROVE  Weights(M, form)[e] \in Nat
  OBVIOUS
<1>1. /\ e \in Ids \X Buckets /\ e[1] \in Ids /\ e[2] \in Buckets
      /\ form[e[1]][e[2]] \in DOMAIN M
  BY DEF FormsOf, FormsAreOf
<1>2. Weights(M, form)[e] = M[form[e[1]][e[2]]].offer.form[e[2]]
  BY <1>1, WeightIs
<1> QED
  BY <1>1, <1>2, OffersWeigh

LEMMA PartIsNatural ==
    ASSUME NEW M, MadeBy(M), NEW form, FormsAreOf(M, form), NEW ids \in SUBSET Ids
    PROVE  Part(M, form, ids) \in Nat
<1>1. FormsOf(form, ids) \subseteq FormsOf(form, Ids)
  BY DEF FormsOf
<1> QED
  BY <1>1, FormsAreFinite, WeightsAreNumbers, SumIsNatural DEF Part

LEMMA PartSplits ==
    ASSUME NEW M, MadeBy(M), NEW form, FormsAreOf(M, form), NEW id \in Ids
    PROVE  Part(M, form, Ids) = Part(M, form, {id}) + Part(M, form, Ids \ {id})
<1>1. /\ FormsOf(form, {id}) \subseteq FormsOf(form, Ids)
      /\ FormsOf(form, Ids \ {id}) = FormsOf(form, Ids) \ FormsOf(form, {id})
  BY DEF FormsOf
<1>2. IsFiniteSet(FormsOf(form, Ids))
  BY FormsAreFinite
<1>3. \A e \in FormsOf(form, Ids) : Weights(M, form)[e] \in Int
  BY WeightsAreNumbers
<1>4. SumOf(Weights(M, form), FormsOf(form, Ids))
        = SumOf(Weights(M, form), FormsOf(form, {id}))
          + SumOf(Weights(M, form), FormsOf(form, Ids) \ FormsOf(form, {id}))
  BY <1>1, <1>2, <1>3, SumSplits
<1> QED
  BY <1>1, <1>4 DEF Part

\* Forms of the same versions have the same bytes.
LEMMA PartsOfSame ==
    ASSUME NEW M, MadeBy(M), NEW form, FormsAreOf(M, form),
           NEW N, MadeBy(N), NEW other, FormsAreOf(N, other), NEW ids \in SUBSET Ids,
           \A id \in ids : \A b \in Buckets :
              /\ other[id][b] = form[id][b]
              /\ form[id][b] # 0 => N[form[id][b]] = M[form[id][b]]
    PROVE  Part(N, other, ids) = Part(M, form, ids)
<1>1. FormsOf(other, ids) = FormsOf(form, ids)
  BY DEF FormsOf
<1>2. /\ FormsOf(form, ids) \subseteq FormsOf(form, Ids)
      /\ FormsOf(other, ids) \subseteq FormsOf(other, Ids)
  BY DEF FormsOf
<1>3. ASSUME NEW e \in FormsOf(form, ids) PROVE Weights(N, other)[e] = Weights(M, form)[e]
  <2> e \in Ids \X Buckets
    BY FormsAreFinite
  <2>1. /\ Weights(M, form)[e] = M[form[e[1]][e[2]]].offer.form[e[2]]
        /\ Weights(N, other)[e] = N[other[e[1]][e[2]]].offer.form[e[2]]
    BY WeightIs
  <2>2. e[1] \in ids /\ e[2] \in Buckets /\ form[e[1]][e[2]] # 0
    BY DEF FormsOf
  <2> QED
    BY <2>1, <2>2
<1>4. IsFiniteSet(FormsOf(form, ids))
  BY FormsAreFinite
<1> QED
  BY <1>1, <1>3, <1>4, SumsOfSame DEF Part

LEMMA PartOfNone ==
    ASSUME NEW M, NEW form, NEW ids, \A id \in ids : \A b \in Buckets : form[id][b] = 0
    PROVE  Part(M, form, ids) = 0
<1>1. FormsOf(form, ids) = {}
  BY DEF FormsOf
<1> QED
  BY <1>1, SumOfNone DEF Part

\* What is shed is taken off the bytes.
LEMMA PartWithout ==
    ASSUME NEW M, MadeBy(M), NEW form, FormsAreOf(M, form), NEW shed \in SUBSET FormsOf(form, Ids),
           NEW left, left = [id \in Ids |-> [b \in Buckets |->
                               IF <<id, b>> \in shed THEN 0 ELSE form[id][b]]]
    PROVE  /\ FormsAreOf(M, left)
           /\ Part(M, left, Ids) = Part(M, form, Ids) - SumOf(Weights(M, form), shed)
           /\ SumOf(Weights(M, form), shed) \in Nat
<1>1. FormsAreOf(M, left)
  BY DEF FormsAreOf
<1>2. FormsOf(left, Ids) = FormsOf(form, Ids) \ shed
  BY DEF FormsOf, FormsAreOf
<1>3. ASSUME NEW e \in FormsOf(left, Ids) PROVE Weights(M, left)[e] = Weights(M, form)[e]
  <2> e \in Ids \X Buckets
    BY FormsAreFinite
  <2>1. /\ Weights(M, form)[e] = M[form[e[1]][e[2]]].offer.form[e[2]]
        /\ Weights(M, left)[e] = M[left[e[1]][e[2]]].offer.form[e[2]]
    BY WeightIs
  <2>2. e \in Ids \X Buckets /\ e \notin shed
    BY <1>2 DEF FormsOf
  <2>3. left[e[1]][e[2]] = form[e[1]][e[2]]
    BY <2>2
  <2> QED
    BY <2>1, <2>3
<1>4. IsFiniteSet(FormsOf(form, Ids)) /\ IsFiniteSet(FormsOf(left, Ids)) /\ IsFiniteSet(shed)
  BY FormsAreFinite, FS_Subset
<1>5. SumOf(Weights(M, left), FormsOf(left, Ids)) = SumOf(Weights(M, form), FormsOf(left, Ids))
  BY <1>3, <1>4, SumsOfSame
<1>6. SumOf(Weights(M, form), FormsOf(form, Ids))
        = SumOf(Weights(M, form), shed) + SumOf(Weights(M, form), FormsOf(left, Ids))
  BY <1>2, <1>4, WeightsAreNumbers, SumSplits
<1>7. SumOf(Weights(M, form), shed) \in Nat /\ SumOf(Weights(M, form), FormsOf(left, Ids)) \in Nat
  BY <1>2, <1>4, WeightsAreNumbers, SumIsNatural
<1> QED
  BY <1>1, <1>5, <1>6, <1>7 DEF Part

\* A form put at a bucket changes the bytes by its own and those of the old.
LEMMA PartWith ==
    ASSUME NEW M, MadeBy(M), NEW form, FormsAreOf(M, form),
           NEW id \in Ids, NEW b \in Buckets, NEW v \in DOMAIN M,
           NEW grown, FormsAreOf(M, grown),
           \A i \in Ids : \A c \in Buckets :
              grown[i][c] = IF i = id /\ c = b THEN v ELSE form[i][c],
           NEW old, old = IF form[id][b] = 0 THEN 0 ELSE M[form[id][b]].offer.form[b]
    PROVE  /\ old \in Nat /\ M[v].offer.form[b] \in Nat
           /\ Part(M, grown, Ids) = Part(M, form, Ids) - old + M[v].offer.form[b]
<1> DEFINE e == <<id, b>>
           F == FormsOf(form, Ids)
           G == FormsOf(grown, Ids)
           rest == F \ {e}
<1>2. v # 0 /\ M[v].offer.form[b] \in Nat
  BY OffersWeigh
<1>3. G = rest \cup {e} /\ e \in G /\ G \ {e} = rest
  BY <1>2 DEF FormsOf, FormsAreOf
<1>4. IsFiniteSet(F) /\ IsFiniteSet(G) /\ IsFiniteSet(rest)
  BY FormsAreFinite, FS_Subset
<1>5. /\ \A x \in F : Weights(M, form)[x] \in Int /\ Weights(M, form)[x] \in Nat
      /\ \A x \in G : Weights(M, grown)[x] \in Int /\ Weights(M, grown)[x] \in Nat
  BY WeightsAreNumbers
<1>6. Weights(M, grown)[e] = M[v].offer.form[b]
  <2>1. grown[id][b] = v
    OBVIOUS
  <2>2. Weights(M, grown)[e] = M[grown[e[1]][e[2]]].offer.form[e[2]]
    <3>1. e \in Ids \X Buckets
      OBVIOUS
    <3> HIDE DEF e
    <3> QED
      BY <3>1 DEF Weights
  <2> QED
    BY <2>1, <2>2
<1>7. ASSUME NEW x \in rest PROVE Weights(M, grown)[x] = Weights(M, form)[x]
  <2>1. x \in F /\ x \in G
    BY <1>3
  <2>3. x \in Ids \X Buckets /\ x # e
    BY <2>1 DEF FormsOf
  <2>2. /\ Weights(M, form)[x] = M[form[x[1]][x[2]]].offer.form[x[2]]
        /\ Weights(M, grown)[x] = M[grown[x[1]][x[2]]].offer.form[x[2]]
    BY <2>3 DEF Weights
  <2>4. grown[x[1]][x[2]] = form[x[1]][x[2]]
    BY <2>3
  <2> QED
    BY <2>2, <2>4
<1>8. SumOf(Weights(M, grown), rest) = SumOf(Weights(M, form), rest)
  BY <1>4, <1>7, SumsOfSame
<1>9. SumOf(Weights(M, grown), G) = M[v].offer.form[b] + SumOf(Weights(M, grown), rest)
  <2>1. e \in G /\ G \ {e} = rest /\ IsFiniteSet(G)
    BY <1>3, <1>4
  <2>2. \A x \in G : Weights(M, grown)[x] \in Int
    BY <1>5
  <2> HIDE DEF F, G, rest, e
  <2>3. SumOf(Weights(M, grown), G) = Weights(M, grown)[e] + SumOf(Weights(M, grown), G \ {e})
    BY <2>1, <2>2, SumWithout
  <2> QED
    BY <1>6, <2>1, <2>3
<1>10. SumOf(Weights(M, form), rest) \in Nat
  BY <1>4, <1>5, SumIsNatural
<1>11. old \in Nat /\ SumOf(Weights(M, form), F) = old + SumOf(Weights(M, form), rest)
  <2>1. CASE form[id][b] = 0
    <3>1. e \notin F
      BY <2>1 DEF FormsOf
    <3>2. rest = F
      BY <3>1
    <3> HIDE DEF F, rest, e
    <3>3. old = 0
      BY <2>1
    <3> QED
      BY <1>10, <3>2, <3>3
  <2>2. CASE form[id][b] # 0
    <3>1. e \in F
      BY <2>2 DEF FormsOf
    <3>2. Weights(M, form)[e] = M[form[e[1]][e[2]]].offer.form[e[2]]
      BY WeightIs
    <3>3. old = Weights(M, form)[e]
      BY <2>2, <3>2
    <3>4. SumOf(Weights(M, form), F) = Weights(M, form)[e] + SumOf(Weights(M, form), rest)
      BY <1>4, <1>5, <3>1, SumWithout
    <3> QED
      BY <1>5, <3>1, <3>3, <3>4
  <2> QED
    BY <2>1, <2>2
<1> HIDE DEF F, G, rest, e
<1>12. Part(M, grown, Ids) = SumOf(Weights(M, grown), G) /\ Part(M, form, Ids) = SumOf(Weights(M, form), F)
  BY DEF Part, F, G
<1> QED
  BY <1>2, <1>8, <1>9, <1>10, <1>11, <1>12

\* The sums of the model are these sums.
BytesBy(M, form, S) == MapThenSumSet(LAMBDA e : M[form[e[1]][e[2]]].offer.form[e[2]], S)

Corners(M, now) == [id \in Ids |-> IF now[id] = 0 THEN 0 ELSE M[now[id]].offer.vertices]

CornersBy(M, now) ==
    MapThenSumSet(LAMBDA id : IF now[id] = 0 THEN 0 ELSE M[now[id]].offer.vertices, Ids)

LEMMA BytesByIsASum ==
    ASSUME NEW M, NEW form, NEW S, IsFiniteSet(S), S \subseteq Ids \X Buckets
    PROVE  BytesBy(M, form, S) = SumOf(Weights(M, form), S)
<1> DEFINE W == Weights(M, form)
           w(e) == M[form[e[1]][e[2]]].offer.form[e[2]]
           A(g) == [s \in SUBSET S |->
                      IF s = {} THEN 0
                      ELSE w(CHOOSE x \in s : TRUE) + g[s \ {CHOOSE x \in s : TRUE}]]
           B(g) == [s \in SUBSET S |->
                      IF s = {} THEN 0
                      ELSE W[CHOOSE x \in s : TRUE] + g[s \ {CHOOSE x \in s : TRUE}]]
           Ups(g) == g = A(g)
<1>1. BytesBy(M, form, S) = (CHOOSE g : Ups(g))[S]
  BY DEF BytesBy, MapThenSumSet, MapThenFoldSet
<1>2. ASSUME NEW s \in SUBSET S, s # {}
      PROVE  W[CHOOSE x \in s : TRUE] = w(CHOOSE x \in s : TRUE)
  <2>1. (CHOOSE x \in s : TRUE) \in s
    BY <1>2
  <2> QED
    BY <2>1 DEF Weights
<1> HIDE DEF W, w
<1>3. ASSUME NEW g PROVE A(g) = B(g)
  BY <1>2
<1>4. \A g : Ups(g) <=> SumsUp(g, W, S)
  <2> SUFFICES ASSUME NEW g PROVE Ups(g) <=> SumsUp(g, W, S)
    OBVIOUS
  <2>1. SumsUp(g, W, S) <=> g = B(g)
    BY Zenon DEF SumsUp
  <2> HIDE DEF A, B
  <2> QED
    BY <1>3, <2>1
<1> HIDE DEF Ups
<1>5. IsFiniteSet(S)
  BY OverlayAssumption DEF OverlayAssumption
<1>6. \E g : Ups(g)
  BY <1>4, <1>5, SumsExist
<1>7. Ups(CHOOSE g : Ups(g))
  BY <1>6, Zenon
<1>8. SumsUp(CHOOSE g : Ups(g), W, S)
  BY <1>4, <1>7
<1>9. SumsUp(CHOOSE g : SumsUp(g, W, S), W, S)
  BY <1>5, SumOfSumsUp
<1>10. (CHOOSE g : Ups(g))[S] = (CHOOSE g : SumsUp(g, W, S))[S]
  BY <1>5, <1>8, <1>9, SumsAgree
<1> QED
  BY <1>1, <1>10 DEF SumOf, W

LEMMA CornersByIsASum ==
    ASSUME NEW M, NEW now
    PROVE  CornersBy(M, now) = SumOf(Corners(M, now), Ids)
<1> DEFINE W == Corners(M, now)
           w(id) == IF now[id] = 0 THEN 0 ELSE M[now[id]].offer.vertices
           A(g) == [s \in SUBSET Ids |->
                      IF s = {} THEN 0
                      ELSE w(CHOOSE x \in s : TRUE) + g[s \ {CHOOSE x \in s : TRUE}]]
           B(g) == [s \in SUBSET Ids |->
                      IF s = {} THEN 0
                      ELSE W[CHOOSE x \in s : TRUE] + g[s \ {CHOOSE x \in s : TRUE}]]
           Ups(g) == g = A(g)
<1>1. CornersBy(M, now) = (CHOOSE g : Ups(g))[Ids]
  BY DEF CornersBy, MapThenSumSet, MapThenFoldSet
<1>2. ASSUME NEW s \in SUBSET Ids, s # {}
      PROVE  W[CHOOSE x \in s : TRUE] = w(CHOOSE x \in s : TRUE)
  <2>1. (CHOOSE x \in s : TRUE) \in s
    BY <1>2
  <2> QED
    BY <2>1 DEF Corners
<1> HIDE DEF W, w
<1>3. ASSUME NEW g PROVE A(g) = B(g)
  BY <1>2
<1>4. \A g : Ups(g) <=> SumsUp(g, W, Ids)
  <2> SUFFICES ASSUME NEW g PROVE Ups(g) <=> SumsUp(g, W, Ids)
    OBVIOUS
  <2>1. SumsUp(g, W, Ids) <=> g = B(g)
    BY Zenon DEF SumsUp
  <2> HIDE DEF A, B
  <2> QED
    BY <1>3, <2>1
<1> HIDE DEF Ups
<1>5. IsFiniteSet(Ids)
  BY OverlayAssumption DEF OverlayAssumption
<1>6. \E g : Ups(g)
  BY <1>4, <1>5, SumsExist
<1>7. Ups(CHOOSE g : Ups(g))
  BY <1>6, Zenon
<1>8. SumsUp(CHOOSE g : Ups(g), W, Ids)
  BY <1>4, <1>7
<1>9. SumsUp(CHOOSE g : SumsUp(g, W, Ids), W, Ids)
  BY <1>5, SumOfSumsUp
<1>10. (CHOOSE g : Ups(g))[Ids] = (CHOOSE g : SumsUp(g, W, Ids))[Ids]
  BY <1>5, <1>8, <1>9, SumsAgree
<1> QED
  BY <1>1, <1>10 DEF SumOf, W

LEMMA ModelSums ==
    /\ \A form, S : Bytes(form, S) = BytesBy(made, form, S)
    /\ MapThenSumSet(LAMBDA id : VerticesOf(current[id]), Ids) = CornersBy(made, current)
BY DEF Bytes, BytesBy, CornersBy, VerticesOf, Offer

LEMMA ModelSumsNext ==
    /\ Bytes(prepared, FormsOf(prepared, Ids))' = BytesBy(made', prepared', FormsOf(prepared', Ids))
    /\ Bytes(stand, FormsOf(stand, Ids))' = BytesBy(made', stand', FormsOf(stand', Ids))
    /\ MapThenSumSet(LAMBDA id : VerticesOf(current[id]), Ids)' = CornersBy(made', current')
BY DEF Bytes, FormsOf, BytesBy, CornersBy, VerticesOf, Offer, MapThenSumSet, MapThenFoldSet

\* What is counted, by what there is.
CountsBy(M, now, form, old, held, corners) ==
    /\ held = Part(M, form, Ids) + Part(M, old, Ids)
    /\ corners = SumOf(Corners(M, now), Ids)
    /\ corners <= StoreVertices

LEMMA HeldIsCounts ==
    /\ HeldIsWhatIsThere <=> CountsBy(made, current, prepared, stand, shapeHeld, vertices)
    /\ HeldIsWhatIsThere' <=> CountsBy(made', current', prepared', stand', shapeHeld', vertices')
<1>1. ASSUME NEW M, NEW form
      PROVE  BytesBy(M, form, FormsOf(form, Ids)) = Part(M, form, Ids)
  BY FormsAreFinite, BytesByIsASum DEF Part
<1>2. HeldIsWhatIsThere <=> CountsBy(made, current, prepared, stand, shapeHeld, vertices)
  BY <1>1, ModelSums, CornersByIsASum DEF HeldIsWhatIsThere, CountsBy
<1>3. HeldIsWhatIsThere' <=> CountsBy(made', current', prepared', stand', shapeHeld', vertices')
  <2> QED
    BY <1>1, ModelSumsNext, CornersByIsASum DEF HeldIsWhatIsThere, CountsBy
<1> QED
  BY <1>2, <1>3

-----------------------------------------------------------------------------
(* The steps, by what they count.                                          *)

LEMMA KeptFormsAreOf ==
    ASSUME IInv, KeptInv
    PROVE  /\ MadeBy(made) /\ FormsAreOf(made, prepared) /\ FormsAreOf(made, stand)
           /\ current \in [Ids -> DOMAIN made \cup {0}]
<1>1. MadeBy(made) /\ current \in [Ids -> DOMAIN made \cup {0}]
  BY DEF IInv, HoldTypes, MadeBy, Versions
<1>2. ASSUME NEW id \in Ids, NEW b \in Buckets
      PROVE  prepared[id][b] \in DOMAIN made \cup {0} /\ stand[id][b] \in DOMAIN made \cup {0}
  <2>1. Fresh(id)
    BY DEF KeptInv
  <2>2. current[id] \in DOMAIN made \cup {0}
    BY <1>1
  <2>3. stand[id][b] # 0 => stand[id][b] \in DOMAIN made
    BY <2>1 DEF Fresh, OlderOf, VersionsOf
  <2> QED
    BY <2>1, <2>2, <2>3 DEF Fresh
<1> QED
  BY <1>1, <1>2 DEF KeptInv, Tables, FormsAreOf

LEMMA CountsAreNumbers ==
    ASSUME NEW M, MadeBy(M), NEW now, now \in [Ids -> DOMAIN M \cup {0}]
    PROVE  \A id \in Ids : Corners(M, now)[id] \in Nat /\ Corners(M, now)[id] \in Int
<1> SUFFICES ASSUME NEW id \in Ids PROVE Corners(M, now)[id] \in Nat
  OBVIOUS
<1>1. Corners(M, now)[id] = IF now[id] = 0 THEN 0 ELSE M[now[id]].offer.vertices
  BY DEF Corners
<1>2. CASE now[id] = 0
  BY <1>1, <1>2
<1>3. CASE now[id] # 0
  <2>1. now[id] \in DOMAIN M
    BY <1>3
  <2>2. M[now[id]].offer \in Offers
    <3> DEFINE Made == [id : Ids, offer : Offers]
    <3>1. M \in Seq(Made)
      BY DEF MadeBy
    <3> HIDE DEF Made
    <3>2. M[now[id]] \in Made
      BY <2>1, <3>1
    <3> QED
      BY <3>2 DEF Made
  <2>3. M[now[id]].offer.vertices \in Nat
    BY <2>2, OverlayAssumption DEF OverlayAssumption
  <2> QED
    BY <1>1, <1>3, <2>3
<1> QED
  BY <1>2, <1>3

\* Steps that touch nothing that is counted.
LEMMA CountsStay ==
    ASSUME ShapeCacheIsTrue, UNCHANGED <<made, current, prepared, stand, shapeHeld, vertices, bucket>>
    PROVE  ShapeCacheIsTrue'
<1>1. HeldIsWhatIsThere'
  BY HeldIsCounts DEF ShapeCacheIsTrue
<1>2. SpareGivesWay'
  BY DEF ShapeCacheIsTrue, SpareGivesWay, FormsAt
<1> QED
  BY <1>1, <1>2 DEF ShapeCacheIsTrue

\* A settling counts what it keeps, and over the cap keeps need alone.
LEMMA SettlingCounts ==
    ASSUME MadeBy(made), NEW form, FormsAreOf(made, form), NEW held \in Int, NEW uses, NEW at,
           settleLocked(form, held, uses, at)
    PROVE  /\ FormsAreOf(made, prepared')
           /\ shapeHeld' = held - Part(made, form, Ids) + Part(made, prepared', Ids)
           /\ shapeHeld' > ShapeBytes => \A id \in Ids : FormsAt(prepared'[id]) \subseteq {at}
<1>1. PICK shed \in SUBSET FormsOf(form, Ids) :
         /\ IsShed(shed, form, held, uses, at)
         /\ prepared' = [id \in Ids |-> [b \in Buckets |->
                           IF <<id, b>> \in shed THEN 0 ELSE form[id][b]]]
         /\ shapeHeld' = held - Bytes(form, shed)
  BY SettlingSheds, Zenon
<1>2. Bytes(form, shed) = SumOf(Weights(made, form), shed)
  <2>1. shed \subseteq Ids \X Buckets /\ IsFiniteSet(shed)
    BY FormsAreFinite, FS_Subset
  <2>2. Bytes(form, shed) = BytesBy(made, form, shed)
    BY ModelSums
  <2> QED
    BY <2>1, <2>2, BytesByIsASum
<1>3. /\ FormsAreOf(made, prepared')
      /\ Part(made, prepared', Ids) = Part(made, form, Ids) - SumOf(Weights(made, form), shed)
      /\ SumOf(Weights(made, form), shed) \in Nat
  BY <1>1, PartWithout
<1>4. Part(made, form, Ids) \in Nat
  BY PartIsNatural
<1>5. ASSUME shapeHeld' > ShapeBytes, NEW id \in Ids, NEW b \in FormsAt(prepared'[id])
      PROVE  b = at
  <2> DEFINE spares == {e \in FormsOf(form, Ids) : e[2] # at}
  <2>1. b \in Buckets /\ prepared'[id][b] # 0
    BY <1>5 DEF FormsAt
  <2>2. <<id, b>> \notin shed /\ <<id, b>> \in FormsOf(form, Ids)
    BY <1>1, <2>1 DEF FormsOf
  <2>3. shed = spares \/ held - Bytes(form, shed) <= ShapeBytes
    BY <1>1 DEF IsShed
  <2>4. held - Bytes(form, shed) \in Int /\ ShapeBytes \in Nat
    BY <1>2, <1>3, OverlayAssumption DEF OverlayAssumption
  <2>5. shed = spares
    BY <1>1, <1>5, <2>3, <2>4
  <2> QED
    BY <2>2, <2>5
<1> QED
  BY <1>1, <1>2, <1>3, <1>4, <1>5

\* An overlay handed in or removed takes its stand-in off the bytes, and its
\* forms if they do not stand in.
LEMMA StandInCounts ==
    ASSUME IInv, KeptInv, ShapeCacheIsTrue, NEW id \in Ids, NEW keep_ \in BOOLEAN, standInLocked(id, keep_),
           MadeBy(made'), \A v \in DOMAIN made : v \in DOMAIN made' /\ made'[v] = made[v],
           bucket' = bucket
    PROVE  /\ shapeHeld' = Part(made', prepared', Ids) + Part(made', stand', Ids)
           /\ SpareGivesWay'
<1> DEFINE stays == keep_ /\ FormsAt(prepared[id]) # {}
           others == Ids \ {id}
           own == Part(made, prepared, {id})
           old == Part(made, stand, {id})
           rest == Part(made, prepared, others)
           olds == Part(made, stand, others)
<1>1. MadeBy(made) /\ FormsAreOf(made, prepared) /\ FormsAreOf(made, stand)
  BY KeptFormsAreOf
<1>2. /\ stand' = [stand EXCEPT ![id] = IF stays THEN prepared[id] ELSE NoForms]
      /\ prepared' = [prepared EXCEPT ![id] = NoForms]
      /\ shapeHeld' = shapeHeld - Bytes(stand, FormsOf(stand, {id}))
                        - (IF stays THEN 0 ELSE Bytes(prepared, FormsOf(prepared, {id})))
  BY Zenon DEF standInLocked
<1>3. /\ Bytes(stand, FormsOf(stand, {id})) = old
      /\ Bytes(prepared, FormsOf(prepared, {id})) = own
  <2>1. \A form : IsFiniteSet(FormsOf(form, {id})) /\ FormsOf(form, {id}) \subseteq Ids \X Buckets
    BY FormsAreFinite
  <2> QED
    BY <2>1, ModelSums, BytesByIsASum DEF Part
<1>4. FormsAreOf(made', prepared') /\ FormsAreOf(made', stand')
  BY <1>1, <1>2 DEF FormsAreOf, NoForms
<1>5. /\ \A b \in Buckets : prepared'[id][b] = 0
      /\ \A i \in others : prepared'[i] = prepared[i] /\ stand'[i] = stand[i]
      /\ stays => stand'[id] = prepared[id]
      /\ ~stays => \A b \in Buckets : stand'[id][b] = 0
  BY <1>1, <1>2 DEF FormsAreOf, NoForms
<1>6. /\ own \in Nat /\ old \in Nat /\ rest \in Nat /\ olds \in Nat
      /\ Part(made, prepared, Ids) = own + rest /\ Part(made, stand, Ids) = old + olds
  BY <1>1, PartSplits, PartIsNatural
<1>7. /\ Part(made', prepared', Ids) = Part(made', prepared', {id}) + Part(made', prepared', others)
      /\ Part(made', stand', Ids) = Part(made', stand', {id}) + Part(made', stand', others)
  BY <1>4, PartSplits
<1>8. ASSUME NEW form, FormsAreOf(made, form), NEW other, FormsAreOf(made', other),
             NEW ids \in SUBSET Ids, \A i \in ids : other[i] = form[i]
      PROVE  Part(made', other, ids) = Part(made, form, ids)
  <2>1. ASSUME NEW i \in ids, NEW b \in Buckets
        PROVE  other[i][b] = form[i][b] /\ (form[i][b] # 0 => made'[form[i][b]] = made[form[i][b]])
    <3>1. form[i][b] \in DOMAIN made \cup {0}
      BY <1>8 DEF FormsAreOf
    <3> QED
      BY <1>8, <3>1
  <2> QED
    BY <1>1, <1>8, <2>1, PartsOfSame
<1>9. Part(made', prepared', others) = rest /\ Part(made', stand', others) = olds
  BY <1>1, <1>4, <1>5, <1>8
<1>10. Part(made', prepared', {id}) = 0
  BY <1>5, PartOfNone
<1>11. Part(made', stand', {id}) = IF stays THEN own ELSE 0
  <2>1. CASE stays
    <3>0. {id} \in SUBSET Ids /\ \A i \in {id} : stand'[i] = prepared[i]
      BY <1>5, <2>1
    <3>1. Part(made', stand', {id}) = Part(made, prepared, {id})
      BY <1>1, <1>4, <1>8, <3>0
    <3> QED
      BY <2>1, <3>1
  <2>2. CASE ~stays
    BY <1>5, <2>2, PartOfNone
  <2> QED
    BY <2>1, <2>2
<1>12. shapeHeld = own + rest + old + olds
  <2>1. shapeHeld = Part(made, prepared, Ids) + Part(made, stand, Ids)
    BY HeldIsCounts DEF ShapeCacheIsTrue, CountsBy
  <2> QED
    BY <1>6, <2>1
<1>13. shapeHeld' = rest + olds + (IF stays THEN own ELSE 0)
  <2> HIDE DEF own, old, rest, olds, stays
  <2> QED
    BY <1>2, <1>3, <1>6, <1>12
<1>14. shapeHeld' = Part(made', prepared', Ids) + Part(made', stand', Ids)
  <2> HIDE DEF own, old, rest, olds, stays
  <2> QED
    BY <1>6, <1>7, <1>9, <1>10, <1>11, <1>13
<1>15. SpareGivesWay'
  <2> SUFFICES ASSUME shapeHeld' > ShapeBytes, NEW i \in Ids
               PROVE  FormsAt(prepared'[i]) \subseteq {bucket}
    BY DEF SpareGivesWay, FormsAt
  <2>1. shapeHeld > ShapeBytes
    <3>1. ShapeBytes \in Nat
      BY OverlayAssumption DEF OverlayAssumption
    <3> HIDE DEF own, old, rest, olds, stays
    <3> QED
      BY <1>6, <1>12, <1>13, <3>1
  <2>2. FormsAt(prepared[i]) \subseteq {bucket}
    BY <2>1 DEF ShapeCacheIsTrue, SpareGivesWay
  <2>3. FormsAt(prepared'[i]) \subseteq FormsAt(prepared[i])
    BY <1>5 DEF FormsAt
  <2> QED
    BY <2>2, <2>3
<1> QED
  BY <1>14, <1>15

\* The corners of the other overlays stay when one is handed in or removed.
LEMMA CornersCount ==
    ASSUME IInv, IInv', ShapeCacheIsTrue, NEW id \in Ids,
           \A v \in DOMAIN made : v \in DOMAIN made' /\ made'[v] = made[v],
           \A i \in Ids \ {id} : current'[i] = current[i]
    PROVE  /\ vertices - VerticesOf(current[id]) \in Nat /\ VerticesOf(current[id]) \in Nat
           /\ vertices \in Nat /\ vertices <= StoreVertices
           /\ SumOf(Corners(made', current'), Ids) =
                 vertices - VerticesOf(current[id]) + Corners(made', current')[id]
<1> DEFINE W == Corners(made, current)
           X == Corners(made', current')
<1>1. /\ MadeBy(made) /\ current \in [Ids -> DOMAIN made \cup {0}]
      /\ MadeBy(made') /\ current' \in [Ids -> DOMAIN made' \cup {0}]
  BY DEF IInv, HoldTypes, MadeBy, Versions
<1>2. \A i \in Ids : W[i] \in Nat /\ W[i] \in Int /\ X[i] \in Nat /\ X[i] \in Int
  BY <1>1, CountsAreNumbers
<1>3. IsFiniteSet(Ids) /\ IsFiniteSet(Ids \ {id})
  BY FS_RemoveElement, OverlayAssumption DEF OverlayAssumption
<1>4. \A i \in Ids \ {id} : X[i] = W[i]
  BY <1>1 DEF Corners
<1>5. W[id] = VerticesOf(current[id])
  BY DEF Corners, VerticesOf, Offer
<1>6. vertices = SumOf(W, Ids) /\ vertices <= StoreVertices
  BY HeldIsCounts DEF ShapeCacheIsTrue, CountsBy
<1> HIDE DEF W, X
<1>7. SumOf(W, Ids) = W[id] + SumOf(W, Ids \ {id}) /\ SumOf(W, Ids \ {id}) \in Nat
  BY <1>2, <1>3, SumWithout, SumIsNatural
<1>8. SumOf(X, Ids) = X[id] + SumOf(X, Ids \ {id})
  BY <1>2, <1>3, SumWithout
<1>9. SumOf(X, Ids \ {id}) = SumOf(W, Ids \ {id})
  BY <1>3, <1>4, SumsOfSame
<1>10. SumOf(X, Ids) = vertices - VerticesOf(current[id]) + X[id]
  BY <1>2, <1>5, <1>6, <1>7, <1>8, <1>9
<1> QED
  BY <1>2, <1>5, <1>6, <1>7, <1>10 DEF X

LEMMA HandInCounts ==
    ASSUME IInv, IInv', KeptInv, ShapeCacheIsTrue, NEW id \in Ids, NEW o \in Offers, HandIn(id, o)
    PROVE  ShapeCacheIsTrue'
<1> DEFINE n == Len(made) + 1
           Entry == [id |-> id, offer |-> o]
           Entries == [id : Ids, offer : Offers]
<1>1. /\ made' = Append(made, Entry) /\ made \in Seq(Entries) /\ Entry \in Entries
      /\ current' = [current EXCEPT ![id] = n] /\ current \in [Ids -> Versions \cup {0}]
      /\ vertices' = vertices - VerticesOf(current[id]) + o.vertices
      /\ bucket' = bucket /\ standInLocked(id, ~Indexed(o))
      /\ vertices - VerticesOf(current[id]) + o.vertices <= StoreVertices
  BY DEF HandIn, Fits, drawn, IInv, HoldTypes
<1>2. /\ made' \in Seq(Entries) /\ made'[n] = Entry /\ n # 0
      /\ \A v \in DOMAIN made : v \in DOMAIN made' /\ made'[v] = made[v]
  <2> HIDE DEF Entry, Entries
  <2> QED
    BY <1>1
<1>3. MadeBy(made')
  BY <1>2 DEF MadeBy
<1>4. /\ shapeHeld' = Part(made', prepared', Ids) + Part(made', stand', Ids)
      /\ SpareGivesWay'
  <2>1. Indexed(o) \in BOOLEAN
    BY DEF Indexed
  <2> QED
    BY <1>1, <1>2, <1>3, <2>1, StandInCounts
<1>5. \A i \in Ids \ {id} : current'[i] = current[i]
  BY <1>1
<1>6. Corners(made', current')[id] = o.vertices
  <2>1. current'[id] = n /\ made'[n].offer = o
    BY <1>1, <1>2
  <2> QED
    BY <1>2, <2>1 DEF Corners
<1>7. vertices' = SumOf(Corners(made', current'), Ids) /\ vertices' <= StoreVertices
  BY <1>1, <1>2, <1>5, <1>6, CornersCount
<1>8. HeldIsWhatIsThere'
  BY <1>4, <1>7, HeldIsCounts DEF CountsBy
<1> QED
  BY <1>4, <1>8 DEF ShapeCacheIsTrue

LEMMA DropCounts ==
    ASSUME IInv, IInv', KeptInv, ShapeCacheIsTrue, NEW id \in Ids, Drop(id)
    PROVE  ShapeCacheIsTrue'
<1>1. /\ made' = made /\ current' = [current EXCEPT ![id] = 0] /\ bucket' = bucket
      /\ vertices' = vertices - VerticesOf(current[id]) /\ standInLocked(id, FALSE)
      /\ current \in [Ids -> Versions \cup {0}] /\ MadeBy(made)
  BY DEF Drop, drawn, IInv, HoldTypes, MadeBy
<1>2. /\ shapeHeld' = Part(made', prepared', Ids) + Part(made', stand', Ids)
      /\ SpareGivesWay'
  BY <1>1, StandInCounts
<1>3. Corners(made', current')[id] = 0 /\ \A i \in Ids \ {id} : current'[i] = current[i]
  BY <1>1 DEF Corners
<1>4. vertices' = SumOf(Corners(made', current'), Ids) /\ vertices' <= StoreVertices
  <2>1. /\ vertices - VerticesOf(current[id]) \in Nat /\ VerticesOf(current[id]) \in Nat
        /\ vertices \in Nat /\ vertices <= StoreVertices
        /\ SumOf(Corners(made', current'), Ids) = vertices - VerticesOf(current[id]) + 0
    BY <1>1, <1>3, CornersCount
  <2>2. StoreVertices \in Nat
    BY OverlayAssumption DEF OverlayAssumption
  <2> QED
    BY <1>1, <2>1, <2>2
<1>5. HeldIsWhatIsThere'
  BY <1>2, <1>4, HeldIsCounts DEF CountsBy
<1> QED
  BY <1>2, <1>5 DEF ShapeCacheIsTrue

\* With nothing set and nothing prepared every count is zero.
LEMMA NothingCounts ==
    ASSUME NEW M, NEW now, NEW form, NEW old,
           now = [id \in Ids |-> 0],
           form = [id \in Ids |-> NoForms], old = [id \in Ids |-> NoForms]
    PROVE  CountsBy(M, now, form, old, 0, 0)
<1>1. \A id \in Ids : \A b \in Buckets : form[id][b] = 0 /\ old[id][b] = 0
  BY DEF NoForms
<1>2. Part(M, form, Ids) = 0 /\ Part(M, old, Ids) = 0
  BY <1>1, PartOfNone
<1>3. SumOf(Corners(M, now), Ids) = 0
  <2> DEFINE W == Corners(M, now)
             odd == {t \in SUBSET Ids : SumOf(W, t) # 0}
  <2>1. \A id \in Ids : W[id] = 0
    BY DEF Corners
  <2>2. IsFiniteSet(Ids)
    BY OverlayAssumption DEF OverlayAssumption
  <2> HIDE DEF W
  <2> SUFFICES ASSUME odd # {} PROVE FALSE
    BY DEF W
  <2>3. PICK t \in odd : \A u \in odd : u \subseteq t => u = t
    <3>1. odd \subseteq SUBSET Ids
      OBVIOUS
    <3> HIDE DEF odd
    <3> QED
      BY <2>2, <3>1, LeastSubset
  <2>4. PICK x \in t : TRUE
    BY SumOfNone
  <2>5. t \ {x} \notin odd
    <3>1. t \ {x} # t /\ t \ {x} \subseteq t
      OBVIOUS
    <3> HIDE DEF odd
    <3> QED
      BY <2>3, <3>1
  <2>6. SumOf(W, t) = W[x] + SumOf(W, t \ {x})
    <3>1. IsFiniteSet(t) /\ \A y \in t : W[y] \in Int
      BY <2>1, <2>2, FS_Subset
    <3> QED
      BY <3>1, SumWithout
  <2> QED
    BY <2>1, <2>3, <2>5, <2>6
<1>4. StoreVertices \in Nat
  BY OverlayAssumption DEF OverlayAssumption
<1> QED
  BY <1>2, <1>3, <1>4 DEF CountsBy

LEMMA InitCounts == Init => ShapeCacheIsTrue
<1> SUFFICES ASSUME Init PROVE ShapeCacheIsTrue
  OBVIOUS
<1>1. /\ current = [id \in Ids |-> 0] /\ vertices = 0 /\ shapeHeld = 0
      /\ prepared = [id \in Ids |-> NoForms] /\ stand = [id \in Ids |-> NoForms]
  BY DEF Init
<1>2. HeldIsWhatIsThere
  BY <1>1, NothingCounts, HeldIsCounts
<1>3. SpareGivesWay
  BY <1>1 DEF SpareGivesWay, FormsAt, NoForms
<1> QED
  BY <1>2, <1>3 DEF ShapeCacheIsTrue

LEMMA CloseCounts ==
    ASSUME Close
    PROVE  ShapeCacheIsTrue'
<1>1. /\ current' = [id \in Ids |-> 0] /\ vertices' = 0 /\ shapeHeld' = 0
      /\ prepared' = [id \in Ids |-> NoForms] /\ stand' = [id \in Ids |-> NoForms]
  BY DEF Close
<1>2. HeldIsWhatIsThere'
  BY <1>1, NothingCounts, HeldIsCounts
<1>3. SpareGivesWay'
  BY <1>1 DEF SpareGivesWay, FormsAt, NoForms
<1> QED
  BY <1>2, <1>3 DEF ShapeCacheIsTrue

LEMMA NotesCounts ==
    ASSUME IInv, KeptInv, ShapeCacheIsTrue, NEW b \in Buckets, RenderNotes(b)
    PROVE  ShapeCacheIsTrue'
<1>1. /\ UNCHANGED <<made, current, vertices, stand>> /\ bucket' = b
      /\ settleLocked(prepared, shapeHeld, used, b)
  BY DEF RenderNotes, store
<1>2. MadeBy(made) /\ FormsAreOf(made, prepared) /\ FormsAreOf(made, stand)
  BY KeptFormsAreOf
<1>3. CountsBy(made, current, prepared, stand, shapeHeld, vertices)
  BY HeldIsCounts DEF ShapeCacheIsTrue
<1>4. Part(made, prepared, Ids) \in Nat /\ Part(made, stand, Ids) \in Nat
  BY <1>2, PartIsNatural
<1>5. /\ FormsAreOf(made, prepared')
      /\ shapeHeld' = shapeHeld - Part(made, prepared, Ids) + Part(made, prepared', Ids)
      /\ shapeHeld' > ShapeBytes => \A id \in Ids : FormsAt(prepared'[id]) \subseteq {b}
  <2>1. shapeHeld \in Int
    BY <1>3, <1>4 DEF CountsBy
  <2> QED
    BY <1>1, <1>2, <2>1, SettlingCounts
<1>6. Part(made, prepared', Ids) \in Nat
  BY <1>2, <1>5, PartIsNatural
<1>7. HeldIsWhatIsThere'
  BY <1>1, <1>3, <1>4, <1>5, <1>6, HeldIsCounts DEF CountsBy
<1>8. SpareGivesWay'
  BY <1>1, <1>5 DEF SpareGivesWay, FormsAt
<1> QED
  BY <1>7, <1>8 DEF ShapeCacheIsTrue

\* A form kept takes the stand-in of its overlay off the bytes, whether it is
\* held or larger than the whole cap.
LEMMA FormCounts ==
    ASSUME IInv, KeptInv, ShapeCacheIsTrue, NEW w \in Workers, keep(w)
    PROVE  ShapeCacheIsTrue'
<1> DEFINE id == job[w].key[1]
           b == job[w].key[2]
           v == job[w].of
<1>1. id \in Ids /\ b \in Buckets /\ v \in Nat /\ v # 0 /\ current[id] = v
  BY LandsOn DEF keep
<1>2. MadeBy(made) /\ FormsAreOf(made, prepared) /\ FormsAreOf(made, stand) /\ v \in DOMAIN made
  BY <1>1, KeptFormsAreOf
<1> DEFINE left == shapeHeld - Bytes(stand, FormsOf(stand, {id}))
           old == IF prepared[id][b] = 0 THEN 0 ELSE made[prepared[id][b]].offer.form[b]
           new == made[v].offer.form[b]
           grown == [prepared EXCEPT ![id][b] = v]
           uses == Append(SelectSeq(used, LAMBDA e : e # <<id, b>>), <<id, b>>)
<1>3. /\ UNCHANGED <<made, current, vertices, bucket>>
      /\ stand' = [stand EXCEPT ![id] = NoForms]
      /\ \/ prepared' = prepared /\ shapeHeld' = left
         \/ settleLocked(grown, left - old + new, uses, bucket)
  BY Zenon DEF keep, store, drawn, Offer
<1> HIDE DEF id, b, v
<1>4. CountsBy(made, current, prepared, stand, shapeHeld, vertices)
  BY HeldIsCounts DEF ShapeCacheIsTrue
<1>5. /\ Part(made, stand, {id}) \in Nat /\ Part(made, stand', Ids) \in Nat
      /\ FormsAreOf(made, stand')
      /\ Part(made, stand, Ids) = Part(made, stand, {id}) + Part(made, stand', Ids)
  <2>1. FormsAreOf(made, stand')
    BY <1>1, <1>2, <1>3 DEF FormsAreOf, NoForms
  <2>2. /\ Part(made, stand, Ids) = Part(made, stand, {id}) + Part(made, stand, Ids \ {id})
        /\ Part(made, stand', Ids) = Part(made, stand', {id}) + Part(made, stand', Ids \ {id})
    BY <1>1, <1>2, <2>1, PartSplits
  <2>3. /\ \A c \in Buckets : stand'[id][c] = 0
        /\ \A i \in Ids \ {id} : stand'[i] = stand[i]
    BY <1>1, <1>2, <1>3 DEF FormsAreOf, NoForms
  <2>4. Part(made, stand', {id}) = 0
    BY <2>3, PartOfNone
  <2>5. Part(made, stand', Ids \ {id}) = Part(made, stand, Ids \ {id})
    BY <1>1, <1>2, <2>1, <2>3, PartsOfSame
  <2>6. /\ Part(made, stand, {id}) \in Nat /\ Part(made, stand', Ids) \in Nat
        /\ Part(made, stand, Ids \ {id}) \in Nat
    BY <1>1, <1>2, <2>1, PartIsNatural
  <2> QED
    BY <2>1, <2>2, <2>4, <2>5, <2>6
<1>6. Part(made, prepared, Ids) \in Nat
  BY <1>1, <1>2, PartIsNatural
<1>7. left = Part(made, prepared, Ids) + Part(made, stand', Ids)
  <2>1. Bytes(stand, FormsOf(stand, {id})) = Part(made, stand, {id})
    <3>1. IsFiniteSet(FormsOf(stand, {id})) /\ FormsOf(stand, {id}) \subseteq Ids \X Buckets
      BY <1>1, FormsAreFinite
    <3> QED
      BY <3>1, ModelSums, BytesByIsASum DEF Part
  <2> QED
    BY <1>4, <1>5, <1>6, <2>1 DEF CountsBy
<1>8. CASE prepared' = prepared /\ shapeHeld' = left
  <2>1. HeldIsWhatIsThere'
    BY <1>3, <1>4, <1>7, <1>8, HeldIsCounts DEF CountsBy
  <2>2. shapeHeld' <= shapeHeld /\ shapeHeld \in Int /\ shapeHeld' \in Int
    BY <1>4, <1>5, <1>6, <1>7, <1>8 DEF CountsBy
  <2>3. SpareGivesWay'
    <3> SUFFICES ASSUME shapeHeld' > ShapeBytes, NEW i \in Ids
                 PROVE  FormsAt(prepared'[i]) \subseteq {bucket'}
      BY DEF SpareGivesWay, FormsAt
    <3>1. shapeHeld > ShapeBytes
      BY <2>2, OverlayAssumption DEF OverlayAssumption
    <3>2. FormsAt(prepared[i]) \subseteq {bucket}
      BY <3>1 DEF ShapeCacheIsTrue, SpareGivesWay
    <3> QED
      BY <1>3, <1>8, <3>2
  <2> QED
    BY <2>1, <2>3 DEF ShapeCacheIsTrue
<1>9. CASE settleLocked(grown, left - old + new, uses, bucket)
  <2>1. FormsAreOf(made, grown)
    BY <1>1, <1>2 DEF FormsAreOf
  <2>2. \A i \in Ids : \A c \in Buckets :
           grown[i][c] = IF i = id /\ c = b THEN v ELSE prepared[i][c]
    BY <1>1, <1>2 DEF FormsAreOf
  <2> HIDE DEF grown, old, new, uses, left
  <2>3. /\ old \in Nat /\ new \in Nat
        /\ Part(made, grown, Ids) = Part(made, prepared, Ids) - old + new
    <3>1. old = IF prepared[id][b] = 0 THEN 0 ELSE made[prepared[id][b]].offer.form[b]
      BY DEF old
    <3> QED
      BY <1>1, <1>2, <2>1, <2>2, <3>1, PartWith DEF new
  <2>4. left - old + new \in Int
    BY <1>5, <1>6, <1>7, <2>3
  <2>5. /\ FormsAreOf(made, prepared')
        /\ shapeHeld' = (left - old + new) - Part(made, grown, Ids) + Part(made, prepared', Ids)
        /\ shapeHeld' > ShapeBytes => \A i \in Ids : FormsAt(prepared'[i]) \subseteq {bucket}
    BY <1>1, <1>2, <1>9, <2>1, <2>4, SettlingCounts
  <2>6. Part(made, prepared', Ids) \in Nat
    BY <1>1, <1>2, <2>5, PartIsNatural
  <2>7. shapeHeld' = Part(made, prepared', Ids) + Part(made, stand', Ids)
    BY <1>5, <1>6, <1>7, <2>3, <2>5, <2>6
  <2>8. HeldIsWhatIsThere'
    BY <1>3, <1>4, <2>7, HeldIsCounts DEF CountsBy
  <2>9. SpareGivesWay'
    BY <1>3, <2>5 DEF SpareGivesWay, FormsAt
  <2> QED
    BY <2>8, <2>9 DEF ShapeCacheIsTrue
<1> QED
  BY <1>3, <1>8, <1>9

\* The steps that touch nothing that is counted.
LEMMA OthersCount ==
    ASSUME ShapeCacheIsTrue,
           \/ \E id \in Ids : InUse(id)
           \/ DropSpares \/ RenderAsks \/ RenderAdds \/ RenderPicks \/ RenderDraws \/ Shed
           \/ \E w \in Workers :
                 \/ Take(w) \/ Begin(w) \/ ReadNothing(w) \/ KeepRetired(w)
                 \/ keepPictures(w) \/ keepField(w) \/ Done(w) \/ CallOff(w)
           \/ UNCHANGED vars
    PROVE  ShapeCacheIsTrue'
<1>1. CASE \/ \E id \in Ids : InUse(id)
           \/ DropSpares \/ RenderAsks \/ RenderAdds \/ RenderPicks \/ RenderDraws \/ Shed
           \/ UNCHANGED vars
  BY <1>1, CountsStay DEF InUse, DropSpares, RenderAsks, RenderAdds, RenderPicks, RenderDraws,
                          Shed, vars, store, cache, drawn
<1>2. CASE \E w \in Workers :
                 \/ Take(w) \/ Begin(w) \/ ReadNothing(w) \/ KeepRetired(w)
                 \/ keepPictures(w) \/ keepField(w) \/ Done(w) \/ CallOff(w)
  BY <1>2, CountsStay DEF Take, Begin, ReadNothing, KeepRetired, keepPictures, keepField, Done,
                          CallOff, store, cache, drawn
<1> QED
  BY <1>1, <1>2

LEMMA StepCounts ==
    IInv /\ IInv' /\ KeptInv /\ ShapeCacheIsTrue /\ [Next]_vars => ShapeCacheIsTrue'
<1> SUFFICES ASSUME IInv, IInv', KeptInv, ShapeCacheIsTrue, [Next]_vars
             PROVE  ShapeCacheIsTrue'
  OBVIOUS
<1>1. CASE \E id \in Ids, o \in Offers : HandIn(id, o)
  BY <1>1, HandInCounts
<1>2. CASE \E id \in Ids : Drop(id)
  BY <1>2, DropCounts
<1>3. CASE Close
  BY <1>3, CloseCounts
<1>4. CASE \E b \in Buckets : RenderNotes(b)
  BY <1>4, NotesCounts
<1>5. CASE \E w \in Workers : keep(w)
  BY <1>5, FormCounts
<1>6. CASE \/ \E id \in Ids : InUse(id)
           \/ DropSpares \/ RenderAsks \/ RenderAdds \/ RenderPicks \/ RenderDraws \/ Shed
           \/ \E w \in Workers :
                 \/ Take(w) \/ Begin(w) \/ ReadNothing(w) \/ KeepRetired(w)
                 \/ keepPictures(w) \/ keepField(w) \/ Done(w) \/ CallOff(w)
           \/ UNCHANGED vars
  BY <1>6, OthersCount
<1> QED
  BY <1>1, <1>2, <1>3, <1>4, <1>5, <1>6 DEF Next, Work

\* What the caps are held by is true: the bytes counted for the shape cache
\* are those of the forms it holds and of those that stand in, the vertices
\* counted those of what is set and within their cap, however forms were
\* replaced, handed on as stand-ins and shed in between; and over its cap the
\* cache keeps no form but of the bucket in view.
THEOREM ShapesAreCounted == Spec => []ShapeCacheIsTrue
BY InitCounts, StepCounts, HoldsInvariant, KeptInvariant, PTL DEF Spec

-----------------------------------------------------------------------------
(***************************************************************************)
(* A shape drawn from the host's memory by its index, for any world, ring, *)
(* run length, margin and views (borrow.go). A step of a run lies in the   *)
(* box of the run, and so a step that is seen has a box that meets the     *)
(* view: what the index leaves out is nothing that would be drawn.         *)
(***************************************************************************)

\* A ring that was not refused, and a view that does not leave the world.
OnGlobe(ring) == ring \in Seq(Int \X Int) /\ checkRing(ring) /\ Len(ring) > 0
Inside(v) == v.x >= Margin /\ v.x + v.cols + Margin <= World

LEMMA NumbersOfShapes ==
  /\ Half \in Nat /\ Top \in Nat /\ Margin \in Nat /\ World \in Nat /\ World = 2 * Half
  /\ RunLength \in Nat /\ RunLength > 0
  /\ \A v \in MapViews : v.x \in Int /\ v.y \in Int /\ v.cols \in Nat /\ v.cols > 0 /\ v.rows \in Nat /\ v.rows > 0
BY GeometryAssumption DEF World

\* Where a vertex is once it is projected.
East(p) == Lon(p) + Half
South(p) == Top - Lat(p)

\* The vertices of a run, projected.
LEMMA RunIs ==
    ASSUME NEW ring, OnGlobe(ring), NEW s \in Starts(ring)
    PROVE  LET run == SubSeq(ring, s, Through(s, Len(ring)))
           IN  /\ Len(run) \in Nat /\ Len(run) > 0 /\ DOMAIN run = 1..Len(run)
               /\ \A i \in 1..Len(run) : Project(run)[i] = <<East(run[i]), South(run[i])>>
               /\ \A i \in 1..Len(run) : East(run[i]) \in 0..World /\ South(run[i]) \in 0..(2 * Top)
<1> DEFINE n == Len(ring)
           b == Through(s, n)
           run == SubSeq(ring, s, b)
<1>1. n \in Nat /\ DOMAIN ring = 1..n /\ s \in 1..n
  BY DEF OnGlobe, Starts
<1>2. b \in Int /\ b >= s /\ b <= n
  BY <1>1, NumbersOfShapes DEF Through
<1>3. run \in Seq(Int \X Int) /\ Len(run) = b - s + 1
  BY <1>1, <1>2 DEF OnGlobe
<1>4. \A i \in 1..Len(run) : run[i] = ring[s + i - 1] /\ s + i - 1 \in 1..n
  <2>1. \A i \in 1..(b - s + 1) : s + i - 1 \in 1..n
    BY <1>1, <1>2
  <2>2. \A i \in s..b : ring[i] \in Int \X Int
    BY <1>1, <1>2 DEF OnGlobe
  <2>3. \A i \in 1..(b - s + 1) : run[i] = ring[s + i - 1]
    <3> HIDE DEF b
    <3>1. s \in Int /\ b \in Int
      BY <1>1, <1>2
    <3> QED
      BY <2>2, <3>1, SubSeqProperties
  <2> QED
    BY <1>3, <2>1, <2>3
<1>5. \A k \in 1..n : Lon(ring[k]) \in -Half..Half /\ Lat(ring[k]) \in -Top..Top
  BY <1>1 DEF OnGlobe, checkRing, Range
<1>6. DOMAIN run = 1..Len(run) /\ Len(run) \in Nat /\ Len(run) > 0
  BY <1>1, <1>2, <1>3
<1> HIDE DEF run, n, b
<1>7. \A i \in 1..Len(run) : Project(run)[i] = <<East(run[i]), South(run[i])>>
  BY <1>6 DEF Project, East, South
<1>8. \A i \in 1..Len(run) : East(run[i]) \in 0..World /\ South(run[i]) \in 0..(2 * Top)
  <2> TAKE i \in 1..Len(run)
  <2>1. Lon(run[i]) \in -Half..Half /\ Lat(run[i]) \in -Top..Top
    BY <1>4, <1>5
  <2> QED
    BY <2>1, NumbersOfShapes DEF East, South
<1> QED
  BY <1>6, <1>7, <1>8 DEF run, b, n

\* The box of a run has all its vertices.
LEMMA BoxHolds ==
    ASSUME NEW ring, OnGlobe(ring), NEW s \in Starts(ring)
    PROVE  LET run == SubSeq(ring, s, Through(s, Len(ring)))
               box == BoxOfRun(ring, s)
           IN  /\ box.minX \in 0..World /\ box.maxX \in 0..World
               /\ box.minY \in 0..(2 * Top) /\ box.maxY \in 0..(2 * Top)
               /\ \A i \in 1..Len(run) : /\ box.minX <= East(run[i]) /\ East(run[i]) <= box.maxX
                                         /\ box.minY <= South(run[i]) /\ South(run[i]) <= box.maxY
<1> DEFINE run == SubSeq(ring, s, Through(s, Len(ring)))
           box == BoxOfRun(ring, s)
           p == Project(run)
           xs == {p[i][1] : i \in DOMAIN p}
           ys == {p[i][2] : i \in DOMAIN p}
<1>1. box = [minX |-> Min(xs), maxX |-> Max(xs), minY |-> Min(ys), maxY |-> Max(ys)]
  BY DEF BoxOfRun
<1>2. /\ Len(run) \in Nat /\ Len(run) > 0 /\ DOMAIN run = 1..Len(run)
      /\ \A i \in 1..Len(run) : p[i] = <<East(run[i]), South(run[i])>>
      /\ \A i \in 1..Len(run) : East(run[i]) \in 0..World /\ South(run[i]) \in 0..(2 * Top)
  BY RunIs
<1>3. DOMAIN p = 1..Len(run)
  BY <1>2 DEF Project
<1> HIDE DEF run, box, p
<1>4. xs \subseteq 0..World /\ ys \subseteq 0..(2 * Top) /\ xs # {} /\ ys # {}
  BY <1>2, <1>3
<1>5. World \in Nat /\ 2 * Top \in Nat /\ xs \subseteq Nat /\ ys \subseteq Nat
  BY <1>4, NumbersOfShapes
<1>6. \A i \in 1..Len(run) : East(run[i]) \in xs /\ South(run[i]) \in ys
  BY <1>2, <1>3
<1> HIDE DEF xs, ys
<1>7. /\ Min(xs) \in xs /\ Max(xs) \in xs /\ \A n \in xs : Min(xs) <= n /\ n <= Max(xs)
      /\ Min(ys) \in ys /\ Max(ys) \in ys /\ \A n \in ys : Min(ys) <= n /\ n <= Max(ys)
  BY <1>4, <1>5, LeastOf, GreatestOf
<1>8. box.minX = Min(xs) /\ box.maxX = Max(xs) /\ box.minY = Min(ys) /\ box.maxY = Max(ys)
  BY <1>1
<1> QED
  BY <1>4, <1>6, <1>7, <1>8 DEF run, box

\* Of two numbers.
LEMMA LeastOfTwo ==
    ASSUME NEW m \in Int, NEW n \in Int
    PROVE  Min({m, n}) \in {m, n} /\ Max({m, n}) \in {m, n}
<1>1. CASE m <= n
  BY <1>1 DEF Min, Max
<1>2. CASE n < m
  BY <1>2 DEF Min, Max
<1> QED
  BY <1>1, <1>2

\* A view inside the world is looked at once and unturned.
LEMMA SeenInside ==
    ASSUME NEW v \in MapViews, Inside(v)
    PROVE  /\ Shifts(v) = {0}
           /\ LET box == seen(v, 0)
              IN  /\ box.minX = v.x - Margin /\ box.maxX = v.x + v.cols + Margin
                  /\ box.minY = Clamped(v.y - Margin) /\ box.maxY = Clamped(v.y + v.rows + Margin)
<1>1. /\ World \in Nat /\ Margin \in Nat /\ v.x \in Int /\ v.y \in Int
      /\ v.cols \in Nat /\ v.cols > 0 /\ v.rows \in Nat /\ v.rows > 0
      /\ v.x >= Margin /\ v.x + v.cols + Margin <= World
  BY NumbersOfShapes DEF Inside
<1>2. World > 0 /\ v.x \in 0..(World - 1) /\ (v.x + v.cols - 1) \in 0..(World - 1)
  BY <1>1
<1>3. v.x \div World = 0 /\ (v.x + v.cols - 1) \div World = 0
  <2>1. ASSUME NEW w \in Nat, w > 0, NEW n \in 0..(w - 1) PROVE n \div w = 0
    BY <2>1
  <2> QED
    BY <1>1, <1>2, <2>1
<1>4. Shifts(v) = {0}
  BY <1>3 DEF Shifts
<1> DEFINE west == v.x - Margin
           east == v.x + v.cols + Margin
<1>5. west \in 0..World /\ east \in 0..World /\ west <= east
  BY <1>1
<1>6. v.x - 0 * World - Margin = west /\ v.x - 0 * World + v.cols + Margin = east
  BY <1>1
<1> HIDE DEF west, east
<1>7. Turned(west) = west /\ Turned(east) = east
  BY <1>1, <1>5 DEF Turned
<1>8. Min({west, east}) = west /\ Max({west, east}) = east
  <2>1. {west, east} \subseteq Nat /\ {west, east} \subseteq 0..World
    BY <1>1, <1>5
  <2>2. Min({west, east}) \in {west, east} /\ \A n \in {west, east} : Min({west, east}) <= n
    BY <2>1, LeastOf
  <2>3. Max({west, east}) \in {west, east} /\ \A n \in {west, east} : n <= Max({west, east})
    BY <1>1, <2>1, GreatestOf
  <2> QED
    BY <1>5, <2>2, <2>3
<1>9. seen(v, 0) = [minX |-> west, maxX |-> east,
                    minY |-> Clamped(v.y - Margin), maxY |-> Clamped(v.y + v.rows + Margin)]
  BY <1>6, <1>7, <1>8 DEF seen
<1> QED
  BY <1>4, <1>9 DEF west, east

\* Where the ends of a step are: two vertices of its run, seen from the view.
LEMMA StepIs ==
    ASSUME NEW ring, OnGlobe(ring), NEW s \in Starts(ring), NEW v \in MapViews,
           NEW step \in borrowRun(SubSeq(ring, s, Through(s, Len(ring))), v, 0)
    PROVE  LET run == SubSeq(ring, s, Through(s, Len(ring)))
           IN  \E i, j \in 1..Len(run) :
                 step = << <<East(run[i]) - v.x, South(run[i]) - v.y>>, <<East(run[j]) - v.x, South(run[j]) - v.y>> >>
<1> DEFINE run == SubSeq(ring, s, Through(s, Len(ring)))
           dot(i) == <<Project(run)[i][1] + 0 * World - v.x, Project(run)[i][2] - v.y>>
<1>1. PICK j \in 2..Len(run) : step = <<dot(j - 1), dot(j)>>
  BY DEF borrowRun
<1>2. /\ Len(run) \in Nat
      /\ \A i \in 1..Len(run) : Project(run)[i] = <<East(run[i]), South(run[i])>>
      /\ \A i \in 1..Len(run) : East(run[i]) \in 0..World /\ South(run[i]) \in 0..(2 * Top)
  BY RunIs
<1>3. \A i \in 1..Len(run) : dot(i) = <<East(run[i]) - v.x, South(run[i]) - v.y>>
  <2> TAKE i \in 1..Len(run)
  <2>0. v.x \in Int /\ World \in Nat
    BY NumbersOfShapes
  <2> HIDE DEF run
  <2>1. East(run[i]) \in Int
    BY <1>2, <2>0
  <2>2. East(run[i]) + 0 * World - v.x = East(run[i]) - v.x
    BY <2>0, <2>1
  <2>3. Project(run)[i][1] = East(run[i]) /\ Project(run)[i][2] = South(run[i])
    BY <1>2
  <2> QED
    BY <2>2, <2>3
<1> HIDE DEF dot, run
<1>4. j - 1 \in 1..Len(run) /\ j \in 1..Len(run)
  BY <1>2
<1> QED
  BY <1>1, <1>3, <1>4 DEF run

\* What a box has that is between the edges of a view, the view's box meets.
LEMMA AcrossMeets ==
    ASSUME NEW low \in Int, NEW high \in Int, NEW a \in Int, NEW b \in Int,
           low <= a, low <= b, a <= high, b <= high,
           NEW x \in Int, NEW wide \in Nat, NEW m \in Nat,
           Min({a - x, b - x}) < wide, Max({a - x, b - x}) >= 0
    PROVE  low <= x + wide + m /\ x - m <= high
<1>1. Min({a - x, b - x}) = a - x \/ Min({a - x, b - x}) = b - x
  BY LeastOfTwo
<1>2. Max({a - x, b - x}) = a - x \/ Max({a - x, b - x}) = b - x
  BY LeastOfTwo
<1>3. low <= x + wide + m
  BY <1>1
<1>4. x - m <= high
  BY <1>2
<1> QED
  BY <1>3, <1>4

\* A step that is seen is of a run whose box meets the view.
LEMMA SeenRunsMeet ==
    ASSUME NEW ring, OnGlobe(ring), NEW s \in Starts(ring), NEW v \in MapViews, Inside(v),
           NEW step \in borrowRun(SubSeq(ring, s, Through(s, Len(ring))), v, 0), Visible(step, v)
    PROVE  meets(BoxOfRun(ring, s), seen(v, 0))
<1> DEFINE run == SubSeq(ring, s, Through(s, Len(ring)))
           box == BoxOfRun(ring, s)
           view == seen(v, 0)
<1>1. PICK i \in 1..Len(run), j \in 1..Len(run) :
        step = << <<East(run[i]) - v.x, South(run[i]) - v.y>>, <<East(run[j]) - v.x, South(run[j]) - v.y>> >>
  BY StepIs
<1>2. PICK a, b, c, d : a = East(run[i]) /\ b = East(run[j]) /\ c = South(run[i]) /\ d = South(run[j])
  OBVIOUS
<1>3. /\ a \in Int /\ b \in Int /\ c \in Int /\ d \in Int
      /\ box.minX \in Int /\ box.maxX \in Int /\ box.minY \in Int /\ box.maxY \in Int
      /\ box.minY <= 2 * Top /\ box.maxY >= 0
  <2>1. World \in Nat /\ Top \in Nat
    BY NumbersOfShapes
  <2>2. box.minX \in 0..World /\ box.maxX \in 0..World /\ box.minY \in 0..(2 * Top) /\ box.maxY \in 0..(2 * Top)
    BY BoxHolds
  <2>3. a \in 0..World /\ b \in 0..World /\ c \in 0..(2 * Top) /\ d \in 0..(2 * Top)
    BY <1>2, RunIs
  <2> HIDE DEF box
  <2> QED
    BY <2>1, <2>2, <2>3
<1>4. /\ box.minX <= a /\ box.minX <= b /\ a <= box.maxX /\ b <= box.maxX
      /\ box.minY <= c /\ box.minY <= d /\ c <= box.maxY /\ d <= box.maxY
  BY <1>2, BoxHolds
<1>5. /\ view.minX = v.x - Margin /\ view.maxX = v.x + v.cols + Margin
      /\ view.minY = Clamped(v.y - Margin) /\ view.maxY = Clamped(v.y + v.rows + Margin)
  BY SeenInside
<1>6. /\ Min({a - v.x, b - v.x}) < v.cols /\ Max({a - v.x, b - v.x}) >= 0
      /\ Min({c - v.y, d - v.y}) < v.rows /\ Max({c - v.y, d - v.y}) >= 0
  BY <1>1, <1>2 DEF Visible
<1>7. v.x \in Int /\ v.y \in Int /\ v.cols \in Nat /\ v.rows \in Nat /\ Margin \in Nat /\ Top \in Nat
  BY NumbersOfShapes
<1> HIDE DEF run, box, view
<1>8. box.minX <= v.x + v.cols + Margin /\ v.x - Margin <= box.maxX
  BY <1>3, <1>4, <1>6, <1>7, AcrossMeets
<1>9. box.minY <= v.y + v.rows + Margin /\ v.y - Margin <= box.maxY
  BY <1>3, <1>4, <1>6, <1>7, AcrossMeets
<1>10. box.minY <= Clamped(v.y + v.rows + Margin) /\ Clamped(v.y - Margin) <= box.maxY
  <2>1. ASSUME NEW low \in Int, NEW e \in Int, low <= e, low <= 2 * Top PROVE low <= Clamped(e)
    BY <1>7, <2>1 DEF Clamped
  <2>2. ASSUME NEW high \in Int, NEW e \in Int, e <= high, 0 <= high PROVE Clamped(e) <= high
    BY <1>7, <2>2 DEF Clamped
  <2>3. v.y + v.rows + Margin \in Int /\ v.y - Margin \in Int
    BY <1>7
  <2> QED
    BY <1>3, <1>9, <2>1, <2>2, <2>3
<1>11. box.minX <= view.maxX /\ view.minX <= box.maxX
  BY <1>5, <1>8
<1>12. box.minY <= view.maxY /\ view.minY <= box.maxY
  BY <1>5, <1>10
<1> QED
  BY <1>11, <1>12 DEF meets, box, view

\* The index leaves out nothing that a view inside the world would show.
LEMMA CullingIsSafe ==
    ASSUME NEW ring, OnGlobe(ring), NEW v \in MapViews, Inside(v)
    PROVE  Borrow(ring, v, TRUE) = Borrow(ring, v, FALSE)
<1> DEFINE steps(s, shift) == borrowRun(SubSeq(ring, s, Through(s, Len(ring))), v, shift)
           runs(shift, indexed) == {s \in Starts(ring) : indexed => meets(BoxOfRun(ring, s), seen(v, shift))}
           stroked(shift, indexed) == UNION {steps(s, shift) : s \in runs(shift, indexed)}
<1>1. \A indexed \in BOOLEAN :
        Borrow(ring, v, indexed) = {step \in UNION {stroked(shift, indexed) : shift \in Shifts(v)} : Visible(step, v)}
  BY DEF Borrow
<1>2. Shifts(v) = {0}
  BY SeenInside
<1>3. \A indexed \in BOOLEAN : Borrow(ring, v, indexed) = {step \in stroked(0, indexed) : Visible(step, v)}
  <2> HIDE DEF stroked
  <2> QED
    BY <1>1, <1>2
<1>4. ASSUME NEW step \in stroked(0, FALSE), Visible(step, v) PROVE step \in stroked(0, TRUE)
  <2>1. PICK s \in Starts(ring) : step \in steps(s, 0)
    OBVIOUS
  <2>2. meets(BoxOfRun(ring, s), seen(v, 0))
    BY <1>4, <2>1, SeenRunsMeet
  <2> HIDE DEF steps
  <2> QED
    BY <2>1, <2>2
<1>5. stroked(0, TRUE) \subseteq stroked(0, FALSE)
  <2> HIDE DEF steps
  <2> QED
    OBVIOUS
<1> HIDE DEF stroked
<1> QED
  BY <1>3, <1>4, <1>5

\* What was handed in was not refused, and what is drawn is drawn of it.
CullInv ==
  /\ given \in Seq(Int \X Int)
  /\ kindOf \in {"line", "area"} => OnGlobe(given)
  /\ IsBorrowed => /\ kindOf \in {"line", "area"} /\ how.view \in MapViews
                   /\ ready = Borrow(given, how.view, TRUE)

LEMMA CullNext == CullInv /\ [ShapeNext]_geometryVars => CullInv'
<1> SUFFICES ASSUME CullInv, [ShapeNext]_geometryVars PROVE CullInv'
  OBVIOUS
<1>1. ASSUME NEW lon \in Lons, NEW lat \in Lats, AddPosition(<<lon, lat>>) PROVE CullInv'
  <2>1. given' = Append(given, <<lon, lat>>) /\ kindOf = "none" /\ kindOf' = kindOf /\ ready' = ready /\ how' = how
    BY <1>1 DEF AddPosition
  <2>2. lon \in Int /\ lat \in Int
    BY GeometryAssumption
  <2>3. given' \in Seq(Int \X Int)
    BY <2>1, <2>2 DEF CullInv
  <2> QED
    BY <2>1, <2>3 DEF CullInv, IsBorrowed
<1>2. ASSUME NEW kind \in {"line", "area"}, HandInRing(kind) PROVE CullInv'
  <2>1. /\ kindOf = "none" /\ given # <<>> /\ given' = given /\ ready' = ready /\ how' = how
        /\ kindOf' = IF checkFeature(given, kind) THEN kind ELSE "refused"
    BY <1>2 DEF HandInRing
  <2>2. kindOf' \in {"line", "area"} => OnGlobe(given)
    BY <2>1 DEF CullInv, OnGlobe, checkFeature
  <2> QED
    BY <2>1, <2>2 DEF CullInv, IsBorrowed, OnGlobe
<1>3. ASSUME NEW tolerance \in Tolerances, Prepare(tolerance) PROVE CullInv'
  <2>1. given' = given /\ kindOf' = kindOf /\ how' = [as |-> "prepared", tolerance |-> tolerance]
    BY <1>3 DEF Prepare
  <2>2. ~IsBorrowed'
    BY <2>1 DEF IsBorrowed
  <2> QED
    BY <2>1, <2>2 DEF CullInv, OnGlobe
<1>4. ASSUME NEW v \in MapViews, DrawFromMemory(v) PROVE CullInv'
  <2>1. /\ given' = given /\ kindOf' = kindOf /\ kindOf \in {"line", "area"}
        /\ how' = [as |-> "memory", view |-> v] /\ ready' = Borrow(given, v, TRUE)
    BY <1>4 DEF DrawFromMemory
  <2>2. how'.view = v
    BY <2>1
  <2> QED
    BY <2>1, <2>2 DEF CullInv, OnGlobe
<1>5. CASE UNCHANGED geometryVars
  BY <1>5 DEF CullInv, geometryVars, IsBorrowed, OnGlobe
<1> QED
  BY <1>1, <1>2, <1>3, <1>4, <1>5 DEF ShapeNext

\* Of a view inside the world, the runs that the index has read draw what
\* reading the whole ring draws (borrow.go, borrowRing and seen).
THEOREM CullingLosesNothing == ShapeSpec => []IndexOnlyCulls
<1>1. ShapeInit => CullInv
  BY DEF ShapeInit, CullInv, IsBorrowed, NotYet
<1>2. CullInv => IndexOnlyCulls
  <2> SUFFICES ASSUME CullInv, IsBorrowed, Inside(how.view) PROVE ready = Borrow(given, how.view, FALSE)
    BY DEF IndexOnlyCulls, Inside
  <2>1. OnGlobe(given) /\ how.view \in MapViews /\ ready = Borrow(given, how.view, TRUE)
    BY DEF CullInv
  <2> QED
    BY <2>1, CullingIsSafe
<1> QED
  BY <1>1, <1>2, CullNext, PTL DEF ShapeSpec
=============================================================================

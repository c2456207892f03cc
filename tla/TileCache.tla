------------------------------ MODULE TileCache ------------------------------
(***************************************************************************)
(* The memory cache of decoded tiles (internal/tiles/cache.go), which      *)
(* several maps may share.  Each operation holds the cache's lock from end *)
(* to end and is one action.  A tile is its key and its size; the count of *)
(* reads is kept as the order it gives the tiles on hand.                  *)
(***************************************************************************)
EXTENDS Integers, Sequences, FiniteSets, FiniteSetsExt

CONSTANTS
    Keys,       \* keys of tiles
    Fetched,    \* the keys of fetched tiles; the others are embedded
    Sizes,      \* the bytes a decoded tile may take
    Cap,        \* the cache's limit
    Maps,       \* the maps that share it, each with one pin set
    Wanted      \* what a map may publish: sets of chains, nearest tile first

ASSUME CacheAssumption ==
    /\ IsFiniteSet(Keys)
    /\ Fetched \subseteq Keys
    /\ Sizes \subseteq Nat \ {0}
    /\ Cap \in Nat \ {0}
    /\ \A wanted \in Wanted : wanted \subseteq Seq(Keys)
    /\ {} \in Wanted

VARIABLES
    items,      \* the keys on hand
    bytes,      \* per key: the size of its tile, 0 when not on hand
    older,      \* pairs of keys on hand, the one read earlier first
    held,       \* the bytes held, as counted
    views,      \* the maps registered
    chains,     \* per map: the chains it last published
    over,       \* need alone was over the cap when last settled
    warning     \* and that has not been told yet

vars == <<items, bytes, older, held, views, chains, over, warning>>

-----------------------------------------------------------------------------
(* Need.                                                                   *)

BytesOf(S, size) == MapThenSumSet(LAMBDA k : size[k], S)

\* The places of a chain that are on hand, and the first of them.
OnHand(chain, S)   == {i \in DOMAIN chain : chain[i] \in S}
IsFirst(i, chain, S) ==
    i \in OnHand(chain, S) /\ \A j \in OnHand(chain, S) : i <= j

firstLocked(chain, S) == {chain[i] : i \in {h \in DOMAIN chain : IsFirst(h, chain, S)}}

\* Mutant: only the wanted tile itself is need, not what stands in for it.
NeededExactly(S, live, wanted) ==
    UNION {{chain[1] : chain \in {c \in wanted[m] : c[1] \in S}} : m \in live}

neededLocked(S, live, wanted) ==
    UNION {UNION {firstLocked(chain, S) : chain \in wanted[m]} : m \in live}

Need(S, size, live, wanted) == BytesOf(neededLocked(S, live, wanted), size)

-----------------------------------------------------------------------------
(* Operations.                                                             *)

\* A tile read or put is younger than every other.
Touched(order, S, k) ==
    {p \in order : k \notin {p[1], p[2]}} \cup ((S \ {k}) \X {k})

\* The spares settling drops: oldest first, and none once the rest fits.
IsShed(shed, S, size, total, order, need) ==
    /\ shed \subseteq S \ need
    /\ \A a \in shed, b \in S \ (need \cup shed) : <<a, b>> \in order
    /\ total - BytesOf(shed, size) <= Cap \/ shed = S \ need
    /\ \A a \in shed : (\A b \in shed \ {a} : <<b, a>> \in order) =>
           total - BytesOf(shed \ {a}, size) > Cap

Warns(need) == need > Cap /\ ~over

\* settleLocked, on what an operation left on hand and wanted.
settleLocked(S, size, total, order, live, wanted) ==
    LET needed == neededLocked(S, live, wanted)
        need   == BytesOf(needed, size)
    IN  /\ \E shed \in SUBSET S :
              /\ IsShed(shed, S, size, total, order, needed)
              /\ items' = S \ shed
              /\ bytes' = [k \in Keys |-> IF k \in shed THEN 0 ELSE size[k]]
              /\ older' = {p \in order : p[1] \notin shed /\ p[2] \notin shed}
              /\ held' = total - BytesOf(shed, size)
        /\ warning' = (warning \/ Warns(need))
        /\ over' = (need > Cap)
        /\ views' = live
        /\ chains' = wanted

Put(k, n) ==
    settleLocked(items \cup {k}, [bytes EXCEPT ![k] = n], held - bytes[k] + n,
                 Touched(older, items, k), views, chains)

\* Get, and First for the key it finds.
Read(k) ==
    /\ k \in items
    /\ older' = Touched(older, items, k)
    /\ UNCHANGED <<items, bytes, held, views, chains, over, warning>>

Register(m) ==
    /\ m \notin views
    /\ views' = views \cup {m}
    /\ chains' = [chains EXCEPT ![m] = {}]
    /\ UNCHANGED <<items, bytes, older, held, over, warning>>

Publish(m, wanted) ==
    /\ m \in views
    /\ settleLocked(items, bytes, held, older, views,
                    [chains EXCEPT ![m] = wanted])

\* Mutant: what only the map needed is left for the next Put to find.
WithdrawUnsettled(m) ==
    /\ m \in views
    /\ views' = views \ {m}
    /\ chains' = [chains EXCEPT ![m] = {}]
    /\ UNCHANGED <<items, bytes, older, held, over, warning>>

Withdraw(m) ==
    /\ m \in views
    /\ settleLocked(items, bytes, held, older, views \ {m},
                    [chains EXCEPT ![m] = {}])

\* Purge: every fetched tile goes, needed or not, and nothing is settled.
EmptyFetched ==
    LET gone == items \cap Fetched
    IN  /\ items' = items \ gone
        /\ bytes' = [k \in Keys |-> IF k \in gone THEN 0 ELSE bytes[k]]
        /\ older' = {p \in older : p[1] \notin gone /\ p[2] \notin gone}
        /\ held' = held - BytesOf(gone, bytes)
        /\ UNCHANGED <<views, chains, over, warning>>

TakeWarning ==
    /\ warning
    /\ warning' = FALSE
    /\ UNCHANGED <<items, bytes, older, held, views, chains, over>>

Init ==
    /\ items = {} /\ older = {} /\ held = 0
    /\ bytes = [k \in Keys |-> 0]
    /\ views = {}
    /\ chains = [m \in Maps |-> {}]
    /\ over = FALSE /\ warning = FALSE

Next ==
    \/ \E k \in Keys, n \in Sizes : Put(k, n)
    \/ \E k \in Keys : Read(k)
    \/ \E m \in Maps : Register(m) \/ Withdraw(m)
    \/ \E m \in Maps, wanted \in Wanted : Publish(m, wanted)
    \/ EmptyFetched
    \/ TakeWarning

Spec == Init /\ [][Next]_vars

-----------------------------------------------------------------------------
(* Properties.                                                             *)

\* The bytes counted, through puts of the same tile again, evictions and
\* purges, are the bytes of the tiles on hand; older is their read order.
TypeOK ==
    /\ items \subseteq Keys
    /\ bytes \in [Keys -> Sizes \cup {0}]
    /\ \A k \in Keys : bytes[k] = 0 <=> k \notin items
    /\ older \subseteq items \X items
    /\ \A a, b \in items : a # b => (<<a, b>> \in older <=> <<b, a>> \notin older)
    /\ held = BytesOf(items, bytes)
    /\ views \subseteq Maps
    /\ chains \in [Maps -> Wanted]
    /\ over \in BOOLEAN /\ warning \in BOOLEAN

\* "Need comes first and the cap second": a cache over its cap holds need and
\* nothing else, whichever map put, moved, closed or purged last.
OnlyNeedIsOverCap ==
    held > Cap => items = neededLocked(items, views, chains)

\* Some place of the chain on hand now is, or is bettered, after the step.
KeptOrBetter(chain) ==
    \A i \in OnHand(chain, items) : \E j \in OnHand(chain, items') : j <= i

\* "A tile a live view draws is never evicted": short of a purge, nothing a map
\* does, its own puts included, makes what any live view draws worse.
DrawnNeverWorse ==
    [][EmptyFetched \/
         \A m \in views \cap views' : \A chain \in chains[m] \cap chains'[m] :
             KeptOrBetter(chain)]_vars

\* The warning is given at most once a stretch: it rises only as need goes over
\* the cap, however often the cache settles before need is under it again.
ToldOnceAStretch ==
    [][~warning /\ warning' =>
         /\ Need(items, bytes, views, chains) <= Cap
         /\ Need(items', bytes', views', chains') > Cap]_vars
=============================================================================

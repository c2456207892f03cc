------------------------------ MODULE DiskCache ------------------------------
(***************************************************************************)
(* The disk cache of raw tiles (internal/tiles/disk.go), the jobs that     *)
(* read and store through it (tileJob.load), the owner calls that open,    *)
(* purge and let go of it, and crashes of the process.                     *)
(*                                                                         *)
(* Every operation of Disk holds its lock from end to end and is one       *)
(* action; a job makes several, with anything in between, and a crash may  *)
(* come inside one.  What was written to a root survives; the Disk that    *)
(* CacheRoot opened over it does not.  A Disk is known by its number, so   *)
(* that a job still inside knows the one it began with.                    *)
(*                                                                         *)
(* A file is its tile, its time and whether its bytes are all there.  The  *)
(* times are ticks of the host's clock; 0 is a clock not yet known.        *)
(***************************************************************************)
EXTENDS Integers, FiniteSets, FiniteSetsExt

CONSTANTS
    Roots,      \* directories the host may name
    Tiles,      \* tiles, as the source and the place a path is made of
    Sizes,      \* the bytes a tile may take
    Limit,      \* the cap in bytes
    Workers,    \* goroutines that run jobs
    Views,      \* sets of tiles a plan may find the view to need
    Ages,       \* maximum ages the host may set; 0: tiles do not age
    MaxTime,    \* bound: the latest time
    MaxSerial,  \* bound: temporary files begun by one Disk
    MaxUpsets,  \* bound: upsets in one behaviour
    Reopens,    \* whether the host may name the root it already holds
    NoJob       \* what a goroutine holds between jobs

ASSUME DiskAssumption ==
    /\ IsFiniteSet(Tiles)
    /\ Sizes \subseteq Nat \ {0}
    /\ Limit \in Nat \ {0}
    /\ Views \subseteq SUBSET Tiles
    /\ Ages \subseteq Nat
    /\ MaxTime \in Nat \ {0}
    /\ {MaxSerial, MaxUpsets} \subseteq Nat
    /\ Reopens \in BOOLEAN
    /\ NoJob \notin [tile : Tiles, via : Nat, began : Nat, at : 0 .. MaxTime]

VARIABLES
    files,      \* per root: the files in it
    root,       \* the roots of the Disk the map holds: one, or none
    disk,       \* the number of the last Disk opened
    gen,        \* the generation of the Disk held
    held,       \* the bytes it counts
    due,        \* when its oldest file reaches its age; 0: it holds none
    dueKnown,   \* whether due was worked out
    inView,     \* the tiles the view was last planned to need
    serial,     \* temporary files it began
    maxAge,     \* the maximum age
    now,        \* the clock of the last plan
    owner,      \* where the owner's call is
    opening,    \* the root it is opening, with the bytes found there
    shut,       \* whether the map is closed
    pc, job,    \* per worker: where its job is; its tile, and the Disk,
                \* generation and clock it began with
    stale,      \* workers whose Disk was purged or let go since (history)
    failed,     \* whether the file system ever failed or lost bytes (history)
    upsets      \* upsets so far (history)

fileVars   == <<files, held, due, dueKnown, serial, failed>>
diskVars   == <<root, disk, gen, inView>>
ownerVars  == <<maxAge, now, owner, opening, shut>>
workerVars == <<pc, job, stale>>
vars == <<fileVars, diskVars, ownerVars, workerVars, upsets>>

None == 0

\* A tile's file has serial 0, a temporary file the serial it was made with.
File == [tile : Tiles, temp : 0 .. MaxSerial, at : 1 .. MaxTime,
         size : Sizes \cup {0}, whole : BOOLEAN]

-----------------------------------------------------------------------------
(* What a root holds.                                                      *)

BytesOf(S) == MapThenSumSet(LAMBDA f : f.size, S)

Here == UNION {files[r] : r \in root}

Named(S, t) == {f \in S : f.tile = t /\ f.temp = 0}

expired(f, clock) ==
    /\ clock # None
    /\ f.at > clock \/ (maxAge > 0 /\ clock - f.at >= maxAge)

Oldest(S) == CHOOSE t \in {f.at : f \in S} : \A f \in S : t <= f.at

EarliestDue(S) == IF S = {} THEN None ELSE Oldest(S) + maxAge

\* An upset is another root, age or purge, a crash, or a fault of the file
\* system: what comes at any moment, and only so often.
Upset == upsets < MaxUpsets /\ upsets' = upsets + 1

\* A fault is an upset.
Fault(failing) ==
    IF failing THEN Upset /\ failed' = TRUE ELSE UNCHANGED <<upsets, failed>>

Rewritten(S) == files' = [r \in Roots |-> IF r \in root THEN S ELSE files[r]]

\* removeLocked on a set of files.
Remove(doomed) ==
    \E gone \in SUBSET doomed :
        /\ Rewritten(Here \ gone)
        /\ held' = held - BytesOf(gone)
        /\ Fault(gone # doomed)

-----------------------------------------------------------------------------
(* Expiry, and the cap.                                                    *)

Walks(clock) ==
    /\ maxAge > 0 /\ clock # None
    /\ ~dueKnown \/ (due # None /\ clock >= due)

\* Expire: nothing before the oldest file is due; then a walk that removes the
\* aged and works out the next due time from the others.
Expire(clock) ==
    LET aged == {f \in Here : expired(f, clock)}
        left == Here \ aged
    IN  IF Walks(clock)
        THEN /\ Remove(aged)
             /\ due' = EarliestDue(left)
             /\ dueKnown' = TRUE
             /\ UNCHANGED serial
        ELSE UNCHANGED <<fileVars, upsets>>

PrunedTo == (Limit \div 10) * 9

\* Mutant: the view's files are pruned like any other.
PrunableAll(fs) == fs

Prunable(fs) == {f \in fs : f.temp > 0 \/ f.tile \notin inView}

\* pruneLocked: recount, then drop the oldest fetched down to nine tenths of
\* the cap, passing by the view's; which of two equally old goes is left open.
IsPruned(shed, fs, stuck) ==
    LET spare == Prunable(fs) \ stuck
    IN  /\ shed \subseteq spare
        /\ \A f \in shed, g \in spare \ shed : f.at <= g.at
        /\ BytesOf(fs \ shed) <= PrunedTo \/ shed = spare
        /\ shed # {} => \E f \in shed :
               /\ \A g \in shed : g.at <= f.at
               /\ BytesOf(fs \ (shed \ {f})) > PrunedTo

\* What a store leaves: the files it made, pruned if the count is over the cap.
StoreSettles(fs, count) ==
    IF count > Limit
    THEN \E stuck \in SUBSET Prunable(fs), shed \in SUBSET fs :
            /\ IsPruned(shed, fs, stuck)
            /\ Rewritten(fs \ shed)
            /\ held' = BytesOf(fs \ shed)
            /\ Fault(stuck # {})
    ELSE /\ Rewritten(fs)
         /\ held' = count
         /\ UNCHANGED <<failed, upsets>>

-----------------------------------------------------------------------------
(* Owner calls, with the map's lock.                                       *)

Owner == owner = "free" /\ ~shut

\* Whether the Disk that a goroutine's job began with is still the map's.
Live(w) == root # {} /\ job[w].via = disk

\* Jobs that have read the generation of the Disk held.
Inside == {w \in Workers : pc[w] \notin {"idle", "begun"} /\ Live(w)}

\* A plan: the clock of this frame, any, and what the view needs of the disk.
Plan(clock, view) ==
    /\ Owner
    /\ now' = clock
    /\ inView' = IF root = {} THEN inView ELSE view
    /\ UNCHANGED <<fileVars, root, disk, gen, maxAge, owner, opening, shut,
                   workerVars, upsets>>

\* CacheRoot, first half: open the root and count what is in it.  The Disk the
\* map holds is still in use.
OpenRoot(r) ==
    /\ Owner /\ Upset
    /\ Reopens \/ r \notin root
    /\ owner' = "opening"
    /\ opening' = {<<r, BytesOf(files[r])>>}
    /\ UNCHANGED <<fileVars, diskVars, maxAge, now, shut, workerVars>>

\* The age of the new Disk and its first expiry, which walks.
FirstExpiry(r, counted) ==
    LET aged == {f \in files[r] : expired(f, now)}
    IN  \E gone \in SUBSET aged :
            /\ files' = [files EXCEPT ![r] = @ \ gone]
            /\ held' = counted - BytesOf(gone)
            /\ due' = EarliestDue(files[r] \ aged)
            /\ dueKnown' = TRUE
            /\ Fault(gone # aged)

\* CacheRoot, second half: let go of the old Disk, and expire the new one
\* before any job has it.
SwapRoot ==
    /\ owner = "opening"
    /\ \E o \in opening :
         /\ root' = {o[1]}
         /\ IF maxAge > 0 /\ now # None THEN FirstExpiry(o[1], o[2])
            ELSE /\ held' = o[2]
                 /\ due' = None /\ dueKnown' = FALSE
                 /\ UNCHANGED <<files, failed, upsets>>
    /\ disk' = disk + 1
    /\ gen' = 0 /\ serial' = 0 /\ inView' = {}
    /\ stale' = stale \cup Inside
    /\ owner' = "free" /\ opening' = {}
    /\ UNCHANGED <<maxAge, now, shut, pc, job>>

\* Release, by CacheRoot with no directory or by Close: the Disk is gone.
LetGo ==
    /\ root' = {}
    /\ stale' = stale \cup Inside
    /\ gen' = 0 /\ held' = 0 /\ due' = None /\ dueKnown' = FALSE
    /\ serial' = 0 /\ inView' = {}
    /\ UNCHANGED <<files, disk, failed, maxAge, now, owner, opening, pc, job,
                   upsets>>

TurnOff == Owner /\ root # {} /\ LetGo /\ UNCHANGED shut
Close   == Owner /\ LetGo /\ shut' = TRUE

\* SetCacheMaxAge: two calls to the Disk.
SetMaxAge(age) ==
    /\ Owner /\ Upset
    /\ age # maxAge
    /\ maxAge' = age
    /\ dueKnown' = FALSE
    /\ owner' = "aging"
    /\ UNCHANGED <<files, held, due, serial, failed, diskVars, now, opening,
                   shut, workerVars>>

OwnerExpires ==
    /\ owner = "aging"
    /\ IF root # {} THEN Expire(now) ELSE UNCHANGED <<fileVars, upsets>>
    /\ owner' = "free"
    /\ UNCHANGED <<diskVars, maxAge, now, opening, shut, workerVars>>

\* What a purge does to the files and the counts.
Emptied ==
    \E gone \in SUBSET Here :
        /\ Rewritten(Here \ gone)
        /\ held' = BytesOf(Here \ gone)
        /\ failed' = (failed \/ gone # Here)

\* Mutant: the generation is left as it was.
EmptySameGeneration ==
    /\ Owner /\ root # {} /\ Upset
    /\ Emptied
    /\ dueKnown' = FALSE
    /\ stale' = stale \cup Inside
    /\ UNCHANGED <<due, serial, diskVars, ownerVars, pc, job>>

\* Purge, on disk: every file goes, and what is left is counted afresh.
Empty ==
    /\ Owner /\ root # {} /\ Upset
    /\ Emptied
    /\ dueKnown' = FALSE
    /\ gen' = gen + 1
    /\ stale' = stale \cup Inside
    /\ UNCHANGED <<due, serial, root, disk, inView, ownerVars, pc, job>>

\* Verify: whatever does not decode goes.
ReadBack ==
    /\ Owner /\ root # {}
    /\ Remove({f \in Here : ~f.whole})
    /\ UNCHANGED <<due, dueKnown, serial, diskVars, ownerVars, workerVars>>

-----------------------------------------------------------------------------
(* A job, on a goroutine.                                                  *)

Goes(w, step) ==
    /\ pc' = [pc EXCEPT ![w] = step]
    /\ job' = IF step = "idle" THEN [job EXCEPT ![w] = NoJob] ELSE job
    /\ stale' = IF step = "idle" THEN stale \ {w} ELSE stale

\* Run reads the pipeline's options: the Disk, and the clock of the last plan.
Begin(w, t) ==
    /\ pc[w] = "idle" /\ ~shut /\ root # {}
    /\ pc' = [pc EXCEPT ![w] = "begun"]
    /\ job' = [job EXCEPT ![w] =
                 [tile |-> t, via |-> disk, began |-> 0, at |-> now]]
    /\ UNCHANGED <<fileVars, diskVars, ownerVars, stale, upsets>>

\* Generation, of the Disk the job has; one let go refuses every store.
ReadGeneration(w) ==
    /\ pc[w] = "begun"
    /\ pc' = [pc EXCEPT ![w] = "expire"]
    /\ job' = [job EXCEPT ![w].began = IF Live(w) THEN gen ELSE @]
    /\ UNCHANGED <<fileVars, diskVars, ownerVars, stale, upsets>>

JobExpires(w) ==
    /\ pc[w] = "expire"
    /\ IF Live(w) THEN Expire(job[w].at) ELSE UNCHANGED <<fileVars, upsets>>
    /\ Goes(w, "load")
    /\ UNCHANGED <<diskVars, ownerVars>>

\* Load: served, or aged and removed, or not there.
Load(w) ==
    LET here == IF Live(w) THEN Named(Here, job[w].tile) ELSE {}
        bad  == {f \in here : f.size = 0 \/ expired(f, job[w].at)}
    IN  /\ pc[w] = "load"
        /\ Remove(bad)
        /\ Goes(w, IF here = bad THEN "fetch"
                   ELSE IF \A f \in here : f.whole THEN "idle" ELSE "delete")
        /\ UNCHANGED <<due, dueKnown, serial, diskVars, ownerVars>>

\* Delete, for a cached file that does not decode.
Delete(w) ==
    /\ pc[w] = "delete"
    /\ Remove(IF Live(w) THEN Named(Here, job[w].tile) ELSE {})
    /\ Goes(w, "fetch")
    /\ UNCHANGED <<due, dueKnown, serial, diskVars, ownerVars>>

\* The fetch fails, or its bytes decode and are to be kept.
Fetch(w) ==
    /\ pc[w] = "fetch"
    /\ Goes(w, "idle") \/ Goes(w, "store")
    /\ UNCHANGED <<fileVars, diskVars, ownerVars, upsets>>

Stores(w) == pc[w] = "store" /\ Live(w) /\ job[w].began = gen

\* The time a file gets: the job's clock, or the system's when there is none.
Dates(w) == IF job[w].at # None THEN {job[w].at} ELSE 1 .. MaxTime

New(w, temp, date, size, whole) ==
    [tile |-> job[w].tile, temp |-> temp, at |-> date, size |-> size,
     whole |-> whole]

TempTaken(w, n) == \E f \in Here : f.tile = job[w].tile /\ f.temp = n

\* The due time after a store: a file the system dated is left to a walk.
DueAfterStore(w) ==
    LET age == job[w].at + maxAge
    IN  IF dueKnown /\ (job[w].at = None \/ due = None \/ age < due)
        THEN due' = age /\ dueKnown' = (job[w].at # None)
        ELSE UNCHANGED <<due, dueKnown>>

\* A temporary file, written and dated, takes the place of what the tile had.
Placed(w, date, size) ==
    LET old == Named(Here, job[w].tile)
    IN  StoreSettles((Here \ old) \cup {New(w, 0, date, size, TRUE)},
                     held - BytesOf(old) + size)

\* Store that succeeds, and then keeps the cap.
Store(w) ==
    /\ Stores(w) /\ serial < MaxSerial
    /\ serial' = serial + 1
    /\ ~TempTaken(w, serial')
    /\ \E size \in Sizes, date \in Dates(w) : Placed(w, date, size)
    /\ DueAfterStore(w)
    /\ Goes(w, "idle")
    /\ UNCHANGED <<diskVars, ownerVars>>

\* Store refused: the cache moved on while the tile was fetched.
StoreRefused(w) ==
    /\ pc[w] = "store" /\ ~Stores(w)
    /\ Goes(w, "idle")
    /\ UNCHANGED <<fileVars, diskVars, ownerVars, upsets>>

\* Store that cannot make its temporary file: one is there already, left by a
\* crash, or the file system fails.
StoreBlocked(w) ==
    /\ Stores(w) /\ serial < MaxSerial
    /\ serial' = serial + 1
    /\ Fault(~TempTaken(w, serial'))
    /\ Goes(w, "idle")
    /\ UNCHANGED <<files, held, due, dueKnown, diskVars, ownerVars>>

\* What may be left of the tile's files by a store that ends part of the way: a
\* temporary file, of part or all of the bytes, and no longer the old file once
\* all is written.
Leftovers(w) ==
    LET old == Named(Here, job[w].tile)
    IN  {Here} \cup
        {Here \cup {New(w, serial + 1, d, s, FALSE)} :
            d \in 1 .. MaxTime, s \in Sizes \cup {0}} \cup
        {(Here \ o) \cup {New(w, serial + 1, d, s, TRUE)} :
            o \in {{}, old}, d \in Dates(w), s \in Sizes}

\* A write or a rename that fails: the temporary file is removed, if that does
\* not fail too, and the old file may have gone.
StoreFails(w) ==
    /\ Stores(w) /\ serial < MaxSerial
    /\ serial' = serial + 1
    /\ ~TempTaken(w, serial')
    /\ \E left \in Leftovers(w), stays \in BOOLEAN :
         /\ Rewritten(IF stays THEN left ELSE {f \in left : f.temp # serial'})
         /\ held' = held - BytesOf(Here \ left)
    /\ Fault(TRUE)
    /\ Goes(w, "idle")
    /\ UNCHANGED <<due, dueKnown, diskVars, ownerVars>>

JobNext(w) ==
    \/ \E t \in Tiles : Begin(w, t)
    \/ ReadGeneration(w) \/ JobExpires(w) \/ Load(w) \/ Delete(w) \/ Fetch(w)
    \/ Store(w) \/ StoreRefused(w) \/ StoreBlocked(w) \/ StoreFails(w)

-----------------------------------------------------------------------------
(* The rest of the world.                                                  *)

Midway == {w \in Workers : /\ Stores(w) /\ serial < MaxSerial
                           /\ ~TempTaken(w, serial + 1)}

\* Mutant: the file is written where it will stay.
CrashLeavesInPlace ==
    {Here} \cup
    {(Here \ Named(Here, job[w].tile)) \cup {New(w, 0, d, s, FALSE)} :
        w \in Midway, d \in 1 .. MaxTime, s \in Sizes \cup {0}}

\* A crash inside a store leaves what the store had done by then.
CrashLeaves == {Here} \cup UNION {Leftovers(w) : w \in Midway}

\* The process ends, and another begins with nothing but the files; its host
\* sets a maximum age before it names a root, or none.
Crash ==
    /\ Upset
    /\ \E left \in CrashLeaves : Rewritten(left)
    /\ root' = {} /\ disk' = 0 /\ gen' = 0
    /\ held' = 0 /\ due' = None /\ dueKnown' = FALSE
    /\ serial' = 0 /\ inView' = {}
    /\ maxAge' \in Ages /\ now' = None
    /\ owner' = "free" /\ opening' = {} /\ shut' = FALSE
    /\ pc' = [w \in Workers |-> "idle"]
    /\ job' = [w \in Workers |-> NoJob]
    /\ stale' = {}
    /\ UNCHANGED failed

\* A file's bytes rot, or another program writes over them.
Rot ==
    /\ \E f \in Here :
          /\ f.whole
          /\ Rewritten((Here \ {f}) \cup
                 {[tile |-> f.tile, temp |-> f.temp, at |-> f.at,
                   size |-> f.size, whole |-> FALSE]})
    /\ Fault(TRUE)
    /\ UNCHANGED <<held, due, dueKnown, serial, diskVars, ownerVars, workerVars>>

Init ==
    /\ files = [r \in Roots |-> {}]
    /\ root = {} /\ disk = 0 /\ gen = 0
    /\ held = 0 /\ due = None /\ dueKnown = FALSE
    /\ serial = 0 /\ inView = {}
    /\ maxAge \in Ages /\ now = None
    /\ owner = "free" /\ opening = {} /\ shut = FALSE
    /\ pc = [w \in Workers |-> "idle"]
    /\ job = [w \in Workers |-> NoJob]
    /\ stale = {}
    /\ failed = FALSE /\ upsets = 0

OwnerNext ==
    \/ \E clock \in 1 .. MaxTime, view \in Views : Plan(clock, view)
    \/ \E r \in Roots : OpenRoot(r)
    \/ SwapRoot \/ TurnOff \/ Close
    \/ \E age \in Ages : SetMaxAge(age)
    \/ OwnerExpires \/ Empty \/ ReadBack

Next ==
    \/ OwnerNext
    \/ \E w \in Workers : JobNext(w)
    \/ Crash \/ Rot

Spec == Init /\ [][Next]_vars

-----------------------------------------------------------------------------
(* Properties.                                                             *)

WorkerStates == {"idle", "begun", "expire", "load", "delete", "fetch", "store"}

Job == [tile : Tiles, via : Nat, began : Nat, at : 0 .. MaxTime]

\* The type of every variable; a root has one file of each name.  What is left
\* by a failed write is never counted, so that removing it may take the count
\* below zero.
TypeOK ==
    /\ files \in [Roots -> SUBSET File]
    /\ \A r \in Roots : \A f, g \in files[r] :
          f.tile = g.tile /\ f.temp = g.temp => f = g
    /\ root \subseteq Roots /\ Cardinality(root) <= 1
    /\ disk \in Nat /\ gen \in Nat /\ held \in Int
    /\ due \in Nat
    /\ inView \subseteq Tiles
    /\ serial \in 0 .. MaxSerial
    /\ maxAge \in Ages /\ now \in 0 .. MaxTime
    /\ owner \in {"free", "opening", "aging"}
    /\ opening \subseteq Roots \X Nat
    /\ {dueKnown, shut, failed} \subseteq BOOLEAN
    /\ pc \in [Workers -> WorkerStates]
    /\ job \in [Workers -> Job \cup {NoJob}]
    /\ \A w \in Workers : job[w] = NoJob <=> pc[w] = "idle"
    /\ stale \subseteq Workers
    /\ upsets \in 0 .. MaxUpsets

\* The bytes counted are those in the root the map holds, through stores over
\* stores, expiry, pruning, purges, restarts and other roots: short of a file
\* system that fails, the cap is held against what is really there.
HeldIsWhatIsThere ==
    root # {} /\ ~failed => held = BytesOf(Here)

\* A crash at any point of a store leaves no part of a tile under its name.
NamedFilesAreWhole ==
    ~failed => \A r \in Roots, t \in Tiles : \A f \in Named(files[r], t) : f.whole

\* The disk is what the map takes it for: whole tiles, of the bytes counted.
DiskIsAsCounted == NamedFilesAreWhole /\ HeldIsWhatIsThere

Finishes(w) == pc[w] = "store" /\ pc'[w] = "idle" /\ root' = root

\* L-9.3: "No write lands after Purge, after CacheRoot changes or turns the
\* cache off, or after Close", from a fetch that was in flight.
NothingLandsLate ==
    [][\A w \in Workers : Finishes(w) /\ w \in stale => files' = files]_vars

\* L-9.4, "enforced ... in every job": once a job has expired the cache it
\* holds no file past its age, though nearly every job is spared the walk.
EveryJobDropsTheAged ==
    [][\A w \in Workers :
         /\ pc[w] = "expire" /\ pc'[w] = "load" /\ Live(w)
         /\ job[w].at # None /\ maxAge > 0 /\ ~failed'
         => \A f \in Here' : job[w].at - f.at < maxAge]_vars

\* What is to be gone is gone: purged it does not come back, aged it does not
\* stay.
NothingForgottenStays == NothingLandsLate /\ EveryJobDropsTheAged

\* A store that changed what is there leaves the cap kept, or only what the view
\* needs; and it took no file the view needs.
StoresHoldTheCap ==
    [][\A w \in Workers : Finishes(w) /\ files' # files /\ root # {} /\ ~failed' =>
         /\ \/ BytesOf(Here') <= Limit
            \/ \A f \in Here' : f.temp = 0 /\ f.tile \in inView
         /\ \A t \in inView : Named(Here, t) # {} => Named(Here', t) # {}]_vars
=============================================================================

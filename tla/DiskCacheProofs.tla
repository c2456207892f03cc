--------------------------- MODULE DiskCacheProofs ---------------------------
(***************************************************************************)
(* The disk cache keeps what it promises, for any roots, tiles, sizes,     *)
(* cap, goroutines, faults and crashes.                                    *)
(*                                                                         *)
(* No late write (NoLateWrites): a store whose Disk was purged or let go   *)
(* since its job read the generation writes nothing. The invariant behind  *)
(* it says that such a job's Disk is no longer the map's, or has moved on  *)
(* from the generation the job read (LateInv); numbers of Disks and        *)
(* generations only rise while a process lives, and its jobs end with it.  *)
(*                                                                         *)
(* No aged file (NoAgedFiles): a job that is spared the walk has nothing   *)
(* to remove. The invariant behind it says that due, where it is known, is *)
(* no later than the time any file of the cache reaches its age (DueInv).  *)
(*                                                                         *)
(* The bytes counted are those on disk (DiskIsCounted), and what a store   *)
(* leaves is within the cap (StoresKeepTheCap). The count is kept by       *)
(* adding and taking away, so that the invariant needs what a sum of bytes *)
(* is (FoldTheorems), and that nothing writes to a root between its count  *)
(* and its use (CountInv): the host does not name the root it holds.       *)
(***************************************************************************)
EXTENDS DiskCache, FoldTheorems

FilesTotal == files = [r \in Roots |-> files[r]]

CountsTyped ==
    /\ disk \in Nat /\ gen \in Nat
    /\ now \in 0 .. MaxTime

JobsTyped ==
    /\ pc \in [Workers -> WorkerStates]
    /\ job \in [Workers -> Job \cup {NoJob}]
    /\ \A w \in Workers : pc[w] # "idle" => job[w] \in Job

\* No job has a Disk or a generation that is still to come.
JobsArePast ==
    \A w \in Workers : pc[w] # "idle" =>
        /\ job[w].via <= disk
        /\ pc[w] # "begun" /\ Live(w) => job[w].began <= gen

StaleIsRefused ==
    \A w \in stale :
        /\ w \in Workers /\ pc[w] \notin {"idle", "begun"}
        /\ Live(w) => job[w].began < gen

LateInv == FilesTotal /\ CountsTyped /\ JobsTyped /\ JobsArePast /\ StaleIsRefused

-----------------------------------------------------------------------------
(* Files.                                                                  *)

LEMMA RewrittenTotal == ASSUME NEW S, Rewritten(S) PROVE FilesTotal'
BY DEF Rewritten, FilesTotal

LEMMA RemoveTotal == ASSUME NEW S, Remove(S) PROVE FilesTotal'
BY RewrittenTotal DEF Remove

LEMMA ExpireTotal == ASSUME NEW clock, FilesTotal, Expire(clock) PROVE FilesTotal'
<1>1. CASE Walks(clock)
  BY <1>1, RemoveTotal DEF Expire
<1>2. CASE ~Walks(clock)
  BY <1>2 DEF Expire, fileVars, FilesTotal
<1> QED
  BY <1>1, <1>2

LEMMA SettlesTotal ==
    ASSUME NEW S, NEW n, StoreSettles(S, n) PROVE FilesTotal'
BY RewrittenTotal DEF StoreSettles

-----------------------------------------------------------------------------
(* Steps of each kind.                                                     *)

\* A step of the owner that leaves the Disk and the jobs alone.
LEMMA OwnerKeeps ==
    ASSUME LateInv, FilesTotal', now' \in 0 .. MaxTime,
           UNCHANGED <<root, disk, gen, workerVars>>
    PROVE  LateInv'
BY DEF LateInv, CountsTyped, JobsTyped, JobsArePast, StaleIsRefused, Live, workerVars

\* A step of a job past its generation.
LEMMA JobKeeps ==
    ASSUME LateInv, FilesTotal', NEW w \in Workers, NEW step \in WorkerStates \ {"begun"},
           pc[w] \notin {"idle", "begun"}, Goes(w, step),
           UNCHANGED <<diskVars, ownerVars>>
    PROVE  LateInv'
<1> USE DEF LateInv, JobsTyped, Goes
<1>1. CountsTyped'
  BY DEF CountsTyped, diskVars, ownerVars
<1>2. CASE step = "idle"
  <2>1. JobsTyped'
    BY <1>2
  <2>2. \A x \in Workers : pc'[x] # "idle" =>
           x # w /\ pc'[x] = pc[x] /\ job'[x] = job[x] /\ Live(x)' = Live(x)
    BY <1>2 DEF Live, diskVars
  <2>3. JobsArePast'
    BY <2>2 DEF JobsArePast, diskVars
  <2>4. StaleIsRefused'
    BY <1>2, <2>2 DEF StaleIsRefused, diskVars
  <2> QED
    BY <1>1, <2>1, <2>3, <2>4
<1>3. CASE step # "idle"
  <2>1. JobsTyped' /\ job' = job /\ stale' = stale
    BY <1>3
  <2>2. \A x \in Workers : (pc'[x] = "idle" <=> pc[x] = "idle")
                        /\ (pc'[x] = "begun" <=> pc[x] = "begun")
                        /\ Live(x)' = Live(x)
    BY <1>3, <2>1 DEF Live, diskVars
  <2>3. JobsArePast' /\ StaleIsRefused'
    BY <2>1, <2>2 DEF JobsArePast, StaleIsRefused, diskVars
  <2> QED
    BY <1>1, <2>1, <2>3
<1> QED
  BY <1>2, <1>3

\* A purge, or letting the Disk go: the jobs inside it become stale.
LEMMA StaleKeeps ==
    ASSUME LateInv, FilesTotal', CountsTyped', UNCHANGED <<pc, job>>,
           stale' = stale \cup Inside,
           \/ UNCHANGED <<root, disk>> /\ gen' = gen + 1
           \/ root' = {} /\ UNCHANGED disk
           \/ disk' = disk + 1
    PROVE  LateInv'
<1> USE DEF LateInv, CountsTyped
<1>1. JobsTyped'
  BY DEF JobsTyped
<1>2. \A w \in Workers : pc[w] # "idle" =>
         /\ job[w].via \in Nat /\ job[w].began \in Nat
         /\ job[w].via <= disk'
  BY DEF JobsTyped, Job, JobsArePast
<1>3. \A w \in Workers : pc[w] # "idle" /\ Live(w)' =>
         /\ Live(w)
         /\ pc[w] # "begun" => job[w].began < gen'
  BY <1>2 DEF Live, JobsArePast
<1>4. JobsArePast'
  BY <1>2, <1>3 DEF JobsArePast
<1>5. StaleIsRefused'
  BY <1>2, <1>3 DEF StaleIsRefused, Inside
<1> QED
  BY <1>1, <1>4, <1>5

-----------------------------------------------------------------------------
(* The invariant.                                                          *)

LEMMA InitLate == Init => LateInv
BY DiskAssumption DEF Init, LateInv, FilesTotal, CountsTyped, JobsTyped, JobsArePast,
   StaleIsRefused, WorkerStates, None

LEMMA OwnerLate == LateInv /\ OwnerNext => LateInv'
<1> SUFFICES ASSUME LateInv, OwnerNext PROVE LateInv'
  OBVIOUS
<1>0. FilesTotal /\ now \in 0 .. MaxTime
  BY DEF LateInv, CountsTyped
<1>1. ASSUME NEW clock \in 1 .. MaxTime, NEW v \in Views, Plan(clock, v) PROVE LateInv'
  BY <1>0, <1>1, OwnerKeeps DEF Plan, fileVars, FilesTotal
<1>2. ASSUME NEW r \in Roots, OpenRoot(r) PROVE LateInv'
  BY <1>0, <1>2, OwnerKeeps DEF OpenRoot, fileVars, diskVars, FilesTotal
<1>3. CASE SwapRoot
  <2>1. FilesTotal'
    BY <1>0, <1>3 DEF SwapRoot, FirstExpiry, FilesTotal
  <2>2. CountsTyped'
    BY <1>3 DEF SwapRoot, CountsTyped, LateInv
  <2> QED
    BY <1>3, <2>1, <2>2, StaleKeeps DEF SwapRoot
<1>4. CASE TurnOff \/ Close
  <2>1. FilesTotal' /\ CountsTyped'
    BY <1>0, <1>4 DEF TurnOff, Close, LetGo, FilesTotal, CountsTyped, LateInv
  <2> QED
    BY <1>4, <2>1, StaleKeeps DEF TurnOff, Close, LetGo
<1>5. ASSUME NEW age \in Ages, SetMaxAge(age) PROVE LateInv'
  BY <1>0, <1>5, OwnerKeeps DEF SetMaxAge, diskVars, FilesTotal
<1>6. CASE OwnerExpires
  <2>1. FilesTotal'
    BY <1>0, <1>6, ExpireTotal DEF OwnerExpires, fileVars, FilesTotal
  <2> QED
    BY <1>0, <1>6, <2>1, OwnerKeeps DEF OwnerExpires, diskVars
<1>7. CASE Empty
  <2>1. FilesTotal' /\ CountsTyped'
    BY <1>7, RewrittenTotal DEF Empty, Emptied, CountsTyped, LateInv, ownerVars
  <2> QED
    BY <1>7, <2>1, StaleKeeps DEF Empty
<1>8. CASE ReadBack
  BY <1>0, <1>8, RemoveTotal, OwnerKeeps DEF ReadBack, diskVars, ownerVars
<1> QED
  BY <1>1, <1>2, <1>3, <1>4, <1>5, <1>6, <1>7, <1>8 DEF OwnerNext

LEMMA JobLate == ASSUME LateInv, NEW w \in Workers, JobNext(w) PROVE LateInv'
<1>0. FilesTotal
  BY DEF LateInv
<1>1. ASSUME NEW t \in Tiles, Begin(w, t) PROVE LateInv'
  <2> USE DEF LateInv, CountsTyped
  <2>1. FilesTotal' /\ CountsTyped'
    BY <1>1 DEF Begin, fileVars, diskVars, ownerVars, FilesTotal
  <2>2. JobsTyped'
    BY <1>1 DEF Begin, JobsTyped, Job, WorkerStates
  <2>3. pc[w] = "idle" /\ pc'[w] = "begun" /\ job'[w].via = disk
    BY <1>1 DEF Begin, JobsTyped
  <2>4. \A x \in Workers \ {w} : pc'[x] = pc[x] /\ job'[x] = job[x] /\ Live(x)' = Live(x)
    BY <1>1 DEF Begin, JobsTyped, Live, diskVars
  <2>5. disk' = disk /\ gen' = gen /\ stale' = stale
    BY <1>1 DEF Begin, diskVars
  <2>6. JobsArePast' /\ StaleIsRefused'
    BY <2>3, <2>4, <2>5 DEF JobsArePast, StaleIsRefused
  <2> QED
    BY <2>1, <2>2, <2>6
<1>2. CASE ReadGeneration(w)
  <2> USE DEF LateInv, CountsTyped
  <2>1. FilesTotal' /\ CountsTyped'
    BY <1>2 DEF ReadGeneration, fileVars, diskVars, ownerVars, FilesTotal
  <2>2. JobsTyped'
    BY <1>2 DEF ReadGeneration, JobsTyped, Job, WorkerStates
  <2>3. /\ pc[w] = "begun" /\ pc'[w] = "expire"
        /\ job'[w].via = job[w].via
        /\ Live(w) => job'[w].began = gen
    BY <1>2 DEF ReadGeneration, JobsTyped, Job
  <2>4. \A x \in Workers \ {w} : pc'[x] = pc[x] /\ job'[x] = job[x]
    BY <1>2 DEF ReadGeneration, JobsTyped
  <2>5. root' = root /\ disk' = disk /\ gen' = gen /\ stale' = stale
    BY <1>2 DEF ReadGeneration, diskVars
  <2>6. JobsArePast' /\ StaleIsRefused'
    BY <2>3, <2>4, <2>5 DEF JobsArePast, StaleIsRefused, Live
  <2> QED
    BY <2>1, <2>2, <2>6
<1>3. CASE JobExpires(w)
  <2>1. FilesTotal'
    BY <1>0, <1>3, ExpireTotal DEF JobExpires, fileVars, FilesTotal
  <2> QED
    BY <1>3, <2>1, JobKeeps DEF JobExpires, WorkerStates
<1>4. CASE Load(w)
  BY <1>4, RemoveTotal, JobKeeps DEF Load, WorkerStates
<1>5. CASE Delete(w)
  BY <1>5, RemoveTotal, JobKeeps DEF Delete, WorkerStates
<1>6. CASE Fetch(w)
  <2>1. FilesTotal'
    BY <1>0, <1>6 DEF Fetch, fileVars, FilesTotal
  <2> QED
    BY <1>6, <2>1, JobKeeps DEF Fetch, WorkerStates
<1>7. CASE Store(w)
  <2>1. FilesTotal'
    BY <1>7, SettlesTotal DEF Store, Placed
  <2> QED
    BY <1>7, <2>1, JobKeeps DEF Store, Stores, WorkerStates
<1>8. CASE StoreRefused(w) \/ StoreBlocked(w)
  <2>1. FilesTotal'
    BY <1>0, <1>8 DEF StoreRefused, StoreBlocked, fileVars, FilesTotal
  <2> QED
    BY <1>8, <2>1, JobKeeps DEF StoreRefused, StoreBlocked, Stores, WorkerStates
<1>9. CASE StoreFails(w)
  BY <1>9, RewrittenTotal, JobKeeps DEF StoreFails, Stores, WorkerStates
<1> QED
  BY <1>1, <1>2, <1>3, <1>4, <1>5, <1>6, <1>7, <1>8, <1>9 DEF JobNext

LEMMA CrashLate == LateInv /\ Crash => LateInv'
<1> SUFFICES ASSUME LateInv, Crash PROVE LateInv'
  OBVIOUS
<1>1. FilesTotal'
  BY RewrittenTotal DEF Crash
<1>2. CountsTyped' /\ JobsTyped' /\ JobsArePast' /\ StaleIsRefused'
  BY DiskAssumption DEF Crash, CountsTyped, JobsTyped, JobsArePast, StaleIsRefused,
     WorkerStates, None
<1> QED
  BY <1>1, <1>2 DEF LateInv

LEMMA RotLate == LateInv /\ Rot => LateInv'
BY RewrittenTotal, OwnerKeeps DEF Rot, diskVars, ownerVars, LateInv, CountsTyped

LEMMA LateStep == LateInv /\ [Next]_vars => LateInv'
<1> SUFFICES ASSUME LateInv, [Next]_vars PROVE LateInv'
  OBVIOUS
<1>1. CASE UNCHANGED vars
  BY <1>1, OwnerKeeps DEF vars, fileVars, diskVars, ownerVars, workerVars, LateInv,
     FilesTotal, CountsTyped
<1> QED
  BY <1>1, OwnerLate, JobLate, CrashLate, RotLate DEF Next

\* Every state satisfies the invariant, whatever the roots, tiles, sizes, cap,
\* goroutines, faults and crashes.
THEOREM LateInvariant == Spec => []LateInv
BY LateStep, InitLate, PTL DEF Spec

-----------------------------------------------------------------------------
(* The promise.                                                            *)

\* A stale store writes nothing.
LEMMA StaleStoreWritesNothing ==
    ASSUME LateInv, [Next]_vars, NEW w \in Workers, Finishes(w), w \in stale
    PROVE  files' = files
<1>1. pc[w] = "store" /\ pc'[w] = "idle" /\ ~Stores(w) /\ root' = root
  <2>1. Live(w) => job[w] \in Job /\ job[w].began < gen
    BY DEF Finishes, LateInv, StaleIsRefused, JobsTyped
  <2> QED
    BY <2>1 DEF Finishes, Stores, LateInv, CountsTyped, Job
<1>2. pc # pc'
  BY <1>1
<1>3. PICK x \in Workers : Crash \/ JobNext(x)
  <2>1. ~OwnerNext
    BY <1>2 DEF OwnerNext, Plan, OpenRoot, SwapRoot, TurnOff, Close, LetGo, SetMaxAge,
       OwnerExpires, Empty, ReadBack, workerVars
  <2>2. ~Rot
    BY <1>2 DEF Rot, workerVars
  <2> QED
    BY <1>2, <2>1, <2>2 DEF Next, vars, workerVars
<1>4. CASE Crash
  <2>1. root = {}
    BY <1>1, <1>4 DEF Crash
  <2>2. PICK left : Rewritten(left)
    BY <1>4 DEF Crash
  <2> QED
    BY <2>1, <2>2 DEF Rewritten, LateInv, FilesTotal
<1>5. CASE JobNext(x)
  <2>1. x = w
    <3>1. \A y \in Workers : y # x => pc'[y] = pc[y]
      BY <1>5 DEF JobNext, Begin, ReadGeneration, JobExpires, Load, Delete, Fetch,
         Store, StoreRefused, StoreBlocked, StoreFails, Goes, LateInv, JobsTyped
    <3> QED
      BY <1>1, <3>1
  <2>2. StoreRefused(w)
    BY <1>1, <1>5, <2>1 DEF JobNext, Begin, ReadGeneration, JobExpires, Load, Delete,
       Fetch, Store, StoreBlocked, StoreFails
  <2> QED
    BY <2>2 DEF StoreRefused, fileVars
<1> QED
  BY <1>3, <1>4, <1>5

\* "No write lands after Purge, after CacheRoot changes or turns the cache off,
\* or after Close", of any fetch in flight, in every run.
THEOREM NoLateWrites == Spec => NothingLandsLate
<1>1. LateInv /\ [Next]_vars =>
         [\A w \in Workers : Finishes(w) /\ w \in stale => files' = files]_vars
  BY StaleStoreWritesNothing
<1> QED
  BY <1>1, LateInvariant, PTL DEF Spec, NothingLandsLate

-----------------------------------------------------------------------------
(* What due is worth.                                                      *)

TimesTyped == \A r \in Roots : \A f \in files[r] : f.at \in Nat

DueTyped ==
    /\ root \subseteq Roots
    /\ \A o \in opening : o[1] \in Roots
    /\ maxAge \in Nat /\ due \in Nat
    /\ TimesTyped

Early(S, time) == \A f \in S : time # None /\ time <= f.at + maxAge

DueIsEarly == ~failed /\ maxAge > 0 /\ dueKnown => Early(Here, due)

DueInv == LateInv /\ DueTyped /\ DueIsEarly

LEMMA OldestIsLeast ==
    ASSUME NEW S, \A f \in S : f.at \in Nat, S # {}
    PROVE  Oldest(S) \in Nat /\ \A f \in S : Oldest(S) <= f.at
<1> DEFINE times  == {f.at : f \in S}
           before == {p \in Nat \X Nat : p[1] < p[2]}
<1>1. times \subseteq Nat /\ times # {}
  OBVIOUS
<1>2. IsWellFoundedOn(before, Nat)
  BY NatLessThanWellFounded DEF OpToRel
<1>3. \A i, j \in Nat : i < j => <<i, j>> \in before
  OBVIOUS
<1>4. Oldest(S) = CHOOSE t \in times : \A f \in S : t <= f.at
  BY DEF Oldest
<1>5. \A f \in S : f.at \in times
  OBVIOUS
<1>6. \A t \in times : \E f \in S : t = f.at
  OBVIOUS
<1> HIDE DEF before, times
<1>7. PICK least \in times : \A t \in times : <<t, least>> \notin before
  BY <1>1, <1>2, WFMin
<1>8. ASSUME NEW t \in times PROVE least <= t
  <2>1. t \in Nat /\ least \in Nat
    BY <1>1
  <2>2. ~(t < least)
    BY <2>1, <1>3, <1>7
  <2> QED
    BY <2>1, <2>2
<1>9. \A f \in S : least <= f.at
  BY <1>5, <1>8
<1> QED
  BY <1>1, <1>4, <1>6, <1>9

LEMMA EarliestDueIsEarly ==
    ASSUME NEW S, \A f \in S : f.at \in Nat, maxAge \in Nat
    PROVE  /\ EarliestDue(S) \in Nat
           /\ maxAge > 0 => Early(S, EarliestDue(S))
BY OldestIsLeast DEF EarliestDue, Early, None

\* What the Disk's root holds after a rewriting.
LEMMA HereAfter ==
    ASSUME NEW S, DueTyped, Rewritten(S), root' = root, root # {}
    PROVE  Here' = S
<1>1. \A r \in root : files'[r] = S
  BY DEF Rewritten, DueTyped
<1> QED
  BY <1>1 DEF Here

LEMMA TimesAfter ==
    ASSUME NEW S, DueTyped, Rewritten(S), root # {} => \A f \in S : f.at \in Nat
    PROVE  TimesTyped'
BY DEF Rewritten, DueTyped, TimesTyped

LEMMA TimesHere == ASSUME DueTyped PROVE \A f \in Here : f.at \in Nat
BY DEF DueTyped, TimesTyped, Here

LEMMA HereEmpty == ASSUME root = {} PROVE Here = {}
BY DEF Here

\* A step that takes files away, or none, and leaves due.
LEMMA DueKept ==
    ASSUME DueInv, TimesTyped', root' = root, maxAge' = maxAge,
           UNCHANGED <<due, dueKnown>>,
           failed => failed', ~failed' => Here' \subseteq Here,
           \A o \in opening' : o[1] \in Roots
    PROVE  DueTyped' /\ DueIsEarly'
BY DEF DueInv, DueTyped, DueIsEarly, Early

LEMMA RemoveKeeps ==
    ASSUME DueInv, NEW S, S \subseteq Here, Remove(S), root' = root
    PROVE  /\ TimesTyped'
           /\ Here' \subseteq Here
           /\ failed => failed'
           /\ ~failed' => Here' = Here \ S
<1>1. PICK gone \in SUBSET S : Rewritten(Here \ gone) /\ Fault(gone # S)
  BY DEF Remove
<1>2. TimesTyped'
  BY <1>1, TimesAfter, TimesHere DEF DueInv
<1>3. CASE root = {}
  BY <1>1, <1>2, <1>3, HereEmpty DEF Fault, Here
<1>4. CASE root # {}
  BY <1>1, <1>2, <1>4, HereAfter DEF Fault, DueInv
<1> QED
  BY <1>3, <1>4

\* Expire, at the clock of a plan or of a job, of a Disk that is held.
LEMMA ExpireKeeps ==
    ASSUME DueInv, NEW clock \in Nat, Expire(clock), root' = root, maxAge' = maxAge,
           opening' = opening, root # {}
    PROVE  /\ DueTyped' /\ DueIsEarly'
           /\ maxAge > 0 /\ clock # None /\ ~failed' =>
                  \A f \in Here' : clock - f.at < maxAge
<1> DEFINE aged == {f \in Here : expired(f, clock)}
<1>0. DueTyped /\ maxAge \in Nat /\ \A f \in Here : f.at \in Nat
  BY TimesHere DEF DueInv, DueTyped
<1>1. CASE Walks(clock)
  <2>1. Remove(aged) /\ due' = EarliestDue(Here \ aged)
    BY <1>1 DEF Expire
  <2>2. TimesTyped' /\ (~failed' => Here' = Here \ aged)
    BY <2>1, RemoveKeeps
  <2>3. due' \in Nat /\ (maxAge > 0 => Early(Here \ aged, due'))
    BY <1>0, <2>1, EarliestDueIsEarly
  <2>4. DueTyped' /\ DueIsEarly'
    BY <1>0, <2>2, <2>3 DEF DueTyped, DueIsEarly, Early
  <2>5. \A f \in Here \ aged : clock # None /\ maxAge > 0 => clock - f.at < maxAge
    BY <1>0 DEF expired
  <2> QED
    BY <2>2, <2>4, <2>5
<1>2. CASE ~Walks(clock)
  <2>1. UNCHANGED <<files, due, dueKnown, failed>>
    BY <1>2 DEF Expire, fileVars
  <2>2. Here' = Here
    BY <2>1 DEF Here
  <2>3. DueTyped' /\ DueIsEarly'
    BY <2>1, <2>2, DueKept, <1>0 DEF DueTyped, TimesTyped
  <2>4. ASSUME maxAge > 0, clock # None, ~failed, NEW f \in Here
        PROVE  clock - f.at < maxAge
    <3>1. dueKnown /\ (due = None \/ clock < due)
      BY <1>0, <1>2, <2>4 DEF Walks, DueTyped
    <3>2. due # None /\ due <= f.at + maxAge
      BY <2>4, <3>1 DEF DueInv, DueIsEarly, Early
    <3> QED
      BY <1>0, <2>4, <3>1, <3>2 DEF DueTyped
  <2> QED
    BY <2>1, <2>2, <2>3, <2>4
<1> QED
  BY <1>1, <1>2

-----------------------------------------------------------------------------
(* The steps, for due.                                                     *)

LEMMA DateTyped ==
    ASSUME LateInv, NEW w \in Workers, pc[w] = "store", NEW date \in Dates(w)
    PROVE  /\ date \in Nat /\ job[w].at \in Nat
           /\ job[w].at # None => date = job[w].at
BY DiskAssumption DEF LateInv, JobsTyped, Job, Dates, None

LEMMA LeftoverTimes ==
    ASSUME DueInv, NEW w \in Workers, pc[w] = "store", NEW left \in Leftovers(w)
    PROVE  \A f \in left : f.at \in Nat
<1>1. DueTyped /\ LateInv
  BY DEF DueInv
<1>2. \A f \in Here : f.at \in Nat
  BY <1>1, TimesHere
<1>3. \A d \in Dates(w) : d \in Nat
  BY <1>1, DateTyped
<1>4. \A f \in left : f \in Here \/ \E d \in Nat : f.at = d
  BY <1>3, DiskAssumption DEF Leftovers, New
<1> QED
  BY <1>2, <1>4

LEMMA StoreDue ==
    ASSUME DueInv, NEW w \in Workers, Store(w)
    PROVE  DueTyped' /\ DueIsEarly'
<1> DEFINE old == Named(Here, job[w].tile)
           put(date, size) == New(w, 0, date, size, TRUE)
<1>1. /\ pc[w] = "store" /\ root # {}
      /\ root' = root /\ opening' = opening /\ maxAge' = maxAge
      /\ DueAfterStore(w)
  BY DEF Store, Stores, Live, diskVars, ownerVars
<1>2. PICK size \in Sizes, date \in Dates(w) :
         StoreSettles((Here \ old) \cup {put(date, size)},
                      held - BytesOf(old) + size)
  BY DEF Store, Placed
<1>3. PICK T : /\ Rewritten(T)
               /\ T \subseteq Here \cup {put(date, size)}
               /\ failed => failed'
  BY <1>2 DEF StoreSettles, Fault
<1>4. /\ put(date, size).at = date
      /\ date \in Nat /\ job[w].at \in Nat
      /\ job[w].at # None => date = job[w].at
  <2>1. LateInv
    BY DEF DueInv
  <2>2. put(date, size).at = date
    BY DEF New
  <2>3. /\ date \in Nat /\ job[w].at \in Nat
        /\ job[w].at # None => date = job[w].at
    BY <1>1, <2>1, DateTyped
  <2> QED
    BY <2>2, <2>3
<1> HIDE DEF put
<1>5. DueTyped /\ \A f \in Here : f.at \in Nat
  BY TimesHere DEF DueInv
<1>6. \A f \in T : f.at \in Nat
  BY <1>3, <1>4, <1>5
<1>7. TimesTyped' /\ Here' = T
  BY <1>1, <1>3, <1>5, <1>6, TimesAfter, HereAfter
<1>8. due' \in Nat
  BY <1>1, <1>4, <1>5 DEF DueAfterStore, DueTyped
<1>9. DueTyped'
  BY <1>1, <1>5, <1>7, <1>8 DEF DueTyped
<1>10. ASSUME ~failed', maxAge' > 0, dueKnown', NEW f \in Here'
       PROVE  due' # None /\ due' <= f.at + maxAge'
  <2>1. maxAge > 0 /\ dueKnown /\ job[w].at # None /\ Early(Here, due)
    BY <1>1, <1>3, <1>10 DEF DueAfterStore, DueInv, DueIsEarly
  <2>2. f = put(date, size) \/ f \in Here
    BY <1>3, <1>7
  <2>3. /\ due' # None /\ due' <= job[w].at + maxAge
        /\ f \in Here => due' <= due
    <3> DEFINE time == job[w].at
    <3>1. time \in Nat /\ time # 0 /\ maxAge \in Nat /\ due \in Nat
      BY <1>4, <1>5, <2>1 DEF DueTyped, None
    <3>2. f \in Here => due # 0
      BY <2>1 DEF Early, None
    <3>3. due' = IF due = 0 \/ time + maxAge < due THEN time + maxAge ELSE due
      BY <1>1, <2>1 DEF DueAfterStore, None
    <3> HIDE DEF time
    <3>4. due' # 0 /\ due' <= time + maxAge /\ (f \in Here => due' <= due)
      BY <3>1, <3>2, <3>3
    <3> QED
      BY <3>4 DEF time, None
  <2>4. CASE f = put(date, size)
    BY <1>1, <1>4, <2>1, <2>3, <2>4
  <2>5. CASE f \in Here
    BY <1>1, <1>5, <1>8, <2>1, <2>3, <2>5 DEF Early, DueTyped
  <2> QED
    BY <2>2, <2>4, <2>5
<1> QED
  BY <1>9, <1>10 DEF DueIsEarly, Early

\* A step that leaves the files and due alone.
LEMMA SameDue ==
    ASSUME DueInv, UNCHANGED <<files, root, due, dueKnown, failed, maxAge, opening>>
    PROVE  DueTyped' /\ DueIsEarly'
BY DEF DueInv, DueTyped, TimesTyped, DueIsEarly, Early, Here

LEMMA OwnerDue == ASSUME DueInv, OwnerNext PROVE DueTyped' /\ DueIsEarly'
<1>0. DueTyped /\ LateInv /\ now \in Nat
  BY DiskAssumption DEF DueInv, LateInv, CountsTyped
<1>1. ASSUME NEW clock \in 1 .. MaxTime, NEW v \in Views, Plan(clock, v)
      PROVE  DueTyped' /\ DueIsEarly'
  BY <1>1, SameDue DEF Plan, fileVars
<1>2. ASSUME NEW r \in Roots, OpenRoot(r) PROVE DueTyped' /\ DueIsEarly'
  <2>1. DueTyped'
    BY <1>0, <1>2 DEF OpenRoot, DueTyped, TimesTyped, fileVars, diskVars
  <2> QED
    BY <1>2, <2>1 DEF OpenRoot, fileVars, diskVars, DueInv, DueIsEarly, Early, Here
<1>3. CASE SwapRoot
  <2>1. PICK o \in opening :
           /\ root' = {o[1]}
           /\ IF maxAge > 0 /\ now # None THEN FirstExpiry(o[1], o[2])
              ELSE /\ held' = o[2]
                   /\ due' = None /\ dueKnown' = FALSE
                   /\ UNCHANGED <<files, failed, upsets>>
    BY <1>3 DEF SwapRoot
  <2>2. o[1] \in Roots /\ maxAge' = maxAge /\ opening' = {}
    BY <1>0, <1>3 DEF SwapRoot, DueTyped
  <2>3. CASE maxAge > 0 /\ now # None
    <3> DEFINE aged == {f \in files[o[1]] : expired(f, now)}
    <3>1. PICK gone \in SUBSET aged :
             /\ files' = [files EXCEPT ![o[1]] = @ \ gone]
             /\ due' = EarliestDue(files[o[1]] \ aged)
             /\ Fault(gone # aged)
      BY <2>1, <2>3 DEF FirstExpiry
    <3>2. /\ \A f \in files[o[1]] : f.at \in Nat
          /\ files = [r \in Roots |-> files[r]]
      BY <1>0, <2>2 DEF DueTyped, TimesTyped, LateInv, FilesTotal
    <3>3. /\ due' \in Nat
          /\ maxAge > 0 => Early(files[o[1]] \ aged, due')
      BY <1>0, <3>1, <3>2, EarliestDueIsEarly DEF DueTyped
    <3>4. files'[o[1]] = files[o[1]] \ gone /\ Here' = files'[o[1]]
      BY <2>1, <2>2, <3>1, <3>2 DEF Here
    <3>5. TimesTyped'
      BY <1>0, <3>1, <3>2 DEF DueTyped, TimesTyped
    <3>6. DueTyped'
      BY <1>0, <2>1, <2>2, <3>3, <3>5 DEF DueTyped
    <3>7. ~failed' => gone = aged
      BY <3>1 DEF Fault
    <3> QED
      BY <2>2, <3>3, <3>4, <3>6, <3>7 DEF DueIsEarly, Early
  <2>4. CASE ~(maxAge > 0 /\ now # None)
    BY <1>0, <2>1, <2>2, <2>4 DEF DueTyped, TimesTyped, DueIsEarly, None
  <2> QED
    BY <2>3, <2>4
<1>4. CASE TurnOff \/ Close
  BY <1>0, <1>4 DEF TurnOff, Close, LetGo, DueTyped, TimesTyped, DueIsEarly, None
<1>5. ASSUME NEW age \in Ages, SetMaxAge(age) PROVE DueTyped' /\ DueIsEarly'
  BY <1>0, <1>5, DiskAssumption DEF SetMaxAge, diskVars, DueTyped, TimesTyped, DueIsEarly
<1>6. CASE OwnerExpires
  <2>1. CASE root # {}
    BY <1>0, <1>6, <2>1, ExpireKeeps DEF OwnerExpires, diskVars
  <2>2. CASE root = {}
    BY <1>6, <2>2, SameDue DEF OwnerExpires, diskVars, fileVars
  <2> QED
    BY <2>1, <2>2
<1>7. CASE Empty
  <2>1. PICK gone \in SUBSET Here : Rewritten(Here \ gone)
    BY <1>7 DEF Empty, Emptied
  <2>2. TimesTyped'
    BY <1>0, <2>1, TimesAfter, TimesHere
  <2> QED
    BY <1>0, <1>7, <2>2 DEF Empty, ownerVars, DueTyped, DueIsEarly
<1>8. CASE ReadBack
  <2>1. /\ Remove({f \in Here : ~f.whole})
        /\ UNCHANGED <<root, maxAge, due, dueKnown, opening>>
    BY <1>8 DEF ReadBack, diskVars, ownerVars
  <2> QED
    BY <1>0, <2>1, RemoveKeeps, DueKept DEF DueTyped
<1> QED
  BY <1>1, <1>2, <1>3, <1>4, <1>5, <1>6, <1>7, <1>8 DEF OwnerNext

LEMMA JobDue == ASSUME DueInv, NEW w \in Workers, JobNext(w) PROVE DueTyped' /\ DueIsEarly'
<1>0. DueTyped /\ LateInv
  BY DEF DueInv
<1>1. ASSUME \/ \E t \in Tiles : Begin(w, t)
             \/ ReadGeneration(w) \/ Fetch(w) \/ StoreRefused(w)
      PROVE  DueTyped' /\ DueIsEarly'
  BY <1>1, SameDue DEF Begin, ReadGeneration, Fetch, StoreRefused, fileVars, diskVars,
     ownerVars
<1>2. CASE JobExpires(w)
  <2>1. CASE Live(w)
    <3>1. job[w].at \in Nat /\ root # {}
      BY <1>0, <1>2, <2>1, DiskAssumption DEF JobExpires, LateInv, JobsTyped, Job, Live
    <3> QED
      BY <1>2, <2>1, <3>1, ExpireKeeps DEF JobExpires, diskVars, ownerVars
  <2>2. CASE ~Live(w)
    BY <1>2, <2>2, SameDue DEF JobExpires, diskVars, ownerVars, fileVars
  <2> QED
    BY <2>1, <2>2
<1>3. ASSUME NEW S, S \subseteq Here, Remove(S),
             UNCHANGED <<due, dueKnown, diskVars, ownerVars>>
      PROVE  DueTyped' /\ DueIsEarly'
  <2>1. UNCHANGED <<root, maxAge, due, dueKnown, opening>>
    BY <1>3 DEF diskVars, ownerVars
  <2> QED
    BY <1>0, <1>3, <2>1, RemoveKeeps, DueKept DEF DueTyped
<1>4. CASE Load(w)
  <2> DEFINE here == IF Live(w) THEN Named(Here, job[w].tile) ELSE {}
             bad  == {f \in here : f.size = 0 \/ expired(f, job[w].at)}
  <2>1. Remove(bad) /\ UNCHANGED <<due, dueKnown, diskVars, ownerVars>>
    BY <1>4 DEF Load
  <2>2. bad \subseteq Here
    BY DEF Named
  <2> HIDE DEF bad
  <2> QED
    BY <1>3, <2>1, <2>2
<1>5. CASE Delete(w)
  <2> DEFINE bad == IF Live(w) THEN Named(Here, job[w].tile) ELSE {}
  <2>1. Remove(bad) /\ UNCHANGED <<due, dueKnown, diskVars, ownerVars>>
    BY <1>5 DEF Delete
  <2>2. bad \subseteq Here
    BY DEF Named
  <2> HIDE DEF bad
  <2> QED
    BY <1>3, <2>1, <2>2
<1>6. CASE StoreBlocked(w)
  <2>1. UNCHANGED <<files, root, due, dueKnown, maxAge, opening>> /\ (failed => failed')
    BY <1>6 DEF StoreBlocked, diskVars, ownerVars, Fault
  <2>2. Here' = Here /\ TimesTyped'
    BY <1>0, <2>1 DEF Here, DueTyped, TimesTyped
  <2> QED
    BY <1>0, <2>1, <2>2, DueKept DEF DueTyped
<1>7. CASE StoreFails(w)
  <2>1. pc[w] = "store" /\ failed'
    BY <1>7 DEF StoreFails, Stores, Fault
  <2>2. PICK left \in Leftovers(w), stays \in BOOLEAN :
           Rewritten(IF stays THEN left ELSE {f \in left : f.temp # serial'})
    BY <1>7 DEF StoreFails
  <2>3. \A f \in left : f.at \in Nat
    BY <2>1, LeftoverTimes
  <2>4. TimesTyped'
    BY <1>0, <2>2, <2>3, TimesAfter
  <2> QED
    BY <1>0, <1>7, <2>1, <2>4 DEF StoreFails, diskVars, ownerVars, DueTyped, DueIsEarly
<1> QED
  BY <1>1, <1>2, <1>4, <1>5, <1>6, <1>7, StoreDue DEF JobNext

LEMMA WorldDue == ASSUME DueInv, Crash \/ Rot PROVE DueTyped' /\ DueIsEarly'
<1>0. DueTyped /\ \A f \in Here : f.at \in Nat
  BY TimesHere DEF DueInv
<1>1. CASE Crash
  <2>1. PICK left \in CrashLeaves : Rewritten(left)
    BY <1>1 DEF Crash
  <2>2. \A f \in left : f.at \in Nat
    BY <1>0, LeftoverTimes DEF CrashLeaves, Midway, Stores
  <2>3. TimesTyped'
    BY <1>0, <2>1, <2>2, TimesAfter
  <2> QED
    BY <1>1, <2>3, DiskAssumption DEF Crash, DueTyped, DueIsEarly, None
<1>2. CASE Rot
  <2>1. failed' /\ UNCHANGED <<due, dueKnown, root, maxAge, opening>>
    BY <1>2 DEF Rot, Fault, diskVars, ownerVars
  <2>2. TimesTyped'
    BY <1>0, <1>2, TimesAfter DEF Rot
  <2> QED
    BY <1>0, <2>1, <2>2 DEF DueTyped, DueIsEarly
<1> QED
  BY <1>1, <1>2

\* Where due is known it is no later than the time any file held reaches its
\* age, in every state short of a file system that fails.
THEOREM DueInvariant == Spec => []DueInv
<1>1. Init => DueInv
  BY InitLate, DiskAssumption DEF Init, DueInv, DueTyped, TimesTyped, DueIsEarly, None
<1>2. DueInv /\ [Next]_vars => DueInv'
  <2> SUFFICES ASSUME DueInv, [Next]_vars PROVE DueInv'
    OBVIOUS
  <2>1. LateInv'
    BY LateStep DEF DueInv
  <2>2. DueTyped' /\ DueIsEarly'
    <3>1. CASE UNCHANGED vars
      BY <3>1, SameDue DEF vars, fileVars, diskVars, ownerVars
    <3> QED
      BY <3>1, OwnerDue, JobDue, WorldDue DEF Next
  <2> QED
    BY <2>1, <2>2 DEF DueInv
<1> QED
  BY <1>1, <1>2, PTL DEF Spec

\* "Enforced ... in every job": a job that has expired the cache, whether it
\* walked it or was spared the walk, leaves no file past its age.
THEOREM NoAgedFiles == Spec => EveryJobDropsTheAged
<1> DEFINE Expires(w) ==
             /\ pc[w] = "expire" /\ pc'[w] = "load" /\ Live(w)
             /\ job[w].at # None /\ maxAge > 0 /\ ~failed'
<1>1. ASSUME DueInv, Next, NEW w \in Workers, Expires(w)
      PROVE  \A f \in Here' : job[w].at - f.at < maxAge
  <2>1. pc \in [Workers -> WorkerStates] /\ job[w].at \in Nat /\ root # {}
    BY <1>1, DiskAssumption DEF DueInv, LateInv, JobsTyped, Job, Live
  <2>2. PICK x \in Workers : JobNext(x)
    BY <1>1, <2>1 DEF Next, OwnerNext, Plan, OpenRoot, SwapRoot, TurnOff, Close, LetGo,
       SetMaxAge, OwnerExpires, Empty, ReadBack, Rot, Crash, workerVars
  <2>3. x = w
    BY <1>1, <2>1, <2>2 DEF JobNext, Begin, ReadGeneration, JobExpires, Load, Delete,
       Fetch, Store, StoreRefused, StoreBlocked, StoreFails, Goes
  <2>4. JobExpires(w)
    BY <1>1, <2>2, <2>3 DEF JobNext, Begin, ReadGeneration, Load, Delete, Fetch, Store,
       StoreRefused, StoreBlocked, StoreFails, Stores
  <2>5. Expire(job[w].at) /\ UNCHANGED <<root, maxAge, opening>>
    BY <1>1, <2>4 DEF JobExpires, diskVars, ownerVars
  <2> QED
    BY <1>1, <2>1, <2>5, ExpireKeeps
<1>2. DueInv /\ [Next]_vars =>
         [\A w \in Workers : Expires(w) =>
              \A f \in Here' : job[w].at - f.at < maxAge]_vars
  BY <1>1
<1> QED
  BY <1>2, DueInvariant, PTL DEF Spec, EveryJobDropsTheAged

\* What was purged does not come back, and what is past its age is gone.
THEOREM ForgottenIsGone == Spec => NothingForgottenStays
BY NoLateWrites, NoAgedFiles DEF NothingForgottenStays

-----------------------------------------------------------------------------
(* The bytes counted.                                                      *)

\* A set of files that can be counted; and one with no part of a tile under a
\* tile's name.
Countable(S) == IsFiniteSet(S) /\ \A f \in S : f.size \in Nat /\ f.temp \in Nat
WholeUnderNames(S) == \A t \in Tiles : \A f \in Named(S, t) : f.whole

\* The bytes of some files are a sum of their sizes.
LEMMA BytesAreASum ==
    ASSUME NEW S, IsFiniteSet(S), NEW R, S \subseteq R
    PROVE  BytesOf(S) = SumOf([f \in R |-> f.size], S)
<1> DEFINE size == [f \in R |-> f.size]
           Ups(g) == g = [s \in SUBSET S |->
                        IF s = {} THEN 0
                        ELSE (CHOOSE x \in s : TRUE).size + g[s \ {CHOOSE x \in s : TRUE}]]
<1>1. BytesOf(S) = (CHOOSE g : Ups(g))[S]
  BY DEF BytesOf, MapThenSumSet, MapThenFoldSet
<1>2. ASSUME NEW s \in SUBSET S, s # {}
      PROVE  size[CHOOSE x \in s : TRUE] = (CHOOSE x \in s : TRUE).size
  <2>1. (CHOOSE x \in s : TRUE) \in s
    BY <1>2
  <2> QED
    BY <2>1
<1> HIDE DEF size
<1>3. ASSUME NEW g
      PROVE  [s \in SUBSET S |->
                 IF s = {} THEN 0
                 ELSE (CHOOSE x \in s : TRUE).size + g[s \ {CHOOSE x \in s : TRUE}]]
             = [s \in SUBSET S |->
                 IF s = {} THEN 0
                 ELSE size[CHOOSE x \in s : TRUE] + g[s \ {CHOOSE x \in s : TRUE}]]
  BY <1>2
<1>4. \A g : Ups(g) <=> SumsUp(g, size, S)
  BY <1>3 DEF SumsUp
<1> HIDE DEF Ups
<1>5. \E g : Ups(g)
  BY <1>4, SumsExist
<1>6. Ups(CHOOSE g : Ups(g))
  BY <1>5, Zenon
<1>7. SumsUp(CHOOSE g : Ups(g), size, S)
  BY <1>4, <1>6
<1>8. SumsUp(CHOOSE g : SumsUp(g, size, S), size, S)
  BY SumOfSumsUp
<1>9. (CHOOSE g : Ups(g))[S] = (CHOOSE g : SumsUp(g, size, S))[S]
  BY <1>7, <1>8, SumsAgree
<1> QED
  BY <1>1, <1>9 DEF SumOf, size

LEMMA BytesAreNatural ==
    ASSUME NEW S, Countable(S)
    PROVE  BytesOf(S) \in Nat
<1>1. \A f \in S : [g \in S |-> g.size][f] \in Nat
  BY DEF Countable
<1> QED
  BY <1>1, BytesAreASum, SumIsNatural DEF Countable

LEMMA BytesWithout ==
    ASSUME NEW S, Countable(S), NEW T \in SUBSET S
    PROVE  Countable(S \ T) /\ BytesOf(S \ T) = BytesOf(S) - BytesOf(T)
<1> DEFINE size == [f \in S |-> f.size]
<1>1. \A f \in S : size[f] \in Int
  BY DEF Countable
<1>2. IsFiniteSet(S) /\ IsFiniteSet(T) /\ IsFiniteSet(S \ T)
  BY FS_Subset DEF Countable
<1>3. /\ BytesOf(S) = SumOf(size, S)
      /\ BytesOf(T) = SumOf(size, T)
      /\ BytesOf(S \ T) = SumOf(size, S \ T)
  BY <1>2, BytesAreASum
<1> HIDE DEF size
<1>4. SumOf(size, S) = SumOf(size, T) + SumOf(size, S \ T)
  BY <1>1, <1>2, SumSplits
<1>5. SumOf(size, T) \in Int /\ SumOf(size, S \ T) \in Int
  BY <1>1, <1>2, SumIsANumber
<1> QED
  BY <1>2, <1>3, <1>4, <1>5 DEF Countable

LEMMA BytesWith ==
    ASSUME NEW S, Countable(S), NEW f, f \notin S, f.size \in Nat, f.temp \in Nat
    PROVE  Countable(S \cup {f}) /\ BytesOf(S \cup {f}) = BytesOf(S) + f.size
<1> DEFINE R == S \cup {f}
           size == [g \in R |-> g.size]
<1>1. \A g \in R : size[g] \in Int
  BY DEF Countable
<1>2. IsFiniteSet(S) /\ IsFiniteSet(R)
  BY FS_AddElement DEF Countable
<1>3. BytesOf(S) = SumOf(size, S) /\ BytesOf(R) = SumOf(size, R) /\ size[f] = f.size
  BY <1>2, BytesAreASum
<1> HIDE DEF size
<1>4. SumOf(size, R) = size[f] + SumOf(size, S)
  BY <1>1, <1>2, SumWith
<1>5. SumOf(size, S) \in Int
  BY <1>1, <1>2, SumIsANumber
<1>6. Countable(R)
  BY <1>2 DEF Countable
<1> QED
  BY <1>3, <1>4, <1>5, <1>6

OneRoot == root = {} \/ \E r \in Roots : root = {r}

\* What was counted of a root that is being opened is still there: no job has it.
OpeningIsCounted ==
    owner = "opening" =>
        \A o \in opening :
            /\ o[1] \in Roots \ root
            /\ o[2] = BytesOf(files[o[1]])

FilesCounted == \A r \in Roots : Countable(files[r])

CountInv ==
    /\ FilesCounted /\ OneRoot /\ OpeningIsCounted
    /\ serial \in Nat
    /\ DiskIsAsCounted

\* What the Disk's root holds is what its one root does.
LEMMA HereIsCounted ==
    ASSUME CountInv
    PROVE  /\ Countable(Here)
           /\ ~failed => WholeUnderNames(Here)
           /\ ~failed /\ root # {} => held = BytesOf(Here)
<1>1. CASE root = {}
  <2>1. Here = {}
    BY <1>1 DEF Here
  <2> QED
    BY <1>1, <2>1, FS_EmptySet DEF Countable, WholeUnderNames, Named
<1>2. CASE root # {}
  <2>1. PICK r \in Roots : root = {r}
    BY <1>2 DEF CountInv, OneRoot
  <2>2. Here = files[r]
    BY <2>1 DEF Here
  <2> QED
    BY <1>2, <2>2 DEF CountInv, FilesCounted, DiskIsAsCounted, NamedFilesAreWhole,
                      HeldIsWhatIsThere, WholeUnderNames
<1> QED
  BY <1>1, <1>2

\* A step that writes the root's files anew, and counts them.
LEMMA RewritingCounts ==
    ASSUME CountInv, NEW S, Rewritten(S), root' = root, opening' = opening,
           owner' = "opening" => owner = "opening", serial' \in Nat,
           ~failed' => ~failed,
           root # {} => Countable(S),
           ~failed' /\ root # {} => WholeUnderNames(S) /\ held' = BytesOf(S)
    PROVE  CountInv'
<1>1. \A r \in Roots : files'[r] = IF r \in root THEN S ELSE files[r]
  BY DEF Rewritten
<1>2. FilesCounted'
  BY <1>1 DEF CountInv, FilesCounted
<1>3. OneRoot'
  BY DEF CountInv, OneRoot
<1>4. OpeningIsCounted'
  BY <1>1 DEF CountInv, OpeningIsCounted
<1>5. NamedFilesAreWhole'
  BY <1>1 DEF CountInv, DiskIsAsCounted, NamedFilesAreWhole, WholeUnderNames
<1>6. HeldIsWhatIsThere'
  <2> SUFFICES ASSUME root # {}, ~failed' PROVE held' = BytesOf(Here')
    BY DEF HeldIsWhatIsThere
  <2>1. Here' = S
    BY <1>1 DEF Here, CountInv, OneRoot
  <2> QED
    BY <2>1
<1> QED
  BY <1>2, <1>3, <1>4, <1>5, <1>6 DEF CountInv, DiskIsAsCounted

\* A step of neither files nor counts.
LEMMA CountsStay ==
    ASSUME CountInv, UNCHANGED <<files, held, failed, root>>, serial' \in Nat,
           owner' = "opening" => owner = "opening" /\ opening' = opening
    PROVE  CountInv'
<1>1. Here' = Here
  BY DEF Here
<1> QED
  BY <1>1 DEF CountInv, FilesCounted, OneRoot, OpeningIsCounted, DiskIsAsCounted,
              NamedFilesAreWhole, HeldIsWhatIsThere

LEMMA RemovingCounts ==
    ASSUME CountInv, NEW doomed, doomed \subseteq Here, Remove(doomed), root' = root,
           opening' = opening, owner' = "opening" => owner = "opening", serial' \in Nat
    PROVE  CountInv'
<1>1. PICK gone \in SUBSET doomed :
         /\ Rewritten(Here \ gone)
         /\ held' = held - BytesOf(gone)
         /\ Fault(gone # doomed)
  BY DEF Remove
<1>2. ~failed' => ~failed
  BY <1>1 DEF Fault
<1>3. Countable(Here \ gone) /\ BytesOf(Here \ gone) = BytesOf(Here) - BytesOf(gone)
  BY HereIsCounted, BytesWithout
<1>4. ASSUME ~failed', root # {}
      PROVE  WholeUnderNames(Here \ gone) /\ held' = BytesOf(Here \ gone)
  BY <1>1, <1>2, <1>3, <1>4, HereIsCounted DEF WholeUnderNames, Named
<1> QED
  BY <1>1, <1>2, <1>3, <1>4, RewritingCounts

LEMMA ExpiringCounts ==
    ASSUME CountInv, NEW clock, Expire(clock), root' = root,
           opening' = opening, owner' = "opening" => owner = "opening"
    PROVE  CountInv'
<1>1. serial' \in Nat
  BY DEF Expire, fileVars, CountInv
<1>2. CASE Walks(clock)
  BY <1>1, <1>2, RemovingCounts DEF Expire
<1>3. CASE ~Walks(clock)
  BY <1>1, <1>3, CountsStay DEF Expire, fileVars
<1> QED
  BY <1>2, <1>3

LEMMA SettlingCounts ==
    ASSUME CountInv, NEW fs, NEW count, StoreSettles(fs, count), root' = root,
           opening' = opening, owner' = owner, serial' \in Nat, Countable(fs),
           ~failed => WholeUnderNames(fs) /\ count = BytesOf(fs)
    PROVE  CountInv'
<1>1. CASE count > Limit
  <2>1. PICK stuck \in SUBSET Prunable(fs), shed \in SUBSET fs :
           /\ Rewritten(fs \ shed)
           /\ held' = BytesOf(fs \ shed)
           /\ Fault(stuck # {})
    BY <1>1 DEF StoreSettles
  <2>2. ~failed' => ~failed
    BY <2>1 DEF Fault
  <2>3. Countable(fs \ shed)
    BY BytesWithout
  <2>4. ~failed' => WholeUnderNames(fs \ shed)
    BY <2>2 DEF WholeUnderNames, Named
  <2> QED
    BY <2>1, <2>2, <2>3, <2>4, RewritingCounts
<1>2. CASE ~(count > Limit)
  <2>1. Rewritten(fs) /\ held' = count /\ failed' = failed
    BY <1>2 DEF StoreSettles
  <2> QED
    BY <2>1, RewritingCounts
<1> QED
  BY <1>1, <1>2

-----------------------------------------------------------------------------
(* The steps, for the count.                                               *)

LEMMA StoreCounts ==
    ASSUME CountInv, NEW w \in Workers, Store(w)
    PROVE  CountInv'
<1> DEFINE old == Named(Here, job[w].tile)
<1>1. /\ root # {} /\ root' = root /\ opening' = opening /\ owner' = owner
      /\ serial' = serial + 1
  BY DEF Store, Stores, Live, diskVars, ownerVars
<1>2. PICK size \in Sizes, date \in Dates(w) :
         StoreSettles((Here \ old) \cup {New(w, 0, date, size, TRUE)},
                      held - BytesOf(old) + size)
  BY DEF Store, Placed
<1> DEFINE file == New(w, 0, date, size, TRUE)
<1>3. /\ file.tile = job[w].tile /\ file.temp = 0
      /\ file.size = size /\ file.whole = TRUE
  BY DEF New
<1> HIDE DEF file
<1>4. size \in Nat
  BY DiskAssumption DEF DiskAssumption
<1>5. Countable(Here \ old) /\ BytesOf(Here \ old) = BytesOf(Here) - BytesOf(old)
  BY HereIsCounted, BytesWithout DEF Named
<1>6. file \notin Here \ old
  BY <1>3 DEF Named
<1> DEFINE fs == (Here \ old) \cup {file}
<1>7. Countable(fs) /\ BytesOf(fs) = BytesOf(Here \ old) + size
  BY <1>3, <1>4, <1>5, <1>6, BytesWith
<1>8. ASSUME ~failed
      PROVE  WholeUnderNames(fs) /\ held - BytesOf(old) + size = BytesOf(fs)
  <2>1. WholeUnderNames(Here) /\ held = BytesOf(Here)
    BY <1>1, <1>8, HereIsCounted
  <2>2. WholeUnderNames(fs)
    BY <1>3, <2>1 DEF WholeUnderNames, Named
  <2> QED
    BY <1>5, <1>7, <2>1, <2>2
<1>9. serial' \in Nat
  BY <1>1 DEF CountInv
<1>10. StoreSettles(fs, held - BytesOf(old) + size)
  BY <1>2 DEF file
<1> HIDE DEF fs
<1> QED
  BY <1>1, <1>7, <1>8, <1>9, <1>10, SettlingCounts

\* What a store leaves behind part of the way is no part of a named file.
LEMMA LeftoversAreCountable ==
    ASSUME CountInv, NEW w \in Workers, NEW left \in Leftovers(w)
    PROVE  /\ Countable(left)
           /\ ~failed => WholeUnderNames(left)
<1>1. Countable(Here) /\ (~failed => WholeUnderNames(Here))
  BY HereIsCounted
<1>2. Sizes \cup {0} \subseteq Nat
  BY DiskAssumption DEF DiskAssumption
<1>3. \A f \in left : f \in Here \/ (f.temp = serial + 1 /\ f.size \in Sizes \cup {0})
  BY DEF Leftovers, New
<1>4. serial + 1 \in Nat /\ serial + 1 # 0
  BY DEF CountInv
<1>5. Countable(left)
  <2>1. PICK file : left \subseteq Here \cup {file}
    <3> DEFINE part(d, s) == New(w, serial + 1, d, s, FALSE)
               all(d, s)  == New(w, serial + 1, d, s, TRUE)
               old        == Named(Here, job[w].tile)
    <3>1. Leftovers(w) =
             {Here} \cup
             {Here \cup {part(d, s)} : d \in 1 .. MaxTime, s \in Sizes \cup {0}} \cup
             {(Here \ o) \cup {all(d, s)} : o \in {{}, old}, d \in Dates(w), s \in Sizes}
      BY DEF Leftovers
    <3> HIDE DEF part, all, old
    <3> QED
      BY <3>1
  <2>2. IsFiniteSet(Here \cup {file})
    BY <1>1, FS_AddElement DEF Countable
  <2>3. IsFiniteSet(left)
    BY <2>1, <2>2, FS_Subset
  <2> QED
    BY <1>1, <1>2, <1>3, <1>4, <2>3 DEF Countable
<1>6. ~failed => WholeUnderNames(left)
  BY <1>1, <1>3, <1>4 DEF WholeUnderNames, Named
<1> QED
  BY <1>5, <1>6

LEMMA StoreFailsCounts ==
    ASSUME CountInv, NEW w \in Workers, StoreFails(w)
    PROVE  CountInv'
<1>1. PICK left \in Leftovers(w), stays \in BOOLEAN :
         Rewritten(IF stays THEN left ELSE {f \in left : f.temp # serial'})
  BY DEF StoreFails
<1>2. /\ failed' = TRUE /\ serial' = serial + 1
      /\ root' = root /\ opening' = opening /\ owner' = owner
  BY DEF StoreFails, Fault, diskVars, ownerVars
<1> DEFINE S == IF stays THEN left ELSE {f \in left : f.temp # serial'}
<1>3. S \subseteq left
  OBVIOUS
<1> HIDE DEF S
<1>4. Countable(S)
  BY <1>3, LeftoversAreCountable, FS_Subset DEF Countable
<1>5. serial' \in Nat
  BY <1>2 DEF CountInv
<1>6. Rewritten(S)
  BY <1>1 DEF S
<1> QED
  BY <1>2, <1>4, <1>5, <1>6, RewritingCounts

LEMMA JobCounts ==
    ASSUME CountInv, NEW w \in Workers, JobNext(w)
    PROVE  CountInv'
<1>0. root' = root /\ opening' = opening /\ owner' = owner
  BY DEF JobNext, Begin, ReadGeneration, JobExpires, Load, Delete, Fetch, Store,
         StoreRefused, StoreBlocked, StoreFails, diskVars, ownerVars
<1>1. CASE (\E t \in Tiles : Begin(w, t)) \/ ReadGeneration(w) \/ Fetch(w) \/ StoreRefused(w)
  <2>1. UNCHANGED <<files, held, failed, serial>>
    BY <1>1 DEF Begin, ReadGeneration, Fetch, StoreRefused, fileVars
  <2> QED
    BY <1>0, <2>1, CountsStay DEF CountInv
<1>2. CASE JobExpires(w)
  <2>1. CASE Live(w)
    BY <1>0, <1>2, <2>1, ExpiringCounts DEF JobExpires
  <2>2. CASE ~Live(w)
    <3>1. UNCHANGED <<files, held, failed, serial>>
      BY <1>2, <2>2 DEF JobExpires, fileVars
    <3> QED
      BY <1>0, <3>1, CountsStay DEF CountInv
  <2> QED
    BY <2>1, <2>2
<1>3. CASE Load(w) \/ Delete(w)
  <2>1. PICK doomed \in SUBSET Here : Remove(doomed)
    BY <1>3 DEF Load, Delete, Named
  <2>2. serial' = serial
    BY <1>3 DEF Load, Delete
  <2> QED
    BY <1>0, <2>1, <2>2, RemovingCounts DEF CountInv
<1>4. CASE StoreBlocked(w)
  <2>1. /\ files' = files /\ held' = held /\ serial' = serial + 1
        /\ failed' = TRUE \/ failed' = failed
    BY <1>4 DEF StoreBlocked, Fault
  <2>2. serial' \in Nat
    BY <2>1 DEF CountInv
  <2>3. CASE failed' = failed
    BY <1>0, <2>1, <2>2, <2>3, CountsStay
  <2>4. CASE failed' = TRUE
    <3>1. Here' = Here
      BY <1>0, <2>1 DEF Here
    <3> QED
      BY <1>0, <2>1, <2>2, <2>4, <3>1
         DEF CountInv, FilesCounted, OneRoot, OpeningIsCounted, DiskIsAsCounted,
             NamedFilesAreWhole, HeldIsWhatIsThere
  <2> QED
    BY <2>1, <2>3, <2>4
<1> QED
  BY <1>1, <1>2, <1>3, <1>4, StoreCounts, StoreFailsCounts DEF JobNext

\* The root swapped in holds what was counted, less what its first expiry took.
LEMMA SwapCounts ==
    ASSUME LateInv, CountInv, SwapRoot
    PROVE  CountInv'
<1>1. PICK o \in opening :
         /\ root' = {o[1]}
         /\ IF maxAge > 0 /\ now # None THEN FirstExpiry(o[1], o[2])
            ELSE held' = o[2] /\ files' = files /\ failed' = failed
  BY DEF SwapRoot
<1>2. o[1] \in Roots /\ o[2] = BytesOf(files[o[1]]) /\ serial' = 0 /\ owner' = "free"
  BY DEF SwapRoot, CountInv, OpeningIsCounted
<1>3. PICK r \in Roots : r = o[1]
  BY <1>2
<1>4. Here' = files'[r]
  BY <1>1, <1>3 DEF Here
<1>5. Countable(files[r]) /\ (~failed => WholeUnderNames(files[r]))
  BY DEF CountInv, FilesCounted, DiskIsAsCounted, NamedFilesAreWhole, WholeUnderNames
<1>6. PICK gone \in SUBSET files[r] :
         /\ files' = [files EXCEPT ![r] = @ \ gone]
         /\ held' = BytesOf(files[r]) - BytesOf(gone)
         /\ ~failed' => ~failed
  <2>1. CASE maxAge > 0 /\ now # None
    BY <1>1, <1>2, <1>3, <2>1 DEF FirstExpiry, Fault
  <2>2. CASE ~(maxAge > 0 /\ now # None)
    <3>1. files' = [files EXCEPT ![r] = @ \ {}]
      <4>1. files[r] \ {} = files[r] /\ files = [q \in Roots |-> files[q]]
        BY DEF LateInv, FilesTotal
      <4> QED
        BY <1>1, <2>2, <4>1
    <3>2. BytesOf({}) = 0 /\ BytesOf(files[r]) \in Nat
      <4>1. BytesOf(files[r] \ {}) = BytesOf(files[r]) - BytesOf({})
        BY <1>5, BytesWithout
      <4>2. Countable({})
        BY FS_EmptySet DEF Countable
      <4>3. BytesOf({}) \in Nat /\ BytesOf(files[r]) \in Nat
        BY <1>5, <4>2, BytesAreNatural
      <4>4. files[r] \ {} = files[r]
        OBVIOUS
      <4> QED
        BY <4>1, <4>3, <4>4
    <3>3. held' = BytesOf(files[r]) - BytesOf({}) /\ (~failed' => ~failed)
      BY <1>1, <1>2, <1>3, <2>2, <3>2
    <3>4. {} \in SUBSET files[r]
      OBVIOUS
    <3> QED
      BY <3>1, <3>3, <3>4, Zenon
  <2> QED
    BY <2>1, <2>2
<1>7. /\ files'[r] = files[r] \ gone
      /\ \A q \in Roots \ {r} : files'[q] = files[q]
  BY <1>6 DEF LateInv, FilesTotal
<1>8. Countable(files'[r]) /\ held' = BytesOf(files'[r])
  BY <1>5, <1>6, <1>7, BytesWithout
<1>9. FilesCounted'
  BY <1>7, <1>8 DEF CountInv, FilesCounted
<1>10. NamedFilesAreWhole'
  BY <1>6, <1>7 DEF CountInv, DiskIsAsCounted, NamedFilesAreWhole, Named
<1>11. HeldIsWhatIsThere'
  BY <1>4, <1>8 DEF HeldIsWhatIsThere
<1> QED
  BY <1>1, <1>2, <1>9, <1>10, <1>11
     DEF CountInv, OneRoot, OpeningIsCounted, DiskIsAsCounted

LEMMA OwnerCounts ==
    ASSUME ~Reopens, LateInv, CountInv, OwnerNext
    PROVE  CountInv'
<1>1. CASE \/ \E clock \in 1 .. MaxTime, view \in Views : Plan(clock, view)
           \/ \E age \in Ages : SetMaxAge(age)
  <2>1. UNCHANGED <<files, held, failed, root, serial, opening>> /\ owner' # "opening"
    BY <1>1 DEF Plan, SetMaxAge, Owner, fileVars, diskVars
  <2> QED
    BY <2>1, CountsStay DEF CountInv
<1>2. ASSUME NEW r \in Roots, OpenRoot(r) PROVE CountInv'
  <2>1. /\ UNCHANGED <<files, held, failed, root, serial>>
        /\ opening' = {<<r, BytesOf(files[r])>>} /\ r \notin root
    BY <1>2 DEF OpenRoot, fileVars, diskVars
  <2>2. Here' = Here
    BY <2>1 DEF Here
  <2> QED
    BY <2>1, <2>2 DEF CountInv, FilesCounted, OneRoot, OpeningIsCounted,
                      DiskIsAsCounted, NamedFilesAreWhole, HeldIsWhatIsThere
<1>3. CASE TurnOff \/ Close
  <2>1. /\ root' = {} /\ serial' = 0 /\ UNCHANGED <<files, failed, owner>>
        /\ owner = "free"
    BY <1>3 DEF TurnOff, Close, LetGo, Owner
  <2> QED
    BY <2>1 DEF CountInv, FilesCounted, OneRoot, OpeningIsCounted,
                DiskIsAsCounted, NamedFilesAreWhole, HeldIsWhatIsThere
<1>4. CASE OwnerExpires
  <2>1. root' = root /\ opening' = opening /\ owner' = "free"
    BY <1>4 DEF OwnerExpires, diskVars
  <2>2. CASE root # {}
    BY <1>4, <2>1, <2>2, ExpiringCounts DEF OwnerExpires
  <2>3. CASE root = {}
    BY <1>4, <2>1, <2>3, CountsStay DEF OwnerExpires, fileVars, CountInv
  <2> QED
    BY <2>2, <2>3
<1>5. CASE Empty
  <2>1. PICK gone \in SUBSET Here :
           /\ Rewritten(Here \ gone)
           /\ held' = BytesOf(Here \ gone)
           /\ failed' = (failed \/ gone # Here)
    BY <1>5 DEF Empty, Emptied
  <2>2. root' = root /\ opening' = opening /\ owner' = owner /\ serial' = serial
    BY <1>5 DEF Empty, ownerVars
  <2>3. ~failed' => ~failed
    BY <2>1
  <2>4. Countable(Here \ gone)
    BY HereIsCounted, BytesWithout
  <2>5. ~failed' => WholeUnderNames(Here \ gone)
    BY <2>3, HereIsCounted DEF WholeUnderNames, Named
  <2>6. serial' \in Nat
    BY <2>2 DEF CountInv
  <2> QED
    BY <2>1, <2>2, <2>3, <2>4, <2>5, <2>6, RewritingCounts
<1>6. CASE ReadBack
  <2>1. PICK doomed \in SUBSET Here : Remove(doomed)
    BY <1>6 DEF ReadBack
  <2>2. root' = root /\ opening' = opening /\ owner' = owner /\ serial' = serial
    BY <1>6 DEF ReadBack, diskVars, ownerVars
  <2> QED
    BY <2>1, <2>2, RemovingCounts DEF CountInv
<1> QED
  BY <1>1, <1>2, <1>3, <1>4, <1>5, <1>6, SwapCounts DEF OwnerNext

LEMMA WorldCounts ==
    ASSUME CountInv, Crash \/ Rot
    PROVE  CountInv'
<1>1. CASE Crash
  <2>1. PICK left \in CrashLeaves : Rewritten(left)
    BY <1>1 DEF Crash
  <2>2. root' = {} /\ serial' = 0 /\ owner' = "free" /\ failed' = failed
    BY <1>1 DEF Crash
  <2>3. Countable(left) /\ (~failed => WholeUnderNames(left))
    BY HereIsCounted, LeftoversAreCountable DEF CrashLeaves, Midway
  <2>4. \A r \in Roots : files'[r] = left \/ files'[r] = files[r]
    BY <2>1 DEF Rewritten
  <2>5. FilesCounted'
    BY <2>3, <2>4 DEF CountInv, FilesCounted
  <2>6. NamedFilesAreWhole'
    BY <2>2, <2>3, <2>4 DEF CountInv, DiskIsAsCounted, NamedFilesAreWhole, WholeUnderNames
  <2> QED
    BY <2>2, <2>5, <2>6 DEF CountInv, OneRoot, OpeningIsCounted, DiskIsAsCounted,
                            HeldIsWhatIsThere
<1>2. CASE Rot
  <2>1. PICK f \in Here :
           Rewritten((Here \ {f}) \cup
               {[tile |-> f.tile, temp |-> f.temp, at |-> f.at,
                 size |-> f.size, whole |-> FALSE]})
    BY <1>2 DEF Rot
  <2> DEFINE file == [tile |-> f.tile, temp |-> f.temp, at |-> f.at,
                      size |-> f.size, whole |-> FALSE]
  <2>2. file.size = f.size /\ file.temp = f.temp
    OBVIOUS
  <2>3. Rewritten((Here \ {f}) \cup {file})
    BY <2>1
  <2> HIDE DEF file
  <2>4. Countable((Here \ {f}) \cup {file})
    BY <2>2, HereIsCounted, FS_AddElement, FS_RemoveElement DEF Countable
  <2>5. failed' = TRUE /\ root' = root /\ opening' = opening /\ owner' = owner
        /\ serial' = serial
    BY <1>2 DEF Rot, Fault, diskVars, ownerVars
  <2> QED
    BY <2>3, <2>4, <2>5, RewritingCounts DEF CountInv
<1> QED
  BY <1>1, <1>2

\* Every state's files are counted, if the host does not name the root it
\* already holds: a job may store there between the count of the new Disk and
\* the end of the old one.
THEOREM CountInvariant ==
    ASSUME ~Reopens
    PROVE  Spec => []CountInv
<1>1. Init => CountInv
  BY FS_EmptySet DEF Init, CountInv, FilesCounted, Countable, OneRoot, OpeningIsCounted,
                     DiskIsAsCounted, NamedFilesAreWhole, HeldIsWhatIsThere, Named
<1>2. LateInv /\ CountInv /\ [Next]_vars => CountInv'
  <2> SUFFICES ASSUME LateInv, CountInv, [Next]_vars PROVE CountInv'
    OBVIOUS
  <2>1. CASE UNCHANGED vars
    BY <2>1, CountsStay DEF vars, fileVars, diskVars, ownerVars, CountInv
  <2> QED
    BY <2>1, OwnerCounts, JobCounts, WorldCounts DEF Next
<1> QED
  BY <1>1, <1>2, LateInvariant, PTL DEF Spec

\* Short of a file system that fails, the disk is what the map takes it for:
\* whole tiles, of the bytes it counts.
THEOREM DiskIsCounted ==
    ASSUME ~Reopens
    PROVE  Spec => []DiskIsAsCounted
<1>1. CountInv => DiskIsAsCounted
  BY DEF CountInv
<1> QED
  BY <1>1, CountInvariant, PTL

-----------------------------------------------------------------------------
(* The cap.                                                                *)

\* A store that has no cause to doubt its count leaves no more than the cap, or
\* nothing it may prune; and it takes nothing it may not.
LEMMA SettlingKeepsTheCap ==
    ASSUME NEW fs, Countable(fs), NEW count, StoreSettles(fs, count),
           ~failed', count = BytesOf(fs), NEW r \in Roots, root = {r}, root' = root
    PROVE  /\ BytesOf(Here') <= Limit \/ Here' \intersect Prunable(fs) = {}
           /\ Here' \subseteq fs
           /\ fs \ Prunable(fs) \subseteq Here'
<1>1. ASSUME NEW S, Rewritten(S) PROVE Here' = S
  BY <1>1 DEF Rewritten, Here
<1>2. CASE count > Limit
  <2>1. PICK stuck \in SUBSET Prunable(fs), shed \in SUBSET fs :
           /\ IsPruned(shed, fs, stuck)
           /\ Rewritten(fs \ shed)
           /\ Fault(stuck # {})
    BY <1>2 DEF StoreSettles
  <2>2. stuck = {}
    BY <2>1 DEF Fault
  <2>3. /\ shed \subseteq Prunable(fs)
        /\ BytesOf(fs \ shed) <= PrunedTo \/ shed = Prunable(fs)
    BY <2>1, <2>2 DEF IsPruned
  <2>4. Here' = fs \ shed
    BY <1>1, <2>1
  <2>5. PrunedTo \in Int /\ PrunedTo <= Limit /\ Limit \in Int
    BY DiskAssumption, Z3 DEF DiskAssumption, PrunedTo
  <2>6. BytesOf(fs \ shed) \in Nat
    BY BytesWithout, BytesAreNatural
  <2> QED
    BY <2>3, <2>4, <2>5, <2>6
<1>3. CASE ~(count > Limit)
  <2>1. Here' = fs
    BY <1>1, <1>3 DEF StoreSettles
  <2>2. BytesOf(fs) \in Nat /\ Limit \in Nat
    BY BytesAreNatural, DiskAssumption DEF DiskAssumption
  <2> QED
    BY <1>3, <2>1, <2>2
<1> QED
  BY <1>2, <1>3

\* Only a store that succeeds ends a job with other files, if nothing fails.
LEMMA FinishingIsAStore ==
    ASSUME LateInv, [Next]_vars, NEW w \in Workers, Finishes(w), files' # files,
           root # {}, ~failed'
    PROVE  Store(w)
<1>1. pc[w] = "store" /\ pc'[w] = "idle" /\ root' = root /\ pc # pc'
  BY DEF Finishes
<1>2. PICK x \in Workers : JobNext(x)
  <2>1. ~OwnerNext
    BY <1>1 DEF OwnerNext, Plan, OpenRoot, SwapRoot, TurnOff, Close, LetGo, SetMaxAge,
       OwnerExpires, Empty, ReadBack, workerVars
  <2>2. ~Rot
    BY <1>1 DEF Rot, workerVars
  <2>3. ~Crash
    BY <1>1 DEF Crash
  <2> QED
    BY <1>1, <2>1, <2>2, <2>3 DEF Next, vars, workerVars
<1>3. x = w
  <2>1. \A y \in Workers : y # x => pc'[y] = pc[y]
    BY <1>2 DEF JobNext, Begin, ReadGeneration, JobExpires, Load, Delete, Fetch,
       Store, StoreRefused, StoreBlocked, StoreFails, Goes, LateInv, JobsTyped
  <2> QED
    BY <1>1, <2>1
<1>4. ~StoreFails(w)
  BY DEF StoreFails, Fault
<1>5. ~StoreRefused(w) /\ ~StoreBlocked(w)
  BY DEF StoreRefused, StoreBlocked, fileVars
<1> QED
  BY <1>1, <1>2, <1>3, <1>4, <1>5 DEF JobNext, Begin, ReadGeneration, JobExpires, Load,
     Delete, Fetch

LEMMA StoringKeepsTheCap ==
    ASSUME LateInv, CountInv, NEW w \in Workers, Store(w), ~failed'
    PROVE  /\ \/ BytesOf(Here') <= Limit
              \/ \A f \in Here' : f.temp = 0 /\ f.tile \in inView
           /\ \A t \in inView : Named(Here, t) # {} => Named(Here', t) # {}
<1> DEFINE old == Named(Here, job[w].tile)
<1>1. root # {} /\ root' = root
  BY DEF Store, Stores, Live, diskVars
<1>2. PICK r \in Roots : root = {r}
  BY <1>1 DEF CountInv, OneRoot
<1>3. PICK size \in Sizes, date \in Dates(w) :
         StoreSettles((Here \ old) \cup {New(w, 0, date, size, TRUE)},
                      held - BytesOf(old) + size)
  BY DEF Store, Placed
<1>4. ~failed
  BY <1>3 DEF StoreSettles, Fault
<1> DEFINE file == New(w, 0, date, size, TRUE)
<1>5. file.tile = job[w].tile /\ file.temp = 0 /\ file.size = size
  BY DEF New
<1> HIDE DEF file
<1>6. size \in Nat
  BY DiskAssumption DEF DiskAssumption
<1>7. Countable(Here) /\ held = BytesOf(Here)
  BY <1>1, <1>4, HereIsCounted
<1>8. Countable(Here \ old) /\ BytesOf(Here \ old) = BytesOf(Here) - BytesOf(old)
  BY <1>7, BytesWithout DEF Named
<1>9. file \notin Here \ old
  BY <1>5 DEF Named
<1> DEFINE fs == (Here \ old) \cup {file}
<1>10. Countable(fs) /\ BytesOf(fs) = BytesOf(Here \ old) + size
  BY <1>5, <1>6, <1>8, <1>9, BytesWith
<1>11. held - BytesOf(old) + size = BytesOf(fs)
  BY <1>7, <1>8, <1>10
<1>12. StoreSettles(fs, held - BytesOf(old) + size)
  BY <1>3 DEF file
<1>13. ASSUME NEW t, Named(Here, t) # {} PROVE \E f \in fs : f.tile = t /\ f.temp = 0
  BY <1>5, <1>13 DEF Named
<1> HIDE DEF fs
<1>14. /\ BytesOf(Here') <= Limit \/ Here' \intersect Prunable(fs) = {}
       /\ Here' \subseteq fs
       /\ fs \ Prunable(fs) \subseteq Here'
  BY <1>1, <1>2, <1>10, <1>11, <1>12, SettlingKeepsTheCap
<1>15. ASSUME Here' \intersect Prunable(fs) = {}, NEW f \in Here'
       PROVE  f.temp = 0 /\ f.tile \in inView
  <2>1. f \in fs /\ f \notin Prunable(fs)
    BY <1>14, <1>15
  <2>2. f.temp \in Nat
    BY <1>10, <2>1 DEF Countable
  <2> QED
    BY <2>1, <2>2 DEF Prunable
<1>16. ASSUME NEW t \in inView, Named(Here, t) # {}
       PROVE  Named(Here', t) # {}
  <2>1. PICK f \in fs : f.tile = t /\ f.temp = 0
    BY <1>13, <1>16
  <2>2. f \notin Prunable(fs)
    BY <2>1 DEF Prunable
  <2> QED
    BY <1>14, <2>1, <2>2 DEF Named
<1> QED
  BY <1>14, <1>15, <1>16

\* "Over its cap the cache drops the tiles fetched longest ago, never one the
\* view needs": what a store leaves is within the cap, or the view needs all of
\* it, if the host does not name the root it already holds.
THEOREM StoresKeepTheCap ==
    ASSUME ~Reopens
    PROVE  Spec => StoresHoldTheCap
<1>1. LateInv /\ CountInv /\ [Next]_vars =>
         [\A w \in Workers : Finishes(w) /\ files' # files /\ root # {} /\ ~failed' =>
            /\ \/ BytesOf(Here') <= Limit
               \/ \A f \in Here' : f.temp = 0 /\ f.tile \in inView
            /\ \A t \in inView : Named(Here, t) # {} => Named(Here', t) # {}]_vars
  BY FinishingIsAStore, StoringKeepsTheCap
<1> QED
  BY <1>1, CountInvariant, LateInvariant, PTL DEF Spec, StoresHoldTheCap
=============================================================================

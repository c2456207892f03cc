------------------------------- MODULE MapReport -------------------------------
(***************************************************************************)
(* What a map answers and keeps between two answers: the report with its   *)
(* memo and the measures under it (report.go, describe.go), the clock the  *)
(* staleness of an answer is judged by, the warnings it holds (guard.go,   *)
(* overlays.go, look.go), the source with its fetch options (tiles.go),    *)
(* and the work whose landing it tells of (work.go).                       *)
(*                                                                         *)
(* Every call runs under the map's lock; a job lands outside it, also      *)
(* while Report holds it.  A version that only ever grows is kept as the   *)
(* number of its steps.                                                    *)
(***************************************************************************)
EXTENDS Integers, SequencesExt

CONSTANTS
  None,         \* nothing kept, set or given
  Ids,          \* the overlays' names
  Offers,       \* overlays: [kind, valid, keeps, views, thin]
  AllPlaces,    \* the places a host knows
  Turns,        \* when the sun crosses each place's horizon
  TurnAhead,    \* how far ahead a turn is looked for
  AheadAllowed, \* how far ahead data may be dated and still be current
  Views,        \* views, told apart by the alerts in them
  Looks,        \* palettes, grounds and depths together
  ThinLooks,    \* the looks a thin ramp breaks the checker at
  OwnLooks,     \* the looks whose palette is the host's and leaves a tint unable to blend
  Addresses, Options, \* sources, and fetch options
  Allowed,      \* the pairs of them that are accepted
  Workers,      \* goroutines inside Work or Settle
  Times,        \* the clocks of the host's frames; 0 gives none
  MaxOwn,       \* maxOwnWarnings
  MaxMeasures,  \* maxAreaMeasures
  MaxCalls      \* bound: calls that change the map

ASSUME ReportAssumption ==
  /\ Times \subseteq Nat /\ 0 \in Times /\ {TurnAhead, AheadAllowed, MaxOwn, MaxMeasures, MaxCalls} \subseteq Nat
  /\ Allowed \subseteq Addresses \X Options /\ ThinLooks \union OwnLooks \subseteq Looks
  /\ None \notin Offers \union Addresses \union Options
  /\ Turns \in [AllPlaces -> SUBSET Nat] /\ None \notin BOOLEAN \X Nat

VARIABLES
  shut,                      \* Map.shut
  overlay, overlays,         \* the overlay of each id, and Map.overlays
  decoded, landed,           \* the images classified, and store.Landed
  places, placesVersion, units, nearby, viewNow, \* of Map, by its own names
  wallClock, staleWhich,     \* Map.wallClock; the stale overlays as last noted
  areas,                     \* areaMemo: [overlays, units, kept]
  reported, reportedKey,     \* the report kept, and its key
  pending,                   \* the report being worked out, under the lock
  look, searched, own,       \* Map.look, look.blendsFor, Map.own
  address, fetcher, fetchOpts, \* of Map, by its own names
  before,                    \* what each worker read before its job; -1 outside
  untold,                    \* something landed since Changed last moved
  raced,                     \* something landed inside the last report
  calls

answerVars == <<overlay, overlays, decoded, places, placesVersion, units, nearby, viewNow>>
clockVars == <<wallClock, staleWhich>>
memoVars == <<areas, reported, reportedKey, pending>>
lookVars == <<look, searched, own>>
sourceVars == <<address, fetcher, fetchOpts>>
workVars == <<landed, before, untold>>
reportVars == <<shut, answerVars, clockVars, memoVars, lookVars, sourceVars, workVars, raced, calls>>

Held == {id \in Ids : overlay[id] # None}
Alerts == {id \in Held : overlay[id].kind = "alert"}
Images == {id \in Held : overlay[id].kind = "image"}

-----------------------------------------------------------------------------
(* What a report says.                                                     *)

\* Data past its time, and data dated further ahead than clocks differ.
StaleAt(o, wall) == wall # 0 /\ (o.valid > wall + AheadAllowed \/ wall - o.valid > o.keeps)
StaleIds(wall) == {id \in Held : StaleAt(overlay[id], wall)}

\* Whether it is day at a place, and when that turns, if within so long.
Day(p, wall) == Cardinality({t \in Turns[p] : t <= wall}) % 2 = 1
TurnOf(p, wall) ==
  LET next == {t \in Turns[p] : wall < t /\ t <= wall + TurnAhead}
  IN IF next = {} THEN 0 ELSE CHOOSE t \in next : \A u \in next : t <= u
Daylight(asked, wall) ==
  [p \in asked |-> IF wall = 0 THEN None ELSE <<Day(p, wall), TurnOf(p, wall)>>]

\* A place measured against an alert, in the units of the time.
Measure(key) == <<overlay[key[1]], key[2], units>>

\* The answer to a question, its measures taken from what is kept.
Answer(asked, kept) ==
  [inView |-> {id \in Alerts : viewNow \in overlay[id].views},
   measured |-> [key \in Alerts \X asked |-> kept[key]],
   classes |-> Images \intersect decoded, images |-> Images,
   stale |-> StaleIds(wallClock), day |-> Daylight(asked, wallClock),
   nearby |-> nearby, view |-> viewNow, units |-> units]

FreshAnswer(asked) == Answer(asked, [key \in Alerts \X asked |-> Measure(key)])

\* Mutant: the measures kept do not end with a change of units.
MeasuredAnyUnits(asked) ==
  LET standing == areas.overlays = overlays /\ Cardinality(DOMAIN areas.kept) < MaxMeasures
      old == IF standing THEN areas.kept ELSE << >>
  IN [key \in DOMAIN old \union (Alerts \X asked) |-> IF key \in DOMAIN old THEN old[key] ELSE Measure(key)]

\* areaMemo.measure, for every alert and place asked about.
Measured(asked) ==
  LET standing == /\ areas.overlays = overlays /\ areas.units = units
                  /\ Cardinality(DOMAIN areas.kept) < MaxMeasures
      old == IF standing THEN areas.kept ELSE << >>
  IN [key \in DOMAIN old \union (Alerts \X asked) |-> IF key \in DOMAIN old THEN old[key] ELSE Measure(key)]

DescribeKey(asked) ==
  [overlays |-> overlays, places |-> placesVersion, units |-> units, stale |-> staleWhich,
   asked |-> asked, nearby |-> nearby, view |-> viewNow, landed |-> landed,
   daylight |-> {p \in asked : wallClock # 0 /\ Day(p, wallClock)}, clocked |-> wallClock # 0]

Asked(given) == IF given = {} THEN places ELSE given

TurnPassed(report) ==
  \E p \in DOMAIN report.day :
    report.day[p] # None /\ report.day[p][2] # 0 /\ wallClock >= report.day[p][2]

\* rememberedReport: what Report gives back without working it out.
Remembered(asked) == reported # None /\ reportedKey = DescribeKey(asked) /\ ~TurnPassed(reported)

-----------------------------------------------------------------------------
(* The calls.                                                              *)

Unlocked == pending = None
ReportCall == ~shut /\ Unlocked /\ calls < MaxCalls /\ calls' = calls + 1 /\ UNCHANGED <<shut, pending, raced>>
Tell == untold' = FALSE /\ UNCHANGED <<landed, before>> \* changed++

NoteWarning(held, subject) == IF Len(held) >= MaxOwn THEN held ELSE Append(held, subject)

\* checkHostRampLocked, for one overlay under a look.
Rechecked(held, id, o, at) ==
  LET others == SelectSeq(held, LAMBDA subject : subject # id)
  IN IF o # None /\ o.thin /\ at \in ThinLooks THEN NoteWarning(others, id) ELSE others

SetOverlay(id, o) ==
  /\ ReportCall /\ Tell
  /\ overlay' = [overlay EXCEPT ![id] = o] /\ overlays' = overlays + 1
  /\ decoded' = decoded \ {id} /\ reported' = None
  /\ own' = Rechecked(own, id, o, look)
  /\ UNCHANGED <<places, placesVersion, units, nearby, viewNow, clockVars, areas, reportedKey,
                 look, searched, sourceVars>>

RemoveOverlay(id) ==
  /\ ReportCall /\ id \in Held /\ Tell
  /\ overlay' = [overlay EXCEPT ![id] = None] /\ overlays' = overlays + 1
  /\ decoded' = decoded \ {id} /\ reported' = None
  /\ UNCHANGED <<places, placesVersion, units, nearby, viewNow, clockVars, areas, reportedKey,
                 lookVars, sourceVars>>

SetPlaces(now) ==
  /\ ReportCall /\ Tell
  /\ places' = now /\ placesVersion' = placesVersion + 1 /\ reported' = None
  /\ UNCHANGED <<overlay, overlays, decoded, units, nearby, viewNow, clockVars, areas, reportedKey,
                 lookVars, sourceVars>>

AddPlace(p) == SetPlaces(places \union {p})
RemovePlace(p) == p \in places /\ SetPlaces(places \ {p})

Units(want) ==
  /\ ReportCall /\ want # units /\ Tell
  /\ units' = want /\ reported' = None
  /\ UNCHANGED <<overlay, overlays, decoded, places, placesVersion, nearby, viewNow, clockVars,
                 areas, reportedKey, lookVars, sourceVars>>

SetNearby(km) ==
  /\ ReportCall /\ Tell /\ nearby' = km
  /\ UNCHANGED <<overlay, overlays, decoded, places, placesVersion, units, viewNow, clockVars,
                 areas, reported, reportedKey, lookVars, sourceVars>>

MoveView(v) ==
  /\ ReportCall /\ v # viewNow /\ Tell /\ viewNow' = v
  /\ UNCHANGED <<overlay, overlays, decoded, places, placesVersion, units, nearby, clockVars,
                 areas, reported, reportedKey, lookVars, sourceVars>>

\* SetPalette, SafeRamps, Ground, PaintGround and ColourDepth: every
\* overlay's ramp is checked again at the look they leave.
Relook(to) ==
  /\ ReportCall /\ Tell /\ look' = to
  /\ \E order \in SetToSeqs(Ids) :
       own' = FoldSeq(LAMBDA id, held : Rechecked(held, id, overlay[id], to), own, order)
  /\ UNCHANGED <<searched, answerVars, clockVars, areas, reported, reportedKey, sourceVars>>

\* Warnings are taken once.
Warnings ==
  /\ ReportCall /\ own # << >> /\ own' = << >>
  /\ UNCHANGED <<look, searched, answerVars, clockVars, areas, reported, reportedKey, workVars,
                 sourceVars>>

\* Render: the blends are searched for a new look, and the clock is noted.
Render(now) ==
  /\ ~shut /\ Unlocked /\ (now = 0 \/ now >= wallClock)
  /\ own' = IF searched # look /\ look \in OwnLooks THEN NoteWarning(own, "not blended") ELSE own
  /\ searched' = look
  /\ IF now = 0 THEN UNCHANGED <<wallClock, staleWhich>>
     ELSE wallClock' = now /\ staleWhich' = StaleIds(now)
  /\ UNCHANGED <<shut, answerVars, memoVars, look, sourceVars, workVars, raced, calls>>

\* Report works its answer out and then reads the key it is kept under.
ReportBegins(given) ==
  /\ ~shut /\ Unlocked /\ ~Remembered(Asked(given))
  /\ LET kept == Measured(Asked(given))
     IN /\ areas' = [overlays |-> overlays, units |-> units, kept |-> kept]
        /\ pending' = [asked |-> Asked(given), answer |-> Answer(Asked(given), kept), landed |-> landed]
  /\ UNCHANGED <<shut, answerVars, clockVars, reported, reportedKey, lookVars, sourceVars, workVars,
                 raced, calls>>

ReportEnds ==
  /\ pending # None /\ pending' = None
  /\ reported' = pending.answer /\ reportedKey' = DescribeKey(pending.asked)
  /\ raced' = (landed # pending.landed)
  /\ UNCHANGED <<shut, answerVars, clockVars, areas, lookVars, sourceVars, workVars, calls>>

\* useSourceLocked: the source, its fetcher and its options change together.
UseSource(a, opts) ==
  /\ address' = a /\ fetcher' = <<a, opts>> /\ fetchOpts' = opts /\ untold' = FALSE

Source(a) ==
  /\ ReportCall /\ UNCHANGED <<answerVars, clockVars, areas, reported, reportedKey, lookVars, landed, before>>
  /\ \/ a = None /\ address' = None /\ fetcher' = None /\ UNCHANGED <<fetchOpts, untold>>
     \/ <<a, fetchOpts>> \in Allowed /\ UseSource(a, fetchOpts)
     \/ a # None /\ <<a, fetchOpts>> \notin Allowed /\ UNCHANGED <<sourceVars, untold>>

SetFetchOptions(opts) ==
  /\ ReportCall /\ UNCHANGED <<answerVars, clockVars, areas, reported, reportedKey, lookVars, landed, before>>
  /\ \/ address = None /\ fetchOpts' = opts /\ UNCHANGED <<address, fetcher, untold>>
     \/ <<address, opts>> \in Allowed /\ UseSource(address, opts)
     \/ address # None /\ <<address, opts>> \notin Allowed /\ UNCHANGED <<sourceVars, untold>>

\* Close lets the overlays, the places and the warnings go.
CloseMap ==
  /\ ~shut /\ Unlocked /\ shut' = TRUE
  /\ overlay' = [id \in Ids |-> None] /\ decoded' = {} /\ places' = {} /\ own' = << >>
  /\ UNCHANGED <<overlays, placesVersion, units, nearby, viewNow, clockVars, memoVars, look, searched,
                 sourceVars, workVars, raced, calls>>

-----------------------------------------------------------------------------
(* Work and Settle.                                                        *)

rest == <<shut, clockVars, memoVars, lookVars, sourceVars, raced, calls>>

Work(w) ==
  /\ ~shut /\ Unlocked /\ before[w] = -1
  /\ before' = [before EXCEPT ![w] = landed]
  /\ UNCHANGED <<rest, answerVars, landed, untold>>

\* A job classifies an image the map still holds.
Land(w, id) ==
  /\ before[w] # -1 /\ id \in Images \ decoded
  /\ decoded' = decoded \union {id} /\ landed' = landed + 1 /\ untold' = TRUE
  /\ UNCHANGED <<rest, overlay, overlays, places, placesVersion, units, nearby, viewNow, before>>

\* Mutant: only a landing of this very call's own is told of.
NoteLandedOnce(w) ==
  /\ before[w] # -1 /\ Unlocked
  /\ before' = [before EXCEPT ![w] = -1]
  /\ untold' = (untold /\ (landed # before[w] + 1 \/ shut))
  /\ UNCHANGED <<rest, answerVars, landed>>

\* noteLanded, as the call ends: under the lock, if anything landed.
NoteLanded(w) ==
  /\ before[w] # -1
  /\ landed = before[w] \/ Unlocked
  /\ before' = [before EXCEPT ![w] = -1]
  /\ untold' = (untold /\ (landed = before[w] \/ shut))
  /\ UNCHANGED <<rest, answerVars, landed>>

ReportInit ==
  /\ shut = FALSE /\ overlay = [id \in Ids |-> None] /\ overlays = 0 /\ decoded = {} /\ landed = 0
  /\ places = {} /\ placesVersion = 0 /\ units = FALSE /\ nearby = 0
  /\ viewNow = (CHOOSE v \in Views : TRUE) /\ wallClock = 0 /\ staleWhich = {}
  /\ areas = [overlays |-> 0, units |-> FALSE, kept |-> << >>]
  /\ reported = None /\ reportedKey = None /\ pending = None
  /\ look = (CHOOSE l \in Looks \ (ThinLooks \union OwnLooks) : TRUE) /\ searched = None /\ own = << >>
  /\ address = None /\ fetcher = None /\ fetchOpts = (CHOOSE o \in Options : TRUE)
  /\ before = [w \in Workers |-> -1] /\ untold = FALSE
  /\ raced = FALSE /\ calls = 0

Asking ==
  \/ \E given \in SUBSET AllPlaces : ReportBegins(given)
  \/ ReportEnds
  \/ \E now \in Times : Render(now)

Changing ==
  \/ \E id \in Ids, o \in Offers : SetOverlay(id, o)
  \/ \E id \in Ids : RemoveOverlay(id)
  \/ \E p \in AllPlaces : AddPlace(p) \/ RemovePlace(p)
  \/ \E want \in BOOLEAN : Units(want)
  \/ \E km \in 0..1 : SetNearby(km)
  \/ \E v \in Views : MoveView(v)
  \/ \E to \in Looks : Relook(to)
  \/ Warnings
  \/ \E a \in Addresses \union {None} : Source(a)
  \/ \E opts \in Options : SetFetchOptions(opts)
  \/ CloseMap

Working == \E w \in Workers : Work(w) \/ NoteLanded(w) \/ \E id \in Ids : Land(w, id)

ReportNext == Asking \/ Changing \/ Working

ReportSpec == ReportInit /\ [][ReportNext]_reportVars

-----------------------------------------------------------------------------
(* What must hold.                                                         *)

ReportTypeOK ==
  /\ shut \in BOOLEAN /\ decoded \subseteq Images /\ places \subseteq AllPlaces
  /\ {overlays, placesVersion, landed, wallClock, calls} \subseteq Nat
  /\ \A id \in Ids : overlay[id] \in Offers \union {None}
  /\ Len(own) <= MaxOwn /\ before \in [Workers -> Nat \union {-1}]

\* A turn not told is not compared: the answer said it was beyond two days.
SameDay(kept, now) ==
  \A p \in DOMAIN now :
    IF kept[p] # None /\ kept[p][2] = 0 THEN kept[p][1] = now[p][1] ELSE kept[p] = now[p]

Kept(asked) ==
  LET now == FreshAnswer(asked)
  IN SameDay(reported.day, now.day) /\ reported = [now EXCEPT !.day = reported.day]

\* A report given back without being worked out is the one that working it
\* out would give, as long as a frame was drawn since the last Set and no
\* picture landed inside the report: nothing an answer is made of is missing
\* from its key, and no measure outlives the geometry or the units it is in.
KeptReportIsFresh ==
  \A given \in SUBSET AllPlaces :
    /\ ~shut /\ Remembered(Asked(given)) /\ ~raced
    /\ reported.stale = reportedKey.stale \intersect Held
    => Kept(Asked(given))

\* The same of every report, as describe.go says of its key.
ReportIsFresh ==
  \A given \in SUBSET AllPlaces : ~shut /\ Remembered(Asked(given)) => Kept(Asked(given))

\* What landed and is not told of yet is told of by a call still inside
\* Work or Settle, whichever of them ran the job.
LandingIsTold == untold /\ ~shut => \E w \in Workers : before[w] \in 0..(landed - 1)

\* Tiles are asked for with the options the map shows, from the source it
\* shows, however calls for either were refused.
SourceHasTheOptions == fetcher # None => fetcher = <<address, fetchOpts>>

=============================================================================

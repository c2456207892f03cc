------------------------------ MODULE Playback ------------------------------
(***************************************************************************)
(* The animation clock of a map: the loops it holds (overlay/timeline.go), *)
(* the listener's controls over them (playback.go), the blink of a marker  *)
(* (render/motion.go), the moment the map shows, and the call at which the *)
(* map wants its next Render (clock.go).                                   *)
(*                                                                         *)
(* Time is a natural number; 0 is Go's zero time, "not given".  Frame      *)
(* ticks and Changed only ever matter by whether they moved, so each is    *)
(* kept as a bit that its increment turns over.                            *)
(***************************************************************************)
EXTENDS Integers, Sequences, FiniteSets, FiniteSetsExt

CONSTANTS
  LoopIds,      \* the overlays that may be loops
  Loops,        \* the loops a host hands in: sets of frames [valid, kind]
  Steps,        \* the steps a host may set
  DefaultStep, CeilingStep, LastHold, BlinkHalf, \* playback.go, motion.go
  Alert,        \* an overlay shown at some hours only: [from, until, valid, keeps]
  Times,        \* the times Animate is given
  Moments,      \* the host's moments for ShowMoment: pairs, <<0, 0>> for none
  MaxTime,      \* bound: how far the host's clock goes
  MaxInputs     \* bound: how many calls other than Render the host makes

ASSUME PlaybackAssumption ==
  /\ {DefaultStep, CeilingStep, LastHold, BlinkHalf} \subseteq Nat \ {0}
  /\ CeilingStep <= BlinkHalf
  /\ IsFiniteSet(LoopIds)
  /\ \A loop \in Loops : IsFiniteSet(loop) /\ \A f \in loop : f.valid \in Nat \ {0}
  /\ Alert \in [from : Nat, until : Nat, valid : Nat, keeps : Nat]
  /\ Steps \subseteq Nat \ {0}
  /\ MaxTime \in Nat /\ Times \subseteq 1..MaxTime /\ MaxInputs \in Nat

VARIABLES
  loops,    \* the loop of each id; the empty set for none
  setting, reduce, step, playing, \* playback and look.reduce
  from, at, given, seen, ticks, aligned,  \* playback, by its own names
  moment,   \* playback.hostFrom and hostTo
  start, last, going, half, \* render.Motion; last is its seen
  driven, animation,        \* Map.driven, Map.animation
  clock,    \* the host's clock
  lit,      \* whether the last frame drew the markers
  anew,     \* whether its instant came after every one seen before it
  current,  \* whether the host has called nothing since
  changed,  \* Map.changed, turned over
  inputs,   \* calls other than Render, so far
  stepped   \* whether the step was set since the map was last given a time

playVars == <<setting, reduce, step, playing, from, at, given, seen, ticks, aligned>>
motionVars == <<start, last, going, half>>
clockVars == <<driven, animation>>
frameVars == <<lit, anew, current>>
noteVars == <<changed, inputs, stepped>>
vars == <<loops, playVars, moment, motionVars, clockVars, clock, frameVars, noteVars>>

-----------------------------------------------------------------------------
(* The loops and their timeline.                                           *)

Frames(id) == loops[id]
AllFrames == UNION {Frames(id) : id \in LoopIds}

Latest(times) == IF times = {} THEN 0 ELSE Max(times)

\* Times in order, each once.
InOrder(times) ==
  [i \in 1..Cardinality(times) |-> CHOOSE v \in times : Cardinality({u \in times : u <= v}) = i]

\* Every loop's frame times, merged and in order, for all loops a map may hold.
Timelines ==
  [held \in [LoopIds -> Loops] |-> InOrder({f.valid : f \in UNION {held[id] : id \in LoopIds}})]

Timeline == Timelines[loops]
Count == Len(Timeline)

Observed(frames) == {f.valid : f \in {g \in frames : g.kind = "observed"}}
Pictured(frames) == {f.valid : f \in {g \in frames : g.kind # "gap"}}

\* The newest observed picture, or for a loop without one its newest picture.
ShownOf(frames) ==
  IF Observed(frames) # {} THEN Latest(Observed(frames)) ELSE Latest(Pictured(frames))

RightNow ==
  LET observed == Observed(AllFrames)
  IN IF observed # {} THEN Latest(observed) ELSE Latest({ShownOf(Frames(id)) : id \in LoopIds})

\* The frame a loop shows at a moment: its newest picture at or before it,
\* or its oldest picture.
FrameShownAt(id, time) ==
  LET pictured == Pictured(Frames(id))
      early == {v \in pictured : v <= time}
  IN IF time = 0 THEN ShownOf(Frames(id))
     ELSE IF early # {} THEN Max(early)
     ELSE IF pictured # {} THEN Min(pictured) ELSE 0

\* What the map says of the moment: the newest loop's frame at it, gaps
\* included.
LabelOf(id, time) ==
  LET early == {f.valid : f \in {g \in Frames(id) : g.valid <= time}}
  IN IF time # 0 /\ early # {} THEN Max(early \union {FrameShownAt(id, time)})
     ELSE FrameShownAt(id, time)

LabelAt(time) == Latest({LabelOf(id, time) : id \in LoopIds})

-----------------------------------------------------------------------------
(* The moment shown.                                                       *)

Plays == setting = "on" /\ ~reduce
StepOf(s) == IF s = 0 THEN DefaultStep ELSE s
Whole(least, s) == s * ((least + s - 1) \div s) \* the steps that cover it
Hold == Whole(LastHold, StepOf(step))
Run == StepOf(step) * (Count - 1)

\* Where a moment falls: the last time at or before it, or the first.
IndexOf(line, time) == Max({1} \union {i \in DOMAIN line : line[i] <= time})

\* The moment shown at animation time t, of a loop that began at b, over a
\* timeline: one frame a step, the last held, over and over.
ShownBy(line, b, t) ==
  IF line = << >> THEN 0
  ELSE IF ~playing \/ ~Plays THEN IF at = 0 THEN RightNow ELSE line[IndexOf(line, at)]
  ELSE IF b = 0 THEN line[1]
  ELSE LET elapsed == (IF t > b THEN t - b ELSE 0) % (Run + Hold)
           i == elapsed \div StepOf(step) + 1
       IN line[IF i < Len(line) THEN i ELSE Len(line)]

Shown == ShownBy(Timeline, from, given)

\* The moment an overlay's span is met against, and what it leaves out.
MomentOf(shown, wall) ==
  IF shown # 0 THEN <<shown, shown>> ELSE IF moment # <<0, 0>> THEN moment ELSE <<wall, wall>>

Meets(span, m) == (span.until = 0 \/ span.until >= m[1]) /\ (span.from = 0 \/ span.from <= m[2])

Hidden(shown, wall) == ~Meets(Alert, MomentOf(shown, wall))

-----------------------------------------------------------------------------
(* The blink.                                                              *)

HalfPeriod == IF half > 0 THEN half ELSE BlinkHalf

\* Whether a marker is drawn at t, with the blink begun at b and h its half.
Lit(b, h, t) == ((t - b) \div h) % 2 = 0

\* An instant already seen, or one before it, is always drawn.
Phase(t) == reduce \/ ~going \/ t <= last \/ Lit(start, HalfPeriod, t)

\* Mutant: the blink keeps its own half period while a loop plays.
BlinkHalfOwn(s) == BlinkHalf

\* The smallest number of steps that is at least half the blink's period.
BlinkHalfOf(s) == Whole(BlinkHalf, s)

\* The blink and its alignment after a Render at animation time t, with the
\* loop's beginning at b: alignBlinkLocked, then Phase.
Grid(b) == playing /\ Plays /\ b # 0

Aligns(b, t) ==
  LET puts == Grid(b) /\ ~aligned
      frees == ~Grid(b) /\ aligned
      on == going \/ puts
      seenBy == IF puts THEN b ELSE last
  IN /\ aligned' = Grid(b)
     /\ half' = IF puts THEN BlinkHalfOf(StepOf(step)) ELSE IF frees THEN 0 ELSE half
     /\ going' = (going \/ ~reduce)
     /\ start' = IF puts THEN b ELSE IF ~reduce /\ ~on THEN t ELSE start
     /\ last' = IF reduce \/ (on /\ t <= seenBy) THEN seenBy ELSE t
     /\ lit' = (reduce \/ (on /\ t <= seenBy) \/ Lit(start', HalfPeriod', t))
     /\ anew' = ~(on /\ t <= last)

-----------------------------------------------------------------------------
(* When the map wants its next Render.                                     *)

Ahead == 1 \* overlay.aheadAllowed
Stale(wall) == Alert.valid > wall + Ahead \/ wall - Alert.valid > Alert.keeps
NextStale(wall) == IF Stale(wall) THEN {} ELSE {Alert.valid + Alert.keeps + 1}

NextPhase(wall) ==
  IF reduce \/ ~going THEN {}
  ELSE IF wall < start THEN {start}
  ELSE {start + ((wall - start) \div HalfPeriod + 1) * HalfPeriod}

\* Mutant: the hold of the last frame is forgotten.
NextAdvanceNoHold(wall) ==
  IF ~playing \/ ~Plays \/ from = 0 \/ Count < 2 THEN {}
  ELSE IF wall < from THEN {from}
  ELSE LET elapsed == (wall - from) % (Run + Hold)
       IN {wall - elapsed + Run + Hold}

NextAdvance(wall) ==
  IF ~playing \/ ~Plays \/ from = 0 \/ Count < 2 THEN {}
  ELSE IF wall < from THEN {from}
  ELSE LET elapsed == (wall - from) % (Run + Hold)
       IN {wall - elapsed + IF elapsed < Run THEN (elapsed \div StepOf(step) + 1) * StepOf(step)
                            ELSE Run + Hold}

NextCall(wall) == NextStale(wall) \union IF driven THEN {} ELSE NextPhase(wall) \union NextAdvance(wall)

-----------------------------------------------------------------------------
(* The host's calls.                                                       *)

\* giveLocked: the map is given an animation time.
Give(t) ==
  LET b == IF playing /\ from = 0 THEN t ELSE from
      shown == ShownBy(Timeline, b, t)
      advances == playing /\ shown # seen
  IN /\ given' = t
     /\ from' = b
     /\ ticks' = IF advances THEN 1 - ticks ELSE ticks
     /\ seen' = IF advances THEN shown ELSE seen
     /\ stepped' = FALSE

Animation == IF driven THEN animation ELSE clock

Render ==
  /\ Give(Animation)
  /\ Aligns(from', Animation)
  /\ current' = TRUE
  /\ UNCHANGED <<loops, setting, reduce, step, playing, at, moment, clockVars, clock,
                 changed, inputs>>

Input == inputs < MaxInputs /\ inputs' = inputs + 1 /\ current' = FALSE /\ UNCHANGED <<lit, anew, clock>>

Animate(t) ==
  /\ Input
  /\ driven' = TRUE /\ animation' = t
  /\ Give(t)
  /\ UNCHANGED <<loops, setting, reduce, step, playing, at, aligned, moment, motionVars, changed>>

FollowClock ==
  /\ Input /\ driven
  /\ driven' = FALSE
  /\ UNCHANGED <<loops, playVars, moment, motionVars, animation, changed, stepped>>

\* A control's move is an input, not an advance: Changed moves, and the
\* moment it leaves is the one seen.
Control ==
  /\ Input
  /\ changed' = 1 - changed
  /\ seen' = Shown'
  /\ UNCHANGED <<ticks, motionVars, clockVars, moment, stepped>>

\* A loop that is playing stops on the frame it shows.
HoldStill == playing' = FALSE /\ at' = IF playing THEN Shown ELSE at

Play ==
  /\ IF Plays THEN playing' = TRUE /\ from' = given /\ aligned' = FALSE
              ELSE UNCHANGED <<playing, from, aligned>>
  /\ UNCHANGED <<loops, setting, reduce, step, at, given>>
  /\ Control

Stop ==
  /\ HoldStill
  /\ UNCHANGED <<loops, setting, reduce, step, from, given, aligned>>
  /\ Control

Reset ==
  /\ playing' = FALSE /\ at' = 0
  /\ UNCHANGED <<loops, setting, reduce, step, from, given, aligned>>
  /\ Control

StepBy(by) ==
  /\ \/ Count = 0 /\ UNCHANGED <<playing, at>>
     \/ /\ Count # 0
        /\ playing' = FALSE
        /\ at' = Timeline[Max({1, Min({Count, IndexOf(Timeline, Shown) + by})})]
  /\ UNCHANGED <<loops, setting, reduce, step, from, given, aligned>>
  /\ Control

SetPlayback(p) ==
  /\ setting' = p
  /\ IF p = "off" THEN HoldStill ELSE UNCHANGED <<playing, at>>
  /\ UNCHANGED <<loops, reduce, step, from, given, aligned>>
  /\ Control

\* The moment seen is left as it was.
SetPlaybackStep(s) ==
  /\ Input
  /\ step' = s /\ aligned' = FALSE /\ changed' = 1 - changed /\ stepped' = TRUE
  /\ UNCHANGED <<loops, setting, reduce, playing, from, at, given, seen, ticks,
                 motionVars, clockVars, moment>>

\* Mutant: reduced motion leaves a loop playing.
ReduceMotionPlaysOn(on) ==
  /\ Input /\ reduce # on
  /\ reduce' = on /\ changed' = 1 - changed
  /\ going' = (going /\ ~on)
  /\ UNCHANGED <<loops, setting, step, playing, at, from, given, seen, ticks, aligned, moment,
                 start, last, half, clockVars, stepped>>

ReduceMotion(on) ==
  /\ Input /\ reduce # on
  /\ reduce' = on /\ changed' = 1 - changed
  /\ IF on THEN HoldStill ELSE UNCHANGED <<playing, at>>
  /\ going' = (going /\ ~on)
  /\ UNCHANGED <<loops, setting, step, from, given, seen, ticks, aligned, moment,
                 start, last, half, clockVars, stepped>>

\* Set and Remove of a loop; a refresh that moves the moment is an input.
SetLoop(id, loop) ==
  /\ loops' = [loops EXCEPT ![id] = loop]
  /\ UNCHANGED <<setting, reduce, step, playing, from, at, given, aligned>>
  /\ Control

\* Mutant: the host's moment is not an input.
ShowMomentQuietly(m) ==
  /\ Input /\ m # moment
  /\ moment' = m
  /\ UNCHANGED <<loops, playVars, motionVars, clockVars, changed, stepped>>

ShowMoment(m) ==
  /\ Input /\ m # moment
  /\ moment' = m /\ changed' = 1 - changed
  /\ UNCHANGED <<loops, playVars, motionVars, clockVars, stepped>>

Tick ==
  /\ clock < MaxTime /\ clock' = clock + 1
  /\ UNCHANGED <<loops, playVars, moment, motionVars, clockVars, lit, anew, noteVars>>
  /\ current' = FALSE

\* The host has made its map, perhaps handed in its loops and let them play.
Init ==
  /\ loops \in [LoopIds -> Loops]
  /\ setting \in {"off", "on"} /\ reduce = FALSE /\ step = 0 /\ playing = FALSE
  /\ from = 0 /\ at = 0 /\ given = 0 /\ seen = RightNow /\ ticks = 0 /\ aligned = FALSE
  /\ moment = <<0, 0>>
  /\ start = 0 /\ last = 0 /\ going = FALSE /\ half = 0
  /\ driven = FALSE /\ animation = 0 /\ clock = 1
  /\ lit = TRUE /\ anew = FALSE /\ current = FALSE
  /\ changed = 0 /\ inputs = 0 /\ stepped = FALSE

Listener == Play \/ Stop \/ Reset \/ \E by \in {-1, 1} : StepBy(by)

Settings ==
  \/ \E p \in {"off", "on"} : SetPlayback(p)
  \/ \E s \in Steps \union {0} : SetPlaybackStep(s)
  \/ \E on \in BOOLEAN : ReduceMotion(on)
  \/ \E m \in Moments : ShowMoment(m)
  \/ \E id \in LoopIds, loop \in Loops : SetLoop(id, loop)

Clock == Tick \/ FollowClock \/ \E t \in Times : Animate(t)

Next == Render \/ Listener \/ Settings \/ Clock

Spec == Init /\ [][Next]_vars
-----------------------------------------------------------------------------
TypeOK ==
  /\ setting \in {"off", "on"} /\ step \in Steps \union {0}
  /\ {reduce, playing, aligned, going, driven, lit, anew, current, stepped} \subseteq BOOLEAN
  /\ {from, given, start, last, animation} \subseteq 0..MaxTime /\ clock \in 1..MaxTime
  /\ at \in {0} \union UNION {{f.valid : f \in loop} : loop \in Loops}
  /\ half \in Nat /\ ticks \in {0, 1} /\ changed \in {0, 1} /\ inputs \in 0..MaxInputs

\* How far ahead a frame is looked at: a blink's period and a loop's run.
Horizon == 2 * HalfPeriod + IF Count = 0 THEN 0 ELSE Run + Hold

(* A host that sleeps until the call the map asks for misses nothing: after *)
(* a frame, neither the loop's frame nor the blink changes, and no overlay *)
(* goes stale, before it; and the call is never in the past.  NextCall,    *)
(* shownLocked and Phase count the same grid apart (clock.go, playback.go, *)
(* motion.go), across every change of step, of loops and of clocks.        *)
NoAdvanceIsMissed ==
  current /\ ~driven /\ anew =>
    LET due == NextCall(clock)
        line == Timeline
        shown == Shown
        sleeps == {t \in clock + 1..clock + Horizon : \A d \in due : t < d}
    IN /\ \A d \in due : d > clock
       /\ \A t \in sleeps : /\ ShownBy(line, from, t) = shown /\ Phase(t) = lit
                            /\ Stale(t) => Stale(clock)

\* What changes by itself at time t, when the host draws at every moment and
\* shows is what the loops show at each.
Changes(shows, t) ==
  \/ shows[t] # shows[t - 1]
  \/ (~reduce /\ going /\ Lit(start, HalfPeriod, t) # Lit(start, HalfPeriod, t - 1))

(* No two changes of the map, a loop's advance or a marker's blink, come   *)
(* closer than the 2.5 a second that is the most anything may flash,       *)
(* unless the host lifted the ceiling with a faster step (ceilingStep of   *)
(* playback.go, Align and Free of motion.go).                              *)
ChangesKeepTheCeiling ==
  current /\ ~driven /\ StepOf(step) >= CeilingStep =>
    LET line == Timeline
        ahead == clock..clock + Horizon
        shows == [t \in ahead |-> ShownBy(line, from, t)]
        times == {t \in ahead \ {clock} : Changes(shows, t)}
    IN \A t, u \in times : t < u => u - t >= CeilingStep

(* While a loop plays every change of the blink falls on one of its steps, *)
(* also at a step that lifts the ceiling, and after any change of step,    *)
(* loop or playback (alignBlinkLocked, blinkHalf).                         *)
BlinksOnTheGrid ==
  current /\ Grid(from) => going /\ start = from /\ HalfPeriod % StepOf(step) = 0

(* Only Play sets a loop moving: a loop held by a setting, or by reduced   *)
(* motion, does not move again when that is lifted (ReduceMotion of        *)
(* look.go, SetPlayback, holdLocked).                                      *)
NothingPlaysByItself ==
  [][playing' /\ Plays' => (playing /\ Plays) \/ Play]_vars

(* Between two times it was given the map counts a frame advance exactly   *)
(* when the loop moved by itself: a control, a refresh and a setting are   *)
(* inputs, not advances (D-66, giveLocked).  The step is the exception.    *)
TicksCountAdvances ==
  [][~stepped => (ticks' # ticks <=> (changed' = changed /\ playing /\ Shown' # Shown))]_vars

\* What the overlays put on a frame drawn now.
Drawn == <<Shown, Hidden(Shown, clock)>>

(* A call that changes what a redraw at the same time would show moves     *)
(* Changed; the clock alone does not (D-66).                               *)
ChangedTellsOfMoves ==
  [][given' = given /\ clock' = clock
       => (Drawn' # Drawn => changed' # changed)]_vars

(* The stamp on the map names the moment shown, a gap by its own time,     *)
(* wherever every loop has a picture to hold over it (LabelAt against      *)
(* RasterAt and the listener's place, which count frames apart).           *)
StampNamesTheMoment ==
  Count # 0 /\ (\A id \in LoopIds : loops[id] # {} => \E v \in Pictured(loops[id]) : v <= Shown)
    => /\ LabelAt(Shown) = Shown
       /\ \A id \in LoopIds : FrameShownAt(id, Shown) <= LabelAt(Shown)

(* A loop that playback off, reduced motion or Stop holds shows the frame  *)
(* it showed (holdLocked is called before the setting that stops it).      *)
HoldsWhereItIs ==
  [][playing /\ ~playing' /\ at' # 0 /\ (setting' # setting \/ reduce' # reduce) => Shown' = Shown]_vars

(* The times the map tells are true: to the host, the call it wants, and   *)
(* to the reader, the stamp on the picture.                                *)
ToldTimesAreTrue == NoAdvanceIsMissed /\ StampNamesTheMoment

(* Nothing on the map flashes faster than the ceiling, and the blink keeps *)
(* to the grid of the loop.                                                *)
FlashesKeepTheCeiling == ChangesKeepTheCeiling /\ BlinksOnTheGrid

(* A move of the loop is told apart from the host's: counted when it moves *)
(* by itself, told by Changed when a call moves it, and none when a        *)
(* setting holds it.                                                       *)
MovesAreTold == TicksCountAdvances /\ ChangedTellsOfMoves /\ HoldsWhereItIs
=============================================================================

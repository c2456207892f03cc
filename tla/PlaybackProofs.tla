---------------------------- MODULE PlaybackProofs ----------------------------
(***************************************************************************)
(* What the playback promises of every set of loops, every step and every  *)
(* order of calls:                                                         *)
(*                                                                         *)
(*   OnlyPlayMoves         only Play sets a loop moving.  The code stops a *)
(*                         loop as it forbids it to play, so that none     *)
(*                         waits for the permission (MovesOnlyIfAllowed);  *)
(*   TicksAreAdvances      an advance is counted exactly when the loop     *)
(*                         moved by itself: from one time given to the     *)
(*                         next, the moment remembered is the one shown,   *)
(*                         unless the step was set between (SeenIsShown);  *)
(*   MovesAreToldApart     and what a call moves, Changed tells: a map     *)
(*                         given the same time again shows the same, and a *)
(*                         loop held on its frame finds that frame again   *)
(*                         on the timeline (GivenAgain, IndexIsThere);     *)
(*   NothingFlashesFaster  a blink is never faster than its own half       *)
(*                         period, and begins with the loop and turns on   *)
(*                         its steps once a frame has aligned it           *)
(*                         (BlinkInv); so what changes by itself falls on  *)
(*                         one grid (ChangesOnTheGrid), whose lines are    *)
(*                         the ceiling apart (WholesApart);                *)
(*   TheTimesToldAreTrue   what is left over a step, a period or a half    *)
(*                         period grows until it fills one, which is the   *)
(*                         call asked for (LeftOverGrows, PlaceStays);     *)
(*                         what the last frame drew is the blink at its    *)
(*                         instant (LitInv); and the moment shown is a     *)
(*                         frame's own time (ShownIsATime), which no label *)
(*                         is later than (LabelIsNoLater).                 *)
(*                                                                         *)
(* The timeline is reasoned about by what it is: every frame time once, in *)
(* order (InOrderRises).                                                   *)
(***************************************************************************)
EXTENDS Playback, FoldTheorems, SequenceTheorems, WellFoundedInduction

MovesOnlyIfAllowed == playing => Plays

LEMMA HeldIsStill == HoldStill => ~playing'
  BY DEF HoldStill

LEMMA AllowedInit == Init => MovesOnlyIfAllowed
  BY DEF Init, MovesOnlyIfAllowed

LEMMA AllowedNext == MovesOnlyIfAllowed /\ [Next]_vars => MovesOnlyIfAllowed'
<1> SUFFICES ASSUME MovesOnlyIfAllowed, [Next]_vars PROVE MovesOnlyIfAllowed'
  OBVIOUS
<1> USE DEF MovesOnlyIfAllowed, Plays
<1>1. ASSUME UNCHANGED <<setting, reduce, playing>> PROVE MovesOnlyIfAllowed'
  BY <1>1
<1>2. CASE Render
  BY <1>2, <1>1 DEF Render
<1>3. CASE Listener
  <2>1. CASE Play
    BY <2>1, Zenon DEF Play
  <2>2. CASE Stop \/ Reset
    BY <2>2, HeldIsStill DEF Stop, Reset
  <2>3. ASSUME NEW by \in {-1, 1}, StepBy(by) PROVE MovesOnlyIfAllowed'
    <3>1. CASE Count = 0 /\ UNCHANGED <<playing, at>>
      BY <3>1, <2>3, <1>1 DEF StepBy
    <3>2. CASE playing' = FALSE
      BY <3>2
    <3> QED
      BY <2>3, <3>1, <3>2 DEF StepBy
  <2> QED
    BY <1>3, <2>1, <2>2, <2>3 DEF Listener
<1>4. CASE Settings
  <2>1. ASSUME NEW p \in {"off", "on"}, SetPlayback(p) PROVE MovesOnlyIfAllowed'
    <3>1. CASE p = "off"
      BY <2>1, <3>1, HeldIsStill DEF SetPlayback
    <3>2. CASE p = "on"
      <4>1. setting' = "on" /\ playing' = playing /\ reduce' = reduce
        BY <2>1, <3>2 DEF SetPlayback
      <4> QED
        BY <4>1
    <3> QED
      BY <3>1, <3>2
  <2>2. ASSUME NEW on \in BOOLEAN, ReduceMotion(on) PROVE MovesOnlyIfAllowed'
    <3>1. CASE on
      BY <2>2, <3>1, HeldIsStill DEF ReduceMotion
    <3>2. CASE ~on
      <4>1. reduce' = FALSE /\ playing' = playing /\ setting' = setting
        BY <2>2, <3>2 DEF ReduceMotion
      <4> QED
        BY <4>1
    <3> QED
      BY <3>1, <3>2
  <2>3. ASSUME NEW s \in Steps \union {0}, SetPlaybackStep(s) PROVE MovesOnlyIfAllowed'
    BY <2>3, <1>1 DEF SetPlaybackStep
  <2>4. ASSUME NEW m \in Moments, ShowMoment(m) PROVE MovesOnlyIfAllowed'
    BY <2>4, <1>1 DEF ShowMoment, playVars
  <2>5. ASSUME NEW id \in LoopIds, NEW loop \in Loops, SetLoop(id, loop) PROVE MovesOnlyIfAllowed'
    BY <2>5, <1>1 DEF SetLoop
  <2> QED
    BY <1>4, <2>1, <2>2, <2>3, <2>4, <2>5 DEF Settings
<1>5. CASE Clock
  BY <1>5, <1>1 DEF Clock, Tick, FollowClock, Animate, playVars
<1>6. CASE UNCHANGED vars
  BY <1>6, <1>1 DEF vars, playVars
<1> QED
  BY <1>2, <1>3, <1>4, <1>5, <1>6 DEF Next

\* A loop that playback off or reduced motion holds does not move again when
\* the setting is lifted: only Play sets one moving.
THEOREM OnlyPlayMoves == Spec => NothingPlaysByItself
<1>1. MovesOnlyIfAllowed /\ [Next]_vars => [playing' /\ Plays' => (playing /\ Plays) \/ Play]_vars
  <2> SUFFICES ASSUME MovesOnlyIfAllowed, Next, playing', ~playing PROVE Play
    BY DEF MovesOnlyIfAllowed
  <2>1. CASE Render
    BY <2>1 DEF Render
  <2>2. CASE Listener
    BY <2>2, HeldIsStill DEF Listener, Stop, Reset, StepBy
  <2>3. CASE Settings
    BY <2>3, HeldIsStill
       DEF Settings, SetPlayback, SetPlaybackStep, ReduceMotion, ShowMoment, SetLoop, playVars
  <2>4. CASE Clock
    BY <2>4 DEF Clock, Tick, FollowClock, Animate, playVars
  <2> QED
    BY <2>1, <2>2, <2>3, <2>4 DEF Next
<1> QED
  BY <1>1, AllowedInit, AllowedNext, PTL DEF Spec, NothingPlaysByItself

-----------------------------------------------------------------------------
(* The moment shown, as a function of what it is made of.                  *)

LineOf(l) == Timelines[l]

RightNowOf(l) ==
  LET frames == UNION {l[id] : id \in LoopIds}
  IN IF Observed(frames) # {} THEN Latest(Observed(frames))
     ELSE Latest({ShownOf(l[id]) : id \in LoopIds})

CountOf(l) == Len(LineOf(l))

ShownFor(l, s, moves, where, b, t) ==
  LET line == LineOf(l) IN
  IF line = << >> THEN 0
  ELSE IF ~moves THEN IF where = 0 THEN RightNowOf(l) ELSE line[IndexOf(line, where)]
  ELSE IF b = 0 THEN line[1]
  ELSE LET elapsed == (IF t > b THEN t - b ELSE 0)
                        % (StepOf(s) * (CountOf(l) - 1) + Whole(LastHold, StepOf(s)))
           i == elapsed \div StepOf(s) + 1
       IN line[IF i < Len(line) THEN i ELSE Len(line)]

LEMMA TimelineIsOfLoops == Timeline = LineOf(loops)
  BY DEF Timeline, LineOf

LEMMA ShownIsOfState == Shown = ShownFor(loops, step, playing /\ Plays, at, from, given)
<1>1. RightNow = RightNowOf(loops) /\ Count = CountOf(loops)
  BY TimelineIsOfLoops DEF RightNow, RightNowOf, Count, CountOf, AllFrames, Frames
<1> QED
  BY <1>1, TimelineIsOfLoops DEF Shown, ShownBy, ShownFor, Hold, Run

LEMMA ShownIsOfStateNext ==
  Shown' = ShownFor(loops', step', playing' /\ Plays', at', from', given')
<1>1. (Shown = ShownFor(loops, step, playing /\ Plays, at, from, given))'
  BY ShownIsOfState, PTL
<1> QED
  BY <1>1

\* The moment shown stays where none of what it is made of moves.
LEMMA ShownStays ==
  ASSUME UNCHANGED <<loops, step, playing, at, from, given>>, Plays' = Plays
  PROVE  Shown' = Shown
  BY ShownIsOfState, ShownIsOfStateNext

-----------------------------------------------------------------------------
(* What a step does to the moment shown, to the one seen and to the counts. *)

\* The map is given a time, and counts the advance that time brings.
Gives ==
  /\ changed' = changed /\ playing' = playing /\ ~stepped'
  /\ IF playing /\ Shown' # seen THEN ticks' # ticks /\ seen' = Shown' ELSE ticks' = ticks /\ seen' = seen

\* A control moves the loop: told by Changed, and seen at once.
Controls == changed' # changed /\ ticks' = ticks /\ seen' = Shown' /\ stepped' = stepped

\* The step is set, or motion is reduced or allowed again.
Sets == changed' # changed /\ ticks' = ticks /\ (stepped' \/ ~playing')

\* Nothing about the loops moves.
Rests == ticks' = ticks /\ playing' = playing /\ seen' = seen /\ stepped' = stepped /\ Shown' = Shown

CountsTyped == changed \in {0, 1} /\ ticks \in {0, 1} /\ reduce \in BOOLEAN /\ lit \in BOOLEAN

LEMMA GivenIsShown ==
  ASSUME NEW STATE t, Give(t), UNCHANGED <<loops, setting, reduce, step, playing, at, changed>>,
         CountsTyped
  PROVE  Gives
<1> DEFINE b == IF playing /\ from = 0 THEN t ELSE from
<1>1. from' = b /\ given' = t
  BY DEF Give
<1>2. ShownBy(Timeline, b, t) = ShownFor(loops, step, playing /\ Plays, at, b, t)
  <2>1. RightNow = RightNowOf(loops) /\ Count = CountOf(loops)
    BY TimelineIsOfLoops DEF RightNow, RightNowOf, Count, CountOf, AllFrames, Frames
  <2> HIDE DEF b
  <2> QED
    BY <2>1, TimelineIsOfLoops DEF ShownBy, ShownFor, Hold, Run
<1>3. Plays' = Plays
  BY DEF Plays
<1>4. Shown' = ShownBy(Timeline, b, t)
  <2> HIDE DEF b
  <2> QED
    BY <1>1, <1>2, <1>3, ShownIsOfStateNext
<1>5. /\ ticks' = IF playing /\ Shown' # seen THEN 1 - ticks ELSE ticks
      /\ seen' = IF playing /\ Shown' # seen THEN Shown' ELSE seen
      /\ stepped' = FALSE
  BY <1>4 DEF Give
<1>6. 1 - ticks # ticks
  BY DEF CountsTyped
<1> QED
  BY <1>5, <1>6 DEF Gives

LEMMA StepKinds ==
  ASSUME MovesOnlyIfAllowed, CountsTyped, [Next]_vars
  PROVE  Gives \/ Controls \/ Sets \/ Rests
<1>1. ASSUME Control PROVE Controls
  BY <1>1 DEF Control, Controls, CountsTyped
<1>2. ASSUME UNCHANGED <<loops, playVars, stepped>> PROVE Rests
  <2>1. Plays' = Plays
    BY <1>2 DEF Plays, playVars
  <2> QED
    BY <1>2, <2>1, ShownStays DEF Rests, playVars
<1>3. CASE Render
  <2>1. Give(Animation) /\ UNCHANGED <<loops, setting, reduce, step, playing, at, changed>>
    BY <1>3 DEF Render
  <2> QED
    BY <2>1, GivenIsShown
<1>4. CASE Listener
  BY <1>4, <1>1 DEF Listener, Play, Stop, Reset, StepBy
<1>5. CASE Settings
  <2>1. ASSUME NEW p \in {"off", "on"}, SetPlayback(p) PROVE Controls
    BY <2>1, <1>1 DEF SetPlayback
  <2>2. ASSUME NEW s \in Steps \union {0}, SetPlaybackStep(s) PROVE Sets
    BY <2>2 DEF SetPlaybackStep, Sets, CountsTyped
  <2>3. ASSUME NEW on \in BOOLEAN, ReduceMotion(on) PROVE Sets
    <3>1. changed' # changed /\ ticks' = ticks
      BY <2>3 DEF ReduceMotion, CountsTyped
    <3>2. ~playing'
      <4>1. CASE on
        BY <2>3, <4>1, HeldIsStill DEF ReduceMotion
      <4>2. CASE ~on
        <5>1. reduce # on /\ playing' = playing
          BY <2>3, <4>2 DEF ReduceMotion
        <5>2. CASE playing
          BY <5>1, <5>2, <4>2 DEF MovesOnlyIfAllowed, Plays, CountsTyped
        <5> QED
          BY <5>1, <5>2
      <4> QED
        BY <4>1, <4>2
    <3> QED
      BY <3>1, <3>2 DEF Sets
  <2>4. ASSUME NEW m \in Moments, ShowMoment(m) PROVE Rests
    BY <2>4, <1>2 DEF ShowMoment
  <2>5. ASSUME NEW id \in LoopIds, NEW loop \in Loops, SetLoop(id, loop) PROVE Controls
    BY <2>5, <1>1 DEF SetLoop
  <2> QED
    BY <1>5, <2>1, <2>2, <2>3, <2>4, <2>5 DEF Settings
<1>6. CASE Clock
  <2>1. ASSUME NEW t \in Times, Animate(t) PROVE Gives
    <3>1. Give(t) /\ UNCHANGED <<loops, setting, reduce, step, playing, at, changed>>
      BY <2>1 DEF Animate
    <3> QED
      BY <3>1, GivenIsShown
  <2>2. CASE Tick
    BY <2>2, <1>2 DEF Tick, noteVars
  <2>3. CASE FollowClock
    BY <2>3, <1>2 DEF FollowClock
  <2> QED
    BY <1>6, <2>1, <2>2, <2>3 DEF Clock
<1>7. CASE UNCHANGED vars
  BY <1>7, <1>2 DEF vars, noteVars
<1> QED
  BY <1>3, <1>4, <1>5, <1>6, <1>7 DEF Next

LEMMA CountsNext == CountsTyped /\ [Next]_vars => CountsTyped'
<1> SUFFICES ASSUME CountsTyped, [Next]_vars PROVE CountsTyped'
  OBVIOUS
<1> DEFINE Counts == changed \in {0, 1} /\ ticks \in {0, 1} /\ reduce \in BOOLEAN
<1> USE DEF CountsTyped
<1>1. CASE Render
  <2>1. Counts'
    BY <1>1 DEF Render, Give
  <2>2. Aligns(from', Animation)
    BY <1>1 DEF Render
  <2>3. lit' \in BOOLEAN
    BY <2>2, Zenon DEF Aligns
  <2> QED
    BY <2>1, <2>3
<1>2. CASE Listener
  BY <1>2 DEF Listener, Play, Stop, Reset, StepBy, Control, Input
<1>3. CASE Settings
  BY <1>3 DEF Settings, SetPlayback, SetPlaybackStep, ReduceMotion, ShowMoment, SetLoop, Control, Input,
              playVars
<1>4. CASE Clock
  BY <1>4 DEF Clock, Tick, FollowClock, Animate, Give, Input, playVars, noteVars
<1>5. CASE UNCHANGED vars
  BY <1>5 DEF vars, playVars, noteVars, frameVars
<1> QED
  BY <1>1, <1>2, <1>3, <1>4, <1>5 DEF Next

\* From one time it was given to the next, the moment the map remembers having
\* shown is the one it shows.
SeenIsShown == playing /\ ~stepped => seen = Shown

TickInv == MovesOnlyIfAllowed /\ CountsTyped /\ SeenIsShown

LEMMA TickInit == Init => TickInv
  BY AllowedInit DEF Init, TickInv, CountsTyped, SeenIsShown

LEMMA TickNext == TickInv /\ [Next]_vars => TickInv'
<1> SUFFICES ASSUME TickInv, [Next]_vars PROVE SeenIsShown'
  BY AllowedNext, CountsNext DEF TickInv
<1>1. CASE Gives
  BY <1>1 DEF Gives, SeenIsShown
<1>2. CASE Controls
  BY <1>2 DEF Controls, SeenIsShown
<1>3. CASE Sets
  BY <1>3 DEF Sets, SeenIsShown
<1>4. CASE Rests
  BY <1>4 DEF Rests, SeenIsShown, TickInv
<1> QED
  BY <1>1, <1>2, <1>3, <1>4, StepKinds DEF TickInv

\* A frame advance is counted exactly when the loop moved by itself: a
\* control, a refresh and a setting are inputs, told by Changed alone.
THEOREM TicksAreAdvances == Spec => TicksCountAdvances
<1>1. TickInv /\ [Next]_vars =>
        [~stepped => (ticks' # ticks <=> (changed' = changed /\ playing /\ Shown' # Shown))]_vars
  <2> SUFFICES ASSUME TickInv, [Next]_vars, ~stepped
               PROVE  ticks' # ticks <=> (changed' = changed /\ playing /\ Shown' # Shown)
    OBVIOUS
  <2>1. CASE Gives
    BY <2>1 DEF Gives, TickInv, SeenIsShown
  <2>2. CASE Controls
    BY <2>2 DEF Controls
  <2>3. CASE Sets
    BY <2>3 DEF Sets
  <2>4. CASE Rests
    BY <2>4 DEF Rests
  <2> QED
    BY <2>1, <2>2, <2>3, <2>4, StepKinds DEF TickInv
<1> QED
  BY <1>1, TickInit, TickNext, PTL DEF Spec, TicksCountAdvances
-----------------------------------------------------------------------------
(* Steps, and what is left over them.                                      *)

\* What is left over grows until it fills a whole one.
LEMMA LeftOverGrows ==
  ASSUME NEW x \in Int, NEW d \in Nat \ {0}, NEW k \in Nat, (x % d) + k < d
  PROVE  (x + k) % d = (x % d) + k /\ (x + k) \div d = x \div d
<1>1. (x % d) + k \in 0..d - 1
  BY DivMod
<1>2. /\ x \div d \in Int /\ x = d * (x \div d) + (x % d)
      /\ (x + k) \div d \in Int /\ (x + k) % d \in 0..d - 1
      /\ x + k = d * ((x + k) \div d) + ((x + k) % d)
  <2>1. x + k \in Int
    OBVIOUS
  <2> QED
    BY <2>1, DivMod
<1>3. PICK q \in Int : q = x \div d
  BY <1>2
<1>4. PICK p \in Int, r \in 0..d - 1 : p = (x + k) \div d /\ r = (x + k) % d
  BY <1>2
<1>5. PICK m \in 0..d - 1 : m = (x % d) + k
  BY <1>1
<1>6. d * p + r = d * q + m
  <2>1. x = d * q + (x % d) /\ x + k = d * p + r /\ x % d \in Int
    BY <1>2, <1>3, <1>4, DivMod
  <2> QED
    BY <2>1, <1>5
<1>7. p = q /\ r = m
  BY <1>6, OneQuotient
<1> QED
  BY <1>3, <1>4, <1>5, <1>7

\* A quotient changes only where nothing is left over.
LEMMA QuotientTurnsOnTheWhole ==
  ASSUME NEW x \in Int, NEW d \in Nat \ {0}, x % d # 0
  PROVE  (x - 1) \div d = x \div d /\ (x - 1) % d = (x % d) - 1
<1>1. (x % d) - 1 \in 0..d - 1
  BY DivMod
<1>2. /\ x \div d \in Int /\ x = d * (x \div d) + (x % d)
      /\ (x - 1) \div d \in Int /\ (x - 1) % d \in 0..d - 1
      /\ x - 1 = d * ((x - 1) \div d) + ((x - 1) % d)
  <2>1. x - 1 \in Int
    OBVIOUS
  <2> QED
    BY <2>1, DivMod
<1>3. PICK q \in Int : q = x \div d
  BY <1>2
<1>4. PICK p \in Int, r \in 0..d - 1 : p = (x - 1) \div d /\ r = (x - 1) % d
  BY <1>2
<1>5. PICK m \in 0..d - 1 : m = (x % d) - 1
  BY <1>1
<1>6. d * p + r = d * q + m
  <2>1. x = d * q + (x % d) /\ x - 1 = d * p + r /\ x % d \in Int
    BY <1>2, <1>3, <1>4, DivMod
  <2> QED
    BY <2>1, <1>5
<1>7. p = q /\ r = m
  BY <1>6, OneQuotient
<1> QED
  BY <1>3, <1>4, <1>5, <1>7

LEMMA WholesAreWhole ==
  ASSUME NEW d \in Nat \ {0}, NEW q \in Int
  PROVE  (d * q) % d = 0 /\ (d * q) \div d = q
<1>1. PICK x \in Int : x = d * q
  OBVIOUS
<1>2. PICK p \in Int, r \in 0..d - 1 : p = x \div d /\ r = x % d /\ x = d * p + r
  BY DivMod
<1>3. d * p + r = d * q + 0 /\ 0 \in 0..d - 1
  BY <1>1, <1>2
<1>4. p = q /\ r = 0
  BY <1>3, OneQuotient
<1> QED
  BY <1>1, <1>2, <1>4

\* Steps that cover something are whole steps.
LEMMA WholeCovers ==
  ASSUME NEW least \in Nat \ {0}, NEW s \in Nat \ {0}
  PROVE  /\ Whole(least, s) \in Nat \ {0}
         /\ Whole(least, s) >= least /\ Whole(least, s) >= s
         /\ \E m \in Nat \ {0} : Whole(least, s) = s * m
<1> DEFINE m == (least + s - 1) \div s
<1>1. m \in Nat /\ least + s - 1 < s * m + s
  <2>1. PICK x \in Nat : x = least + s - 1
    OBVIOUS
  <2>2. /\ x \div s \in Int /\ x % s \in 0..s - 1
        /\ x = s * (x \div s) + (x % s) /\ x \div s >= 0
    <3>1. x \in Int /\ x >= 0
      OBVIOUS
    <3> HIDE DEF m
    <3> QED
      BY <3>1, DivMod
  <2>3. m = x \div s
    BY <2>1
  <2> HIDE DEF m
  <2>4. m \in Nat /\ x = s * m + (x % s) /\ s * m \in Int
    BY <2>2, <2>3
  <2> QED
    BY <2>1, <2>2, <2>4
<1>2. s * m >= least
  BY <1>1
<1>3. m # 0
  BY <1>2
<1>4. s * m >= s /\ s * m \in Nat
  BY <1>1, <1>3, TimesIsMore
<1>5. Whole(least, s) = s * m
  BY DEF Whole
<1> HIDE DEF m
<1> QED
  BY <1>1, <1>2, <1>3, <1>4, <1>5

-----------------------------------------------------------------------------
(* The greatest, the least and the order of some times.                    *)

LEMMA SomeMax ==
  ASSUME NEW S, IsFiniteSet(S), S # {}, S \subseteq Nat
  PROVE  Max(S) \in S /\ \A x \in S : x <= Max(S)
<1> DEFINE above(v) == {u \in S : u >= v}
           counts   == {Cardinality(above(v)) : v \in S}
           before   == {p \in Nat \X Nat : p[1] < p[2]}
<1>1. \A v \in S : IsFiniteSet(above(v)) /\ Cardinality(above(v)) \in Nat
  BY FS_Subset, FS_CardinalityType
<1>2. counts \subseteq Nat /\ counts # {}
  BY <1>1
<1>3. IsWellFoundedOn(before, Nat)
  BY NatLessThanWellFounded DEF OpToRel
<1>4. \A i, j \in Nat : i < j => <<i, j>> \in before
  OBVIOUS
<1>5. \A v \in S : Cardinality(above(v)) \in counts
  OBVIOUS
<1>6. \A n \in counts : \E v \in S : n = Cardinality(above(v))
  OBVIOUS
<1>7. ASSUME NEW v \in S, NEW w \in S, v < w
      PROVE  Cardinality(above(w)) < Cardinality(above(v))
  <2>0. v \in Nat /\ w \in Nat
    OBVIOUS
  <2>1. ASSUME NEW u \in above(w) PROVE u \in above(v)
    <3>1. u \in S /\ u \in Nat /\ u >= w
      OBVIOUS
    <3> QED
      BY <1>7, <2>0, <3>1
  <2>2. v \in above(v) /\ v \notin above(w)
    BY <1>7, <2>0
  <2>3. /\ IsFiniteSet(above(v)) /\ Cardinality(above(v)) \in Nat
        /\ IsFiniteSet(above(w)) /\ Cardinality(above(w)) \in Nat
    BY <1>1
  <2> HIDE DEF above
  <2>4. above(w) \in SUBSET above(v) /\ above(w) # above(v)
    BY <2>1, <2>2
  <2>5. Cardinality(above(w)) <= Cardinality(above(v)) /\ Cardinality(above(w)) # Cardinality(above(v))
    BY <2>3, <2>4, FS_Subset
  <2> QED
    BY <2>3, <2>5
<1> HIDE DEF above, counts, before
<1>8. PICK least \in counts : \A n \in counts : <<n, least>> \notin before
  BY <1>2, <1>3, WFMin
<1>9. PICK v \in S : least = Cardinality(above(v))
  BY <1>6, <1>8
<1>10. ASSUME NEW w \in S PROVE v >= w
  <2> SUFFICES ASSUME v < w PROVE FALSE
    BY <1>10
  <2>1. Cardinality(above(w)) < least
    BY <1>7, <1>9, <1>10
  <2> QED
    BY <2>1, <1>1, <1>4, <1>5, <1>8, <1>9, <1>10
<1>11. \E x \in S : \A y \in S : x >= y
  BY <1>10
<1>12. Max(S) \in S /\ \A y \in S : Max(S) >= y
  BY <1>11, Zenon DEF Max
<1> QED
  BY <1>12

LEMMA SomeMin ==
  ASSUME NEW S, S # {}, S \subseteq Nat
  PROVE  Min(S) \in S /\ \A x \in S : Min(S) <= x
<1> DEFINE before == {p \in Nat \X Nat : p[1] < p[2]}
<1>1. IsWellFoundedOn(before, Nat)
  BY NatLessThanWellFounded DEF OpToRel
<1>2. \A i, j \in Nat : i < j => <<i, j>> \in before
  OBVIOUS
<1> HIDE DEF before
<1>3. PICK least \in S : \A n \in S : <<n, least>> \notin before
  BY <1>1, WFMin
<1>4. ASSUME NEW n \in S PROVE least <= n
  <2>1. least \in Nat /\ n \in Nat
    OBVIOUS
  <2>2. ~(n < least)
    BY <2>1, <1>2, <1>3
  <2> QED
    BY <2>1, <2>2
<1>5. Min(S) \in S /\ \A y \in S : Min(S) <= y
  BY <1>4, Zenon DEF Min
<1> QED
  BY <1>5

LEMMA SomeLatest ==
  ASSUME NEW S, IsFiniteSet(S), S \subseteq Nat
  PROVE  /\ Latest(S) \in Nat /\ \A x \in S : x <= Latest(S)
         /\ S # {} => Latest(S) \in S
  BY SomeMax DEF Latest

\* Times in order: each once, and rising.
LEMMA InOrderRises ==
  ASSUME NEW T, IsFiniteSet(T), T \subseteq Nat
  PROVE  /\ Cardinality(T) \in Nat
         /\ InOrder(T) \in [1..Cardinality(T) -> T]
         /\ \A i, j \in 1..Cardinality(T) : i < j => InOrder(T)[i] < InOrder(T)[j]
         /\ \A v \in T : \E i \in 1..Cardinality(T) : InOrder(T)[i] = v
<1> DEFINE upTo(v) == {u \in T : u <= v}
           rank(v) == Cardinality(upTo(v))
           line    == [i \in 1..Cardinality(T) |-> CHOOSE v \in T : rank(v) = i]
<1>1. Cardinality(T) \in Nat
  BY FS_CardinalityType
<1>2. \A v \in T : IsFiniteSet(upTo(v)) /\ rank(v) \in 1..Cardinality(T)
  <2> SUFFICES ASSUME NEW v \in T PROVE IsFiniteSet(upTo(v)) /\ rank(v) \in 1..Cardinality(T)
    OBVIOUS
  <2>1. IsFiniteSet(upTo(v)) /\ rank(v) <= Cardinality(T)
    BY FS_Subset
  <2>2. rank(v) \in Nat /\ rank(v) # 0
    BY <2>1, FS_CardinalityType, FS_EmptySet
  <2> QED
    BY <2>1, <2>2, <1>1
<1>0. \A u \in T : u \in Nat
  OBVIOUS
<1>3. ASSUME NEW v \in T, NEW w \in T, v < w PROVE rank(v) < rank(w)
  <2>0. v \in Nat /\ w \in Nat
    OBVIOUS
  <2>1. ASSUME NEW u \in upTo(v) PROVE u \in upTo(w)
    <3>1. u \in T /\ u \in Nat /\ u <= v
      OBVIOUS
    <3> QED
      BY <1>3, <2>0, <3>1
  <2>3. w \in upTo(w) /\ w \notin upTo(v)
    BY <1>3, <2>0
  <2>2. IsFiniteSet(upTo(w)) /\ rank(v) \in Nat /\ rank(w) \in Nat
    BY <1>2
  <2> HIDE DEF upTo
  <2>4. upTo(v) \in SUBSET upTo(w) /\ upTo(v) # upTo(w)
    BY <2>1, <2>3
  <2>5. rank(v) <= rank(w) /\ rank(v) # rank(w)
    BY <2>2, <2>4, FS_Subset
  <2> QED
    BY <2>2, <2>5
<1>4. ASSUME NEW i \in 1..Cardinality(T) PROVE \E v \in T : rank(v) = i
  <2> DEFINE far == {v \in T : rank(v) >= i}
  <2>1. far # {}
    <3>1. T # {}
      BY <1>1, FS_EmptySet
    <3>2. Max(T) \in T /\ upTo(Max(T)) = T
      BY <3>1, SomeMax
    <3>3. rank(Max(T)) >= i
      BY <3>2, <1>1
    <3> QED
      BY <3>2, <3>3
  <2>2. far \subseteq Nat
    OBVIOUS
  <2>3. Min(far) \in far /\ \A w \in far : Min(far) <= w
    BY <2>1, <2>2, SomeMin
  <2>4. PICK v \in far : \A w \in far : v <= w
    BY <2>3
  <2>5. v \in T /\ rank(v) >= i /\ rank(v) \in Nat
    BY <2>4, <1>2
  <2> DEFINE less == {u \in T : u < v}
  <2>6. Cardinality(less) < i
    <3>1. IsFiniteSet(less)
      BY FS_Subset
    <3>2. CASE less = {}
      BY <3>2, FS_EmptySet
    <3>3. CASE less # {}
      <4>1. Max(less) \in less /\ \A x \in less : x <= Max(less)
        BY <3>1, <3>3, SomeMax
      <4>2. PICK w \in less : \A x \in less : x <= w
        BY <4>1
      <4>3. upTo(w) = less
        <5>0. w \in Nat /\ v \in Nat /\ w < v /\ w \in T
          BY <1>0, <4>2, <2>5
        <5>1. ASSUME NEW u \in upTo(w) PROVE u \in less
          <6>1. u \in T /\ u \in Nat /\ u <= w
            OBVIOUS
          <6> QED
            BY <5>0, <6>1
        <5>2. ASSUME NEW u \in less PROVE u \in upTo(w)
          BY <4>2
        <5> QED
          BY <5>1, <5>2
      <4>4. w \in T /\ ~(rank(w) >= i)
        BY <4>2, <2>4, <2>5
      <4> QED
        BY <4>3, <4>4, <1>2
    <3> QED
      BY <3>2, <3>3
  <2>7. upTo(v) = less \cup {v} /\ v \notin less
    <3>0. v \in Nat /\ v \in T
      BY <1>0, <2>5
    <3>1. ASSUME NEW u PROVE u \in upTo(v) <=> u \in less \cup {v}
      <4>1. CASE u \in T
        <5>1. u \in Nat
          BY <1>0, <4>1
        <5>2. u <= v <=> (u < v \/ u = v)
          BY <3>0, <5>1
        <5> QED
          BY <4>1, <5>2
      <4>2. CASE u \notin T
        BY <3>0, <4>2
      <4> QED
        BY <4>1, <4>2
    <3>2. v \notin less
      BY <3>0
    <3> QED
      BY <3>1, <3>2
  <2>8. IsFiniteSet(less) /\ Cardinality(less) \in Nat
    BY FS_Subset, FS_CardinalityType
  <2> HIDE DEF less
  <2>9. rank(v) = Cardinality(less) + 1
    BY <2>7, <2>8, FS_AddElement
  <2> QED
    BY <2>5, <2>6, <2>8, <2>9
<1>5. InOrder(T) = line
  BY DEF InOrder
<1> HIDE DEF rank, upTo
<1>6. \A i \in 1..Cardinality(T) : line[i] \in T /\ rank(line[i]) = i
  <2> SUFFICES ASSUME NEW i \in 1..Cardinality(T) PROVE line[i] \in T /\ rank(line[i]) = i
    OBVIOUS
  <2>1. line[i] = CHOOSE v \in T : rank(v) = i
    OBVIOUS
  <2> QED
    BY <2>1, <1>4, Zenon
<1>7. line \in [1..Cardinality(T) -> T]
  BY <1>4, <1>6
<1> HIDE DEF line
<1>8. ASSUME NEW i \in 1..Cardinality(T), NEW j \in 1..Cardinality(T), i < j
      PROVE  line[i] < line[j]
  <2>1. /\ line[i] \in T /\ line[j] \in T /\ line[i] \in Nat /\ line[j] \in Nat
        /\ rank(line[i]) = i /\ rank(line[j]) = j
    BY <1>0, <1>6
  <2>2. line[j] < line[i] => j < i
    BY <2>1, <1>3
  <2>3. ~(line[j] < line[i]) /\ line[i] # line[j]
    BY <2>1, <2>2, <1>1, <1>8
  <2> QED
    BY <2>1, <2>3
<1>9. ASSUME NEW v \in T PROVE \E i \in 1..Cardinality(T) : line[i] = v
  <2>1. rank(v) \in 1..Cardinality(T)
    BY <1>2
  <2>2. line[rank(v)] \in T /\ rank(line[rank(v)]) = rank(v)
    BY <1>6, <2>1
  <2>3. line[rank(v)] \in Nat /\ v \in Nat
    BY <2>2, <1>0
  <2>5. rank(v) \in Nat
    BY <2>1, <1>1
  <2>4. line[rank(v)] = v
    <3>1. ~(rank(v) < rank(v))
      BY <2>5
    <3>2. ~(line[rank(v)] < v) /\ ~(v < line[rank(v)])
      BY <2>2, <3>1, <1>3
    <3> QED
      BY <2>3, <3>2
  <2> QED
    BY <2>1, <2>4
<1> QED
  BY <1>1, <1>5, <1>7, <1>8, <1>9
-----------------------------------------------------------------------------
(* The loops and their timeline.                                           *)

TimesOf(l) == {f.valid : f \in UNION {l[id] : id \in LoopIds}}

LEMMA ValidsAreFinite ==
  ASSUME NEW S, IsFiniteSet(S)
  PROVE  IsFiniteSet({f.valid : f \in S})
<1> DEFINE g == [f \in S |-> f.valid]
           T == {f.valid : f \in S}
<1>1. g \in Surjection(S, T)
  BY DEF Surjection
<1> QED
  BY <1>1, FS_Surjection

LEMMA TimesAreTimes ==
  ASSUME NEW l \in [LoopIds -> Loops]
  PROVE  IsFiniteSet(TimesOf(l)) /\ TimesOf(l) \subseteq Nat \ {0}
<1> DEFINE held == {l[id] : id \in LoopIds}
<1>1. IsFiniteSet(held)
  <2>1. l \in Surjection(LoopIds, held)
    BY DEF Surjection
  <2> QED
    BY <2>1, FS_Surjection, PlaybackAssumption DEF PlaybackAssumption
<1>2. \A loop \in held : IsFiniteSet(loop) /\ \A f \in loop : f.valid \in Nat \ {0}
  BY PlaybackAssumption DEF PlaybackAssumption
<1>3. IsFiniteSet(UNION held)
  BY <1>1, <1>2, FS_UNION
<1>4. IsFiniteSet({f.valid : f \in UNION held})
  BY <1>3, ValidsAreFinite
<1>5. \A f \in UNION held : f.valid \in Nat \ {0}
  BY <1>2
<1> HIDE DEF held
<1>6. {f.valid : f \in UNION held} \subseteq Nat \ {0}
  BY <1>5
<1> QED
  BY <1>4, <1>6 DEF TimesOf, held

LEMMA LineRises ==
  ASSUME NEW l \in [LoopIds -> Loops]
  PROVE  /\ CountOf(l) \in Nat
         /\ LineOf(l) \in [1..CountOf(l) -> TimesOf(l)]
         /\ \A i, j \in 1..CountOf(l) : i < j => LineOf(l)[i] < LineOf(l)[j]
         /\ \A v \in TimesOf(l) : \E i \in 1..CountOf(l) : LineOf(l)[i] = v
         /\ LineOf(l) = << >> <=> CountOf(l) = 0
<1> DEFINE T == TimesOf(l)
           n == Cardinality(T)
<1>1. LineOf(l) = InOrder(T)
  BY DEF LineOf, Timelines, TimesOf
<1>2. IsFiniteSet(T) /\ T \subseteq Nat
  BY TimesAreTimes
<1> HIDE DEF T
<1>3. /\ n \in Nat /\ InOrder(T) \in [1..n -> T]
      /\ \A i, j \in 1..n : i < j => InOrder(T)[i] < InOrder(T)[j]
      /\ \A v \in T : \E i \in 1..n : InOrder(T)[i] = v
  BY <1>2, InOrderRises
<1>4. InOrder(T) \in Seq(T)
  BY <1>3, SeqDef
<1>5. DOMAIN InOrder(T) = 1..n /\ DOMAIN InOrder(T) = 1..Len(InOrder(T)) /\ Len(InOrder(T)) \in Nat
  BY <1>3, <1>4, LenProperties
<1> HIDE DEF n
<1>6. Len(InOrder(T)) = n
  BY <1>3, <1>5
<1>7. InOrder(T) = << >> <=> Len(InOrder(T)) = 0
  BY <1>4, EmptySeq
<1> QED
  BY <1>1, <1>3, <1>6, <1>7 DEF CountOf, T

\* A moment of the timeline is found where it is.
LEMMA IndexIsThere ==
  ASSUME NEW l \in [LoopIds -> Loops], NEW i \in 1..CountOf(l)
  PROVE  IndexOf(LineOf(l), LineOf(l)[i]) = i
<1> DEFINE line == LineOf(l)
           J == {1} \union {j \in DOMAIN line : line[j] <= line[i]}
<1>1. /\ CountOf(l) \in Nat /\ DOMAIN line = 1..CountOf(l)
      /\ \A j \in 1..CountOf(l) : line[j] \in Nat
      /\ \A j, k \in 1..CountOf(l) : j < k => line[j] < line[k]
  BY LineRises, TimesAreTimes
<1> HIDE DEF line
<1>2. J \subseteq 1..CountOf(l) /\ i \in J
  BY <1>1
<1>3. IsFiniteSet(J) /\ J \subseteq Nat
  <2>1. IsFiniteSet(1..CountOf(l)) /\ 1..CountOf(l) \subseteq Nat
    BY <1>1, FS_Interval, SMTT(30)
  <2> HIDE DEF J
  <2> QED
    BY <1>2, <2>1, FS_Subset
<1>4. Max(J) \in J /\ \A j \in J : j <= Max(J)
  BY <1>2, <1>3, SomeMax
<1>5. PICK m \in J : m = Max(J)
  BY <1>4
<1>6. m \in 1..CountOf(l) /\ i <= m
  BY <1>2, <1>4, <1>5
<1>7. ~(i < m)
  <2> SUFFICES ASSUME i < m PROVE FALSE
    OBVIOUS
  <2>1. line[m] <= line[i]
    BY <1>6, <1>1
  <2>2. line[i] < line[m] /\ line[i] \in Nat /\ line[m] \in Nat
    BY <1>1, <1>6
  <2> QED
    BY <2>1, <2>2
<1>8. m = i
  BY <1>6, <1>7
<1> QED
  BY <1>5, <1>8 DEF IndexOf, line

\* Any moment falls somewhere on a timeline.
LEMMA IndexIsOnIt ==
  ASSUME NEW l \in [LoopIds -> Loops], CountOf(l) # 0, NEW time
  PROVE  IndexOf(LineOf(l), time) \in 1..CountOf(l)
<1> DEFINE line == LineOf(l)
           J == {1} \union {j \in DOMAIN line : line[j] <= time}
<1>1. CountOf(l) \in Nat /\ DOMAIN line = 1..CountOf(l)
  BY LineRises
<1> HIDE DEF line
<1>2. J \subseteq 1..CountOf(l) /\ J # {}
  BY <1>1
<1>3. IsFiniteSet(J) /\ J \subseteq Nat
  <2>1. IsFiniteSet(1..CountOf(l)) /\ 1..CountOf(l) \subseteq Nat
    BY <1>1, FS_Interval
  <2> HIDE DEF J
  <2> QED
    BY <1>2, <2>1, FS_Subset
<1>4. Max(J) \in J
  BY <1>2, <1>3, SomeMax
<1> QED
  BY <1>2, <1>4 DEF IndexOf, line

LEMMA StepsAreSome ==
  ASSUME NEW s \in Steps \union {0}
  PROVE  StepOf(s) \in Nat \ {0}
  BY PlaybackAssumption DEF PlaybackAssumption, StepOf

\* The period of a loop is whole steps.
LEMMA PeriodIsWhole ==
  ASSUME NEW s \in Nat \ {0}, NEW n \in Nat \ {0}
  PROVE  \E m \in Nat \ {0} : /\ s * (n - 1) + Whole(LastHold, s) = s * m
                              /\ s * m \in Nat \ {0}
<1>1. PICK h \in Nat \ {0} : Whole(LastHold, s) = s * h
  BY WholeCovers, PlaybackAssumption DEF PlaybackAssumption
<1>2. PICK m \in Nat \ {0} : m = n - 1 + h
  OBVIOUS
<1>3. s * (n - 1) + s * h = s * m
  BY <1>2
<1>4. s * m \in Nat \ {0}
  BY TimesIsMore
<1> QED
  BY <1>1, <1>3, <1>4

\* A loop that plays shows a frame of its timeline; and the first, when it begins.
LEMMA ShownOnTheLine ==
  ASSUME NEW l \in [LoopIds -> Loops], CountOf(l) # 0, NEW s \in Steps \union {0},
         NEW where, NEW b \in Nat, NEW t \in Nat
  PROVE  /\ \E i \in 1..CountOf(l) : ShownFor(l, s, TRUE, where, b, t) = LineOf(l)[i]
         /\ t <= b => ShownFor(l, s, TRUE, where, b, t) = LineOf(l)[1]
<1> DEFINE n == CountOf(l)
<1>1. n \in Nat \ {0} /\ LineOf(l) # << >> /\ Len(LineOf(l)) = n
  BY LineRises DEF CountOf
<1>2. StepOf(s) \in Nat \ {0}
  BY StepsAreSome
<1> DEFINE period == StepOf(s) * (n - 1) + Whole(LastHold, StepOf(s))
           elapsed == (IF t > b THEN t - b ELSE 0) % period
           i == elapsed \div StepOf(s) + 1
<1>3. period \in Nat \ {0}
  <2> HIDE DEF n
  <2> QED
    BY <1>1, <1>2, PeriodIsWhole
<1>4. ShownFor(l, s, TRUE, where, b, t)
        = IF b = 0 THEN LineOf(l)[1] ELSE LineOf(l)[IF i < n THEN i ELSE n]
  BY <1>1 DEF ShownFor
<1> HIDE DEF n, period
<1>5. elapsed \in Nat /\ (t <= b => elapsed = 0)
  <2>1. PICK x \in Nat : x = IF t > b THEN t - b ELSE 0
    OBVIOUS
  <2>2. x % period \in Nat /\ (x = 0 => x % period = 0)
    BY <1>3, DivMod
  <2> QED
    BY <2>1, <2>2
<1> HIDE DEF elapsed
<1>6. i \in Nat \ {0} /\ (t <= b => i = 1)
  <2>1. elapsed \div StepOf(s) \in Nat
    <3>1. PICK x \in Int, d \in Nat \ {0} : x = elapsed /\ d = StepOf(s) /\ x >= 0
      BY <1>2, <1>5
    <3>2. x \div d \in Int /\ x \div d >= 0
      BY <3>1, DivMod
    <3> QED
      BY <3>1, <3>2
  <2>2. elapsed = 0 => elapsed \div StepOf(s) = 0
    BY <1>2
  <2> QED
    BY <1>5, <2>1, <2>2
<1> HIDE DEF i
<1>7. (IF i < n THEN i ELSE n) \in 1..n /\ (t <= b => (IF i < n THEN i ELSE n) = 1)
  BY <1>1, <1>6
<1>8. 1 \in 1..n
  BY <1>1
<1> QED
  BY <1>4, <1>7, <1>8 DEF n
-----------------------------------------------------------------------------
(* What kind of thing each of them is.                                     *)

LoopsTyped == loops \in [LoopIds -> Loops] /\ step \in Steps \union {0}

TimesTyped ==
  /\ from \in Nat /\ given \in Nat /\ animation \in Nat /\ clock \in Nat \ {0}
  /\ start \in Nat /\ last \in Nat /\ half \in Nat

PlayTyped == LoopsTyped /\ TimesTyped

LEMMA TypedInit == Init => PlayTyped
  BY DEF Init, PlayTyped, LoopsTyped, TimesTyped

LEMMA GivesTyped ==
  ASSUME TimesTyped, NEW t \in Nat, Give(t)
  PROVE  from' \in Nat /\ given' = t
  BY DEF Give, TimesTyped

LEMMA AlignsTyped ==
  ASSUME PlayTyped, NEW b \in Nat, NEW t \in Nat, Aligns(b, t)
  PROVE  start' \in Nat /\ last' \in Nat /\ half' \in Nat
<1>1. BlinkHalfOf(StepOf(step)) \in Nat
  BY StepsAreSome, WholeCovers, PlaybackAssumption
     DEF PlayTyped, LoopsTyped, PlaybackAssumption, BlinkHalfOf
<1>2. half' \in Nat
  BY <1>1 DEF Aligns, PlayTyped, TimesTyped
<1>3. start' \in Nat
  BY DEF Aligns, PlayTyped, TimesTyped
<1>4. last' \in Nat
  BY DEF Aligns, PlayTyped, TimesTyped
<1> QED
  BY <1>2, <1>3, <1>4

LEMMA AnimationTyped == ASSUME TimesTyped PROVE Animation \in Nat
  BY DEF TimesTyped, Animation

LEMMA TypedNext == PlayTyped /\ [Next]_vars => PlayTyped'
<1> SUFFICES ASSUME PlayTyped, [Next]_vars PROVE PlayTyped'
  OBVIOUS
<1>1. ASSUME UNCHANGED <<given, animation, clock, motionVars>>, from' \in {from, given}, LoopsTyped'
      PROVE  PlayTyped'
  BY <1>1 DEF PlayTyped, TimesTyped, motionVars
<1>2. ASSUME UNCHANGED <<loops, step>> PROVE LoopsTyped'
  BY <1>2 DEF PlayTyped, LoopsTyped
<1>3. CASE Render
  <2>1. PICK t \in Nat : t = Animation
    BY AnimationTyped DEF PlayTyped
  <2>2. from' \in Nat /\ given' \in Nat
    BY <1>3, <2>1, GivesTyped DEF Render, PlayTyped
  <2>3. PICK b \in Nat : b = from'
    BY <2>2
  <2>4. Aligns(b, t)
    BY <1>3, <2>1, <2>3 DEF Render
  <2>5. start' \in Nat /\ last' \in Nat /\ half' \in Nat
    BY <2>4, AlignsTyped
  <2> QED
    BY <1>2, <1>3, <2>2, <2>5 DEF Render, clockVars, PlayTyped, TimesTyped
<1>4. CASE Listener
  <2>1. ASSUME Control, UNCHANGED <<loops, step, given>>, from' \in {from, given} PROVE PlayTyped'
    BY <1>1, <1>2, <2>1 DEF Control, Input, clockVars
  <2> QED
    BY <1>4, <2>1 DEF Listener, Play, Stop, Reset, StepBy
<1>5. CASE Settings
  <2>1. ASSUME NEW p \in {"off", "on"}, SetPlayback(p) PROVE PlayTyped'
    BY <1>1, <1>2, <2>1 DEF SetPlayback, Control, Input, clockVars
  <2>2. ASSUME NEW s \in Steps \union {0}, SetPlaybackStep(s) PROVE PlayTyped'
    <3>1. LoopsTyped'
      BY <2>2 DEF SetPlaybackStep, PlayTyped, LoopsTyped
    <3> QED
      BY <1>1, <2>2, <3>1 DEF SetPlaybackStep, Input, clockVars
  <2>3. ASSUME NEW on \in BOOLEAN, ReduceMotion(on) PROVE PlayTyped'
    <3>1. UNCHANGED <<loops, step, from, given, animation, clock, start, last, half>>
      BY <2>3 DEF ReduceMotion, Input, clockVars
    <3> QED
      BY <3>1 DEF PlayTyped, LoopsTyped, TimesTyped
  <2>4. ASSUME NEW m \in Moments, ShowMoment(m) PROVE PlayTyped'
    BY <1>1, <1>2, <2>4 DEF ShowMoment, Input, clockVars, playVars
  <2>5. ASSUME NEW id \in LoopIds, NEW loop \in Loops, SetLoop(id, loop) PROVE PlayTyped'
    <3>1. LoopsTyped'
      BY <2>5 DEF SetLoop, PlayTyped, LoopsTyped
    <3> QED
      BY <1>1, <2>5, <3>1 DEF SetLoop, Control, Input, clockVars
  <2> QED
    BY <1>5, <2>1, <2>2, <2>3, <2>4, <2>5 DEF Settings
<1>6. CASE Clock
  <2>1. ASSUME NEW t \in Times, Animate(t) PROVE PlayTyped'
    <3>1. t \in Nat
      BY PlaybackAssumption DEF PlaybackAssumption
    <3>2. from' \in Nat /\ given' \in Nat
      BY <2>1, <3>1, GivesTyped DEF Animate, PlayTyped
    <3> QED
      BY <1>2, <2>1, <3>1, <3>2 DEF Animate, Input, motionVars, PlayTyped, TimesTyped
  <2>2. CASE Tick
    BY <2>2 DEF Tick, playVars, motionVars, clockVars, PlayTyped, LoopsTyped, TimesTyped
  <2>3. CASE FollowClock
    BY <2>3, <1>1, <1>2 DEF FollowClock, Input, playVars
  <2> QED
    BY <1>6, <2>1, <2>2, <2>3 DEF Clock
<1>7. CASE UNCHANGED vars
  BY <1>7, <1>1, <1>2 DEF vars, playVars, clockVars
<1> QED
  BY <1>3, <1>4, <1>5, <1>6, <1>7 DEF Next

-----------------------------------------------------------------------------
(* Moves of the loop, told apart.                                          *)

\* A map given the time it was last given shows what it showed.
LEMMA GivenAgain ==
  ASSUME PlayTyped, NEW STATE t, t \in Nat, Give(t), given' = given,
         UNCHANGED <<loops, setting, reduce, step, playing, at>>
  PROVE  Shown' = Shown
<1>1. t = given /\ from' = IF playing /\ from = 0 THEN given ELSE from
  BY DEF Give
<1>2. Plays' = Plays
  BY DEF Plays
<1>3. CASE from' = from
  BY <1>2, <1>3, ShownStays
<1>4. CASE from' # from
  <2>1. playing /\ from = 0 /\ from' = given
    BY <1>1, <1>4
  <2>2. /\ Shown = ShownFor(loops, step, playing /\ Plays, at, 0, given)
        /\ Shown' = ShownFor(loops, step, playing /\ Plays, at, given, given)
    BY <1>2, <2>1, ShownIsOfState, ShownIsOfStateNext
  <2>3. CASE ~Plays
    BY <2>2, <2>3 DEF ShownFor
  <2>4. CASE CountOf(loops) = 0
    BY <2>2, <2>4, LineRises DEF ShownFor, PlayTyped, LoopsTyped
  <2>5. CASE Plays /\ CountOf(loops) # 0
    <3>1. /\ loops \in [LoopIds -> Loops] /\ step \in Steps \union {0} /\ given \in Nat
          /\ LineOf(loops) # << >>
      BY <2>5, LineRises DEF PlayTyped, LoopsTyped, TimesTyped
    <3>2. given <= given
      BY <3>1
    <3>3. ShownFor(loops, step, TRUE, at, given, given) = LineOf(loops)[1]
      BY <2>5, <3>1, <3>2, ShownOnTheLine
    <3>4. ShownFor(loops, step, TRUE, at, 0, given) = LineOf(loops)[1]
      BY <3>1 DEF ShownFor
    <3>5. (playing /\ Plays) = TRUE
      BY <2>1, <2>5
    <3> QED
      BY <2>2, <3>3, <3>4, <3>5
  <2> QED
    BY <2>3, <2>4, <2>5
<1> QED
  BY <1>3, <1>4

\* A call that Changed does not tell of moves nothing a redraw would show.
LEMMA UntoldIsUnmoved ==
  ASSUME PlayTyped, CountsTyped, [Next]_vars, given' = given, clock' = clock, changed' = changed
  PROVE  Shown' = Shown /\ moment' = moment
<1>1. ASSUME UNCHANGED <<loops, playVars, moment>> PROVE Shown' = Shown /\ moment' = moment
  <2>1. Plays' = Plays
    BY <1>1 DEF Plays, playVars
  <2> QED
    BY <1>1, <2>1, ShownStays DEF playVars
<1>2. CASE Render
  <2>1. /\ Give(Animation) /\ Animation \in Nat /\ moment' = moment
        /\ UNCHANGED <<loops, setting, reduce, step, playing, at>>
    BY <1>2, AnimationTyped DEF Render, PlayTyped
  <2> QED
    BY <2>1, GivenAgain
<1>3. CASE Listener
  BY <1>3 DEF Listener, Play, Stop, Reset, StepBy, Control, CountsTyped
<1>4. CASE Settings
  BY <1>4 DEF Settings, SetPlayback, SetPlaybackStep, ReduceMotion, ShowMoment, SetLoop, Control,
              CountsTyped
<1>5. CASE Clock
  <2>1. ASSUME NEW t \in Times, Animate(t) PROVE Shown' = Shown /\ moment' = moment
    <3>1. /\ Give(t) /\ t \in Nat /\ moment' = moment
          /\ UNCHANGED <<loops, setting, reduce, step, playing, at>>
      BY <2>1, PlaybackAssumption DEF Animate, PlaybackAssumption
    <3> QED
      BY <3>1, GivenAgain
  <2>2. ~Tick
    BY DEF Tick, PlayTyped, TimesTyped
  <2>3. CASE FollowClock
    BY <2>3, <1>1 DEF FollowClock
  <2> QED
    BY <1>5, <2>1, <2>2, <2>3 DEF Clock
<1>6. CASE UNCHANGED vars
  BY <1>6, <1>1 DEF vars
<1> QED
  BY <1>2, <1>3, <1>4, <1>5, <1>6 DEF Next

\* A loop held still on a frame shows that frame.
LEMMA HeldOnItsFrame ==
  ASSUME PlayTyped, MovesOnlyIfAllowed, playing, HoldStill, at' # 0,
         UNCHANGED <<loops, step>>
  PROVE  Shown' = Shown
<1>1. at' = Shown /\ ~playing'
  BY DEF HoldStill
<1>2. /\ loops \in [LoopIds -> Loops] /\ step \in Steps \union {0}
      /\ from \in Nat /\ given \in Nat
  BY DEF PlayTyped, LoopsTyped, TimesTyped
<1>3. Shown = ShownFor(loops, step, TRUE, at, from, given)
  <2>1. (playing /\ Plays) = TRUE
    BY DEF MovesOnlyIfAllowed, Plays
  <2> QED
    BY <2>1, ShownIsOfState
<1>4. Shown' = ShownFor(loops, step, FALSE, Shown, from', given')
  <2>1. (playing' /\ Plays') = FALSE
    BY <1>1
  <2> QED
    BY <1>1, <2>1, ShownIsOfStateNext
<1>5. CountOf(loops) # 0 /\ LineOf(loops) # << >>
  BY <1>1, <1>2, <1>3, LineRises DEF ShownFor
<1>6. PICK i \in 1..CountOf(loops) : Shown = LineOf(loops)[i]
  BY <1>2, <1>3, <1>5, ShownOnTheLine, ZenonT(40)
<1>7. IndexOf(LineOf(loops), Shown) = i
  BY <1>2, <1>6, IndexIsThere
<1> QED
  BY <1>1, <1>4, <1>5, <1>6, <1>7 DEF ShownFor

LEMMA HeldWhereItIs ==
  ASSUME PlayTyped, MovesOnlyIfAllowed, [Next]_vars, playing, ~playing', at' # 0,
         setting' # setting \/ reduce' # reduce
  PROVE  Shown' = Shown
<1>1. CASE Settings
  <2>1. ASSUME NEW p \in {"off", "on"}, SetPlayback(p) PROVE Shown' = Shown
    <3>1. HoldStill /\ UNCHANGED <<loops, step>>
      BY <2>1 DEF SetPlayback
    <3> QED
      BY <3>1, HeldOnItsFrame
  <2>2. ASSUME NEW on \in BOOLEAN, ReduceMotion(on) PROVE Shown' = Shown
    <3>1. HoldStill /\ UNCHANGED <<loops, step>>
      BY <2>2 DEF ReduceMotion
    <3> QED
      BY <3>1, HeldOnItsFrame
  <2> QED
    BY <1>1, <2>1, <2>2 DEF Settings, SetPlaybackStep, ShowMoment, SetLoop, playVars
<1>2. CASE ~Settings
  <2>1. UNCHANGED <<setting, reduce>>
    BY <1>2 DEF Next, vars, Render, Listener, Play, Stop, Reset, StepBy, Clock, Tick, FollowClock,
                Animate, playVars
  <2> QED
    BY <2>1
<1> QED
  BY <1>1, <1>2

LEMMA PlayTypedAlways == Spec => []PlayTyped
  BY TypedInit, TypedNext, PTL DEF Spec

\* A move of the loop is told apart from the host's: counted when it moves by
\* itself, told by Changed when a call moves it, and none when a setting holds it.
THEOREM MovesAreToldApart == Spec => MovesAreTold
<1>1. PlayTyped /\ TickInv /\ [Next]_vars =>
        [given' = given /\ clock' = clock => (Drawn' # Drawn => changed' # changed)]_vars
  <2> SUFFICES ASSUME PlayTyped, TickInv, [Next]_vars, given' = given, clock' = clock, changed' = changed
               PROVE  Drawn' = Drawn
    OBVIOUS
  <2>1. Shown' = Shown /\ moment' = moment
    BY UntoldIsUnmoved DEF TickInv
  <2> QED
    BY <2>1 DEF Drawn, Hidden, MomentOf
<1>2. PlayTyped /\ TickInv /\ [Next]_vars =>
        [playing /\ ~playing' /\ at' # 0 /\ (setting' # setting \/ reduce' # reduce) => Shown' = Shown]_vars
  BY HeldWhereItIs DEF TickInv
<1> QED
  BY <1>1, <1>2, TickInit, TickNext, PlayTypedAlways, TicksAreAdvances, PTL
     DEF Spec, MovesAreTold, ChangedTellsOfMoves, HoldsWhereItIs
-----------------------------------------------------------------------------
(* The stamp on the picture.                                               *)

LEMMA FrameTimes ==
  ASSUME NEW S, IsFiniteSet(S), \A f \in S : f.valid \in Nat \ {0}
  PROVE  /\ IsFiniteSet({f.valid : f \in S}) /\ {f.valid : f \in S} \subseteq Nat \ {0}
         /\ IsFiniteSet(Observed(S)) /\ Observed(S) \subseteq {f.valid : f \in S}
         /\ IsFiniteSet(Pictured(S)) /\ Pictured(S) \subseteq {f.valid : f \in S}
<1>1. IsFiniteSet({f.valid : f \in S})
  BY ValidsAreFinite
<1>2. {f.valid : f \in S} \subseteq Nat \ {0}
  OBVIOUS
<1>3. Observed(S) \subseteq {f.valid : f \in S} /\ Pictured(S) \subseteq {f.valid : f \in S}
  BY DEF Observed, Pictured
<1> QED
  BY <1>1, <1>2, <1>3, FS_Subset

LEMMA ShownOfATime ==
  ASSUME NEW S, IsFiniteSet(S), \A f \in S : f.valid \in Nat \ {0}
  PROVE  ShownOf(S) \in Nat /\ (ShownOf(S) # 0 => ShownOf(S) \in {f.valid : f \in S})
<1> DEFINE T == {f.valid : f \in S}
<1>1. /\ T \subseteq Nat
      /\ IsFiniteSet(Observed(S)) /\ Observed(S) \subseteq T
      /\ IsFiniteSet(Pictured(S)) /\ Pictured(S) \subseteq T
  BY FrameTimes
<1> HIDE DEF T
<1>2. \A R \in {Observed(S), Pictured(S)} : Latest(R) \in Nat /\ (Latest(R) # 0 => Latest(R) \in T)
  <2> SUFFICES ASSUME NEW R, IsFiniteSet(R), R \subseteq T
               PROVE  Latest(R) \in Nat /\ (Latest(R) # 0 => Latest(R) \in T)
    BY <1>1
  <2>1. R \subseteq Nat
    BY <1>1
  <2>2. Latest(R) \in Nat /\ (R # {} => Latest(R) \in R)
    BY <2>1, SomeLatest
  <2>3. R = {} => Latest(R) = 0
    BY DEF Latest
  <2> QED
    BY <2>2, <2>3
<1> QED
  BY <1>2 DEF ShownOf, T

\* The moment a loop that is not playing rests at is one of its own.
LEMMA RightNowIsATime ==
  ASSUME NEW l \in [LoopIds -> Loops]
  PROVE  RightNowOf(l) \in Nat /\ (RightNowOf(l) # 0 => RightNowOf(l) \in TimesOf(l))
<1> DEFINE frames == UNION {l[id] : id \in LoopIds}
           newest == {ShownOf(l[id]) : id \in LoopIds}
<1>1. \A id \in LoopIds : IsFiniteSet(l[id]) /\ \A f \in l[id] : f.valid \in Nat \ {0}
  BY PlaybackAssumption DEF PlaybackAssumption
<1>2. IsFiniteSet(TimesOf(l)) /\ TimesOf(l) \subseteq Nat
  BY TimesAreTimes
<1>3. Observed(frames) \subseteq TimesOf(l)
  BY DEF Observed, TimesOf
<1>4. Observed(frames) # {} => Latest(Observed(frames)) \in Observed(frames)
  <2>1. IsFiniteSet(Observed(frames)) /\ Observed(frames) \subseteq Nat
    BY <1>2, <1>3, FS_Subset
  <2> QED
    BY <2>1, SomeLatest
<1>5. IsFiniteSet(newest)
  <2> DEFINE g == [id \in LoopIds |-> ShownOf(l[id])]
  <2>1. g \in Surjection(LoopIds, newest)
    BY DEF Surjection
  <2> QED
    BY <2>1, FS_Surjection, PlaybackAssumption DEF PlaybackAssumption
<1>6. \A v \in newest : v \in Nat /\ (v # 0 => v \in TimesOf(l))
  <2> SUFFICES ASSUME NEW id \in LoopIds
               PROVE  ShownOf(l[id]) \in Nat /\ (ShownOf(l[id]) # 0 => ShownOf(l[id]) \in TimesOf(l))
    OBVIOUS
  <2>1. ShownOf(l[id]) \in Nat /\ (ShownOf(l[id]) # 0 => ShownOf(l[id]) \in {f.valid : f \in l[id]})
    BY <1>1, ShownOfATime
  <2>2. {f.valid : f \in l[id]} \subseteq TimesOf(l)
    BY DEF TimesOf
  <2> QED
    BY <2>1, <2>2
<1> HIDE DEF newest
<1>7. newest \subseteq Nat
  BY <1>6
<1>8. Latest(newest) \in Nat /\ (Latest(newest) # 0 => Latest(newest) \in TimesOf(l))
  <2>1. Latest(newest) \in Nat /\ (newest # {} => Latest(newest) \in newest)
    BY <1>5, <1>7, SomeLatest
  <2>2. newest = {} => Latest(newest) = 0
    BY DEF Latest
  <2> QED
    BY <2>1, <2>2, <1>6
<1>9. RightNowOf(l) = IF Observed(frames) # {} THEN Latest(Observed(frames)) ELSE Latest(newest)
  BY DEF RightNowOf, newest
<1> HIDE DEF frames
<1> QED
  BY <1>2, <1>3, <1>4, <1>8, <1>9

\* The moment shown, when there is one, is a frame's.
LEMMA ShownIsATime ==
  ASSUME PlayTyped, Count # 0
  PROVE  Shown \in Nat /\ (Shown # 0 => Shown \in TimesOf(loops))
<1>1. /\ loops \in [LoopIds -> Loops] /\ step \in Steps \union {0}
      /\ from \in Nat /\ given \in Nat /\ CountOf(loops) # 0
  BY TimelineIsOfLoops DEF PlayTyped, LoopsTyped, TimesTyped, Count, CountOf
<1>2. /\ \A i \in 1..CountOf(loops) : LineOf(loops)[i] \in TimesOf(loops)
      /\ TimesOf(loops) \subseteq Nat
  BY <1>1, LineRises, TimesAreTimes
<1>3. LineOf(loops) # << >>
  BY <1>1, LineRises
<1>4. CASE playing /\ Plays
  <2>1. Shown = ShownFor(loops, step, TRUE, at, from, given)
    <3>1. (playing /\ Plays) = TRUE
      BY <1>4
    <3> QED
      BY <3>1, ShownIsOfState
  <2>2. PICK i \in 1..CountOf(loops) : ShownFor(loops, step, TRUE, at, from, given) = LineOf(loops)[i]
    BY <1>1, ShownOnTheLine, ZenonT(40)
  <2> QED
    BY <1>2, <2>1, <2>2
<1>5. CASE ~(playing /\ Plays)
  <2>1. Shown = ShownFor(loops, step, FALSE, at, from, given)
    <3>1. (playing /\ Plays) = FALSE
      BY <1>5
    <3> QED
      BY <3>1, ShownIsOfState
  <2>2. Shown = IF at = 0 THEN RightNowOf(loops) ELSE LineOf(loops)[IndexOf(LineOf(loops), at)]
    BY <1>3, <2>1 DEF ShownFor
  <2>3. IndexOf(LineOf(loops), at) \in 1..CountOf(loops)
    BY <1>1, IndexIsOnIt
  <2> QED
    BY <1>1, <1>2, <2>2, <2>3, RightNowIsATime
<1> QED
  BY <1>4, <1>5

\* A loop with a picture to hold says nothing later than the moment, and the
\* moment itself when it is one of the loop's own.
LEMMA LabelIsNoLater ==
  ASSUME NEW S, IsFiniteSet(S), \A f \in S : f.valid \in Nat \ {0},
         NEW t \in Nat, NEW v \in Pictured(S), v <= t,
         NEW id, Frames(id) = S
  PROVE  /\ FrameShownAt(id, t) \in Nat /\ FrameShownAt(id, t) <= t
         /\ LabelOf(id, t) \in Nat /\ LabelOf(id, t) <= t
         /\ t \in {f.valid : f \in S} => LabelOf(id, t) = t
<1> DEFINE T     == {f.valid : f \in S}
           early == {u \in Pictured(S) : u <= t}
           label == {f.valid : f \in {g \in S : g.valid <= t}}
<1>1. /\ IsFiniteSet(T) /\ T \subseteq Nat \ {0} /\ Pictured(S) \subseteq T /\ IsFiniteSet(Pictured(S))
  BY FrameTimes
<1>2. t # 0 /\ v \in early
  BY <1>1
<1>3. FrameShownAt(id, t) = Max(early)
  BY <1>2 DEF FrameShownAt
<1>4. LabelOf(id, t) = IF label # {} THEN Max(label \union {Max(early)}) ELSE Max(early)
  BY <1>2, <1>3 DEF LabelOf
<1>5. label \subseteq T /\ \A u \in label : u <= t
  OBVIOUS
<1>6. t \in T => t \in label
  OBVIOUS
<1>7. v \in T => v \in label
  OBVIOUS
<1>8. early \subseteq Nat /\ IsFiniteSet(early) /\ \A u \in early : u <= t
  BY <1>1, FS_Subset
<1> HIDE DEF T, early, label
<1>9. Max(early) \in early
  BY <1>2, <1>8, SomeMax
<1>10. PICK m \in early : m = Max(early)
  BY <1>9
<1>11. m \in Nat /\ m <= t
  BY <1>8
<1> DEFINE U == label \union {m}
<1>12. U \subseteq Nat /\ IsFiniteSet(U) /\ U # {} /\ \A u \in U : u <= t
  <2>1. IsFiniteSet(label) /\ label \subseteq Nat
    BY <1>1, <1>5, FS_Subset
  <2> QED
    BY <2>1, <1>5, <1>11, FS_AddElement
<1>13. t \in T => t \in U
  BY <1>6
<1>14. label # {}
  BY <1>1, <1>7
<1>15. LabelOf(id, t) = Max(U)
  BY <1>4, <1>10, <1>14
<1> HIDE DEF U
<1>16. Max(U) \in U /\ \A u \in U : u <= Max(U)
  BY <1>12, SomeMax
<1>17. PICK n \in U : n = Max(U)
  BY <1>16
<1>18. n \in Nat /\ n <= t /\ (t \in T => t <= n)
  BY <1>12, <1>13, <1>16, <1>17
<1>19. t \in T => n = t
  BY <1>18
<1> QED
  BY <1>3, <1>10, <1>11, <1>15, <1>17, <1>18, <1>19 DEF T

LEMMA StampIsTrue == PlayTyped => StampNamesTheMoment
<1> SUFFICES ASSUME PlayTyped, Count # 0,
                    \A id \in LoopIds : loops[id] # {} => \E v \in Pictured(loops[id]) : v <= Shown
             PROVE  /\ LabelAt(Shown) = Shown
                    /\ \A id \in LoopIds : FrameShownAt(id, Shown) <= LabelAt(Shown)
  BY DEF StampNamesTheMoment
<1>1. loops \in [LoopIds -> Loops] /\ CountOf(loops) # 0
  BY TimelineIsOfLoops DEF PlayTyped, LoopsTyped, Count, CountOf
<1>2. \A id \in LoopIds : IsFiniteSet(loops[id]) /\ \A f \in loops[id] : f.valid \in Nat \ {0}
  BY <1>1, PlaybackAssumption DEF PlaybackAssumption
<1>3. PICK x \in Nat : x = Shown
  BY ShownIsATime
<1>4. TimesOf(loops) # {}
  BY <1>1, LineRises
<1>5. x # 0
  <2>1. PICK id \in LoopIds : loops[id] # {}
    BY <1>4 DEF TimesOf
  <2>2. PICK v \in Pictured(loops[id]) : v <= x
    BY <2>1, <1>3
  <2>3. v \in Nat \ {0}
    BY <1>2, FrameTimes
  <2> QED
    BY <2>2, <2>3
<1>6. PICK own \in LoopIds : x \in {f.valid : f \in loops[own]}
  <2>1. x \in TimesOf(loops)
    BY <1>3, <1>5, ShownIsATime
  <2> QED
    BY <2>1 DEF TimesOf
<1>7. \A id \in LoopIds : /\ FrameShownAt(id, x) \in Nat /\ FrameShownAt(id, x) <= x
                          /\ LabelOf(id, x) \in Nat /\ LabelOf(id, x) <= x
  <2> SUFFICES ASSUME NEW id \in LoopIds
               PROVE  /\ FrameShownAt(id, x) \in Nat /\ FrameShownAt(id, x) <= x
                      /\ LabelOf(id, x) \in Nat /\ LabelOf(id, x) <= x
    OBVIOUS
  <2>1. CASE loops[id] = {}
    <3>1. Pictured(Frames(id)) = {} /\ {f.valid : f \in {g \in Frames(id) : g.valid <= x}} = {}
      BY <2>1 DEF Pictured, Frames
    <3>2. ShownOf(Frames(id)) = 0
      BY <2>1, <3>1 DEF ShownOf, Observed, Frames, Latest
    <3>3. FrameShownAt(id, x) = 0
      BY <3>1, <3>2 DEF FrameShownAt
    <3>4. LabelOf(id, x) = 0
      BY <3>1, <3>3 DEF LabelOf
    <3> QED
      BY <3>3, <3>4
  <2>2. CASE loops[id] # {}
    <3>1. PICK v \in Pictured(loops[id]) : v <= x
      BY <1>3, <2>2
    <3>2. IsFiniteSet(loops[id]) /\ (\A f \in loops[id] : f.valid \in Nat \ {0}) /\ Frames(id) = loops[id]
      BY <1>2 DEF Frames
    <3> QED
      BY <3>1, <3>2, LabelIsNoLater
  <2> QED
    BY <2>1, <2>2
<1>8. LabelOf(own, x) = x
  <2>1. PICK v \in Pictured(loops[own]) : v <= x
    BY <1>3, <1>6
  <2>2. IsFiniteSet(loops[own]) /\ (\A f \in loops[own] : f.valid \in Nat \ {0}) /\ Frames(own) = loops[own]
    BY <1>2 DEF Frames
  <2> QED
    BY <1>6, <2>1, <2>2, LabelIsNoLater
<1> DEFINE labels == {LabelOf(id, x) : id \in LoopIds}
<1>9. IsFiniteSet(labels)
  <2> DEFINE g == [id \in LoopIds |-> LabelOf(id, x)]
  <2>1. g \in Surjection(LoopIds, labels)
    BY DEF Surjection
  <2> QED
    BY <2>1, FS_Surjection, PlaybackAssumption DEF PlaybackAssumption
<1>10. x \in labels /\ \A v \in labels : v \in Nat /\ v <= x
  BY <1>7, <1>8
<1>11. LabelAt(x) = Latest(labels)
  BY DEF LabelAt
<1> HIDE DEF labels
<1>12. PICK m \in labels : m = Latest(labels) /\ \A v \in labels : v <= m
  <2>1. labels \subseteq Nat /\ labels # {}
    BY <1>10
  <2> QED
    BY <1>9, <2>1, SomeLatest
<1>13. m \in Nat /\ m <= x /\ x <= m
  BY <1>10, <1>12
<1>14. LabelAt(x) = x
  BY <1>11, <1>12, <1>13
<1> QED
  BY <1>3, <1>7, <1>14
-----------------------------------------------------------------------------
(* The blink, and what is seen of it.                                      *)

\* A blink is never faster than its own half period, is on the grid of a loop
\* that plays once the loop is aligned, and a frame drawn since the host's last
\* call has aligned it.
BlinkInv ==
  /\ half = 0 \/ half >= BlinkHalf
  /\ going => start <= last
  /\ playing /\ aligned => from # 0 /\ going /\ start = from /\ half = BlinkHalfOf(StepOf(step))
  /\ current => (Grid(from) => aligned)
  /\ current /\ ~driven => given = clock

\* A frame whose instant is new drew the markers by the blink at that instant,
\* or before the blink begins, where they are drawn.
LitInv ==
  current /\ ~driven /\ anew =>
    IF reduce THEN lit
    ELSE /\ going
         /\ \/ lit /\ clock <= start /\ start = last
            \/ last = clock /\ start <= clock /\ (lit <=> Lit(start, HalfPeriod, clock))

LEMMA BlinkInit == Init => BlinkInv /\ LitInv
  BY DEF Init, BlinkInv, LitInv

\* A call that is not a Render leaves the blink alone, or the loop still or unaligned.
LEMMA BlinkKept ==
  ASSUME BlinkInv, ~current', UNCHANGED <<start, last, half>>, going' => going,
         ~playing' \/ ~aligned' \/ UNCHANGED <<playing, aligned, from, going, step>>
  PROVE  BlinkInv' /\ LitInv'
<1>1. (half = 0 \/ half >= BlinkHalf)' /\ (going => start <= last)'
  BY DEF BlinkInv
<1>2. CASE ~playing' \/ ~aligned'
  BY <1>1, <1>2 DEF BlinkInv, LitInv
<1>3. CASE UNCHANGED <<playing, aligned, from, going, step>>
  BY <1>1, <1>3 DEF BlinkInv, LitInv
<1> QED
  BY <1>2, <1>3

LEMMA BlinkGiven ==
  ASSUME BlinkInv, NEW t, Give(t), UNCHANGED <<playing, aligned>>
  PROVE  ~playing' \/ ~aligned' \/ from' = from
  BY DEF Give, BlinkInv

LEMMA LitAtItsStart ==
  ASSUME NEW b \in Nat, NEW h \in Nat \ {0}
  PROVE  Lit(b, h, b)
<1>1. (h * 0) \div h = 0
  BY WholesAreWhole
<1>2. (b - b) \div h = 0
  BY <1>1
<1> QED
  BY <1>2 DEF Lit

LEMMA BlinkDrawn ==
  ASSUME PlayTyped, MovesOnlyIfAllowed, CountsTyped, BlinkInv, Render
  PROVE  BlinkInv' /\ LitInv'
<1>1. PICK t \in Nat : t = Animation
  BY AnimationTyped DEF PlayTyped
<1>2. Give(t) /\ Aligns(from', t) /\ given' = t
  BY <1>1 DEF Render, Give
<1>3. PICK b \in Nat : b = from'
  BY <1>2, GivesTyped DEF PlayTyped
<1>4. /\ from' = IF playing /\ from = 0 THEN t ELSE from
      /\ UNCHANGED <<loops, setting, reduce, step, playing, at, driven, clock>> /\ current'
  BY <1>2 DEF Render, Give, clockVars
<1>5. /\ start \in Nat /\ last \in Nat /\ half \in Nat /\ reduce \in BOOLEAN
  BY DEF PlayTyped, TimesTyped, CountsTyped
<1>6. /\ BlinkHalfOf(StepOf(step)) \in Nat \ {0} /\ BlinkHalfOf(StepOf(step)) >= BlinkHalf
  BY StepsAreSome, WholeCovers, PlaybackAssumption
     DEF PlayTyped, LoopsTyped, PlaybackAssumption, BlinkHalfOf
<1>7. Grid(b)' <=> Grid(b)
  BY <1>4 DEF Grid, Plays
<1>8. (aligned' <=> Grid(b)) /\ (Grid(b) => ~reduce /\ playing /\ b # 0)
  BY <1>2, <1>3 DEF Aligns, Grid, Plays
<1> DEFINE puts == Grid(b) /\ ~aligned
           on == going \/ puts
           seenBy == IF puts THEN b ELSE last
<1>9. /\ half' = IF puts THEN BlinkHalfOf(StepOf(step)) ELSE IF ~Grid(b) /\ aligned THEN 0 ELSE half
      /\ going' <=> (going \/ ~reduce)
      /\ start' = IF puts THEN b ELSE IF ~reduce /\ ~on THEN t ELSE start
      /\ last' = IF reduce \/ (on /\ t <= seenBy) THEN seenBy ELSE t
      /\ lit' <=> (reduce \/ (on /\ t <= seenBy) \/ Lit(start', HalfPeriod', t))
      /\ anew' <=> ~(on /\ t <= last)
  BY <1>2, <1>3 DEF Aligns
<1>10. half' = 0 \/ half' >= BlinkHalf
  BY <1>6, <1>9 DEF BlinkInv
<1>11. going' => start' <= last'
  <2>1. CASE puts
    BY <2>1, <1>8, <1>9
  <2>2. CASE ~puts /\ going
    BY <2>2, <1>5, <1>9 DEF BlinkInv
  <2>3. CASE ~puts /\ ~going
    BY <2>3, <1>5, <1>9
  <2> QED
    BY <2>1, <2>2, <2>3
<1>12. aligned' => from' # 0 /\ going' /\ start' = from' /\ half' = BlinkHalfOf(StepOf(step))
  <2> SUFFICES ASSUME aligned' PROVE from' # 0 /\ going' /\ start' = from' /\ half' = BlinkHalfOf(StepOf(step))
    OBVIOUS
  <2>1. Grid(b) /\ playing /\ b # 0 /\ ~reduce
    BY <1>8
  <2>2. CASE ~aligned
    BY <2>1, <2>2, <1>3, <1>9
  <2>3. CASE aligned
    <3>1. from # 0 /\ going /\ start = from /\ half = BlinkHalfOf(StepOf(step))
      BY <2>1, <2>3 DEF BlinkInv
    <3> QED
      BY <2>1, <2>3, <3>1, <1>4, <1>9
  <2> QED
    BY <2>2, <2>3
<1>13. BlinkHalfOf(StepOf(step))' = BlinkHalfOf(StepOf(step))
  BY <1>4 DEF BlinkHalfOf, StepOf, Whole
<1>14. (current /\ ~driven => given = clock)'
  BY <1>1, <1>2, <1>4 DEF Animation
<1>15. BlinkInv'
  <2>1. Grid(from)' <=> Grid(b)
    BY <1>3, <1>4 DEF Grid, Plays
  <2> QED
    BY <1>8, <1>10, <1>11, <1>12, <1>13, <1>14, <2>1 DEF BlinkInv
<1>16. HalfPeriod' \in Nat \ {0}
  <2>1. half' \in Nat
    BY <1>5, <1>6, <1>9
  <2> QED
    BY <2>1, PlaybackAssumption DEF HalfPeriod, PlaybackAssumption
<1>17. LitInv'
  <2> SUFFICES ASSUME ~driven', anew'
               PROVE  IF reduce' THEN lit'
                      ELSE /\ going'
                           /\ \/ lit' /\ clock' <= start' /\ start' = last'
                              \/ last' = clock' /\ start' <= clock' /\ (lit' <=> Lit(start, HalfPeriod, clock)')
    BY DEF LitInv
  <2>1. clock' = t
    BY <1>1, <1>4 DEF Animation
  <2>2. Lit(start, HalfPeriod, clock)' <=> Lit(start', HalfPeriod', t)
    BY <2>1 DEF Lit
  <2>3. CASE reduce
    BY <2>3, <1>4, <1>9
  <2>4. CASE ~reduce /\ ~on
    <3>1. start' = t /\ last' = t /\ (lit' <=> Lit(start', HalfPeriod', t))
      BY <2>4, <1>9
    <3> QED
      BY <2>1, <2>2, <2>4, <3>1, <1>4, <1>9
  <2>5. CASE ~reduce /\ on /\ ~puts
    <3>1. ~(t <= last) /\ start' = start /\ start <= last
      BY <2>5, <1>9 DEF BlinkInv
    <3>2. last' = t /\ (lit' <=> Lit(start', HalfPeriod', t))
      BY <2>5, <3>1, <1>9
    <3>3. start' <= t
      BY <3>1, <1>5
    <3> QED
      BY <2>1, <2>2, <2>5, <3>2, <3>3, <1>4, <1>9
  <2>6. CASE ~reduce /\ puts
    <3>1. start' = b
      BY <2>6, <1>9
    <3>2. CASE t <= b
      BY <2>1, <2>6, <3>1, <3>2, <1>4, <1>9
    <3>3. CASE ~(t <= b)
      <4>1. last' = t /\ (lit' <=> Lit(start', HalfPeriod', t)) /\ b <= t
        BY <2>6, <3>3, <1>9
      <4> QED
        BY <2>1, <2>2, <2>6, <3>1, <4>1, <1>4, <1>9
    <3> QED
      BY <3>2, <3>3
  <2> QED
    BY <2>3, <2>4, <2>5, <2>6
<1> QED
  BY <1>15, <1>17

LEMMA BlinkNext ==
  ASSUME PlayTyped, MovesOnlyIfAllowed, CountsTyped, BlinkInv, LitInv, [Next]_vars
  PROVE  BlinkInv' /\ LitInv'
<1>1. CASE Render
  BY <1>1, BlinkDrawn
<1>2. CASE Listener
  <2>1. ASSUME Control, going' = going => ~playing' \/ ~aligned' \/ UNCHANGED <<playing, aligned, from, going, step>>
        PROVE  BlinkInv' /\ LitInv'
    BY <2>1, BlinkKept DEF Control, Input, motionVars
  <2>2. CASE Play
    <3>1. CASE Plays
      BY <2>1, <2>2, <3>1 DEF Play
    <3>2. CASE ~Plays
      BY <2>1, <2>2, <3>2 DEF Play, Control, motionVars
    <3> QED
      BY <3>1, <3>2
  <2>3. CASE Stop \/ Reset
    BY <2>1, <2>3, HeldIsStill DEF Stop, Reset
  <2>4. ASSUME NEW by \in {-1, 1}, StepBy(by) PROVE BlinkInv' /\ LitInv'
    BY <2>1, <2>4 DEF StepBy
  <2> QED
    BY <1>2, <2>2, <2>3, <2>4 DEF Listener
<1>3. CASE Settings
  <2>1. ASSUME NEW p \in {"off", "on"}, SetPlayback(p) PROVE BlinkInv' /\ LitInv'
    BY <2>1, BlinkKept, HeldIsStill DEF SetPlayback, Control, Input, motionVars
  <2>2. ASSUME NEW s \in Steps \union {0}, SetPlaybackStep(s) PROVE BlinkInv' /\ LitInv'
    BY <2>2, BlinkKept DEF SetPlaybackStep, Input, motionVars
  <2>3. ASSUME NEW on \in BOOLEAN, ReduceMotion(on) PROVE BlinkInv' /\ LitInv'
    <3>1. /\ ~current' /\ UNCHANGED <<start, last, half, aligned, from, step>>
          /\ going' <=> going /\ ~on
      BY <2>3 DEF ReduceMotion, Input
    <3>2. ~playing'
      <4>1. CASE on
        BY <2>3, <4>1, HeldIsStill DEF ReduceMotion
      <4>2. CASE ~on
        BY <2>3, <4>2 DEF ReduceMotion, MovesOnlyIfAllowed, Plays, CountsTyped
      <4> QED
        BY <4>1, <4>2
    <3> QED
      BY <3>1, <3>2, BlinkKept
  <2>4. ASSUME NEW m \in Moments, ShowMoment(m) PROVE BlinkInv' /\ LitInv'
    BY <2>4, BlinkKept DEF ShowMoment, Input, motionVars, playVars
  <2>5. ASSUME NEW id \in LoopIds, NEW loop \in Loops, SetLoop(id, loop) PROVE BlinkInv' /\ LitInv'
    BY <2>5, BlinkKept DEF SetLoop, Control, Input, motionVars
  <2> QED
    BY <1>3, <2>1, <2>2, <2>3, <2>4, <2>5 DEF Settings
<1>4. CASE Clock
  <2>1. ASSUME NEW t \in Times, Animate(t) PROVE BlinkInv' /\ LitInv'
    <3>1. /\ ~current' /\ UNCHANGED <<start, last, half, going, playing, aligned, step>> /\ Give(t)
      BY <2>1 DEF Animate, Input, motionVars
    <3>2. ~playing' \/ ~aligned' \/ from' = from
      BY <3>1, BlinkGiven
    <3> QED
      BY <3>1, <3>2, BlinkKept
  <2>2. CASE Tick \/ FollowClock
    BY <2>2, BlinkKept DEF Tick, FollowClock, Input, playVars, motionVars
  <2> QED
    BY <1>4, <2>1, <2>2 DEF Clock
<1>5. CASE UNCHANGED vars
  BY <1>5 DEF vars, playVars, motionVars, clockVars, frameVars, BlinkInv, LitInv, Grid, Plays,
              HalfPeriod, Lit
<1> QED
  BY <1>1, <1>2, <1>3, <1>4, <1>5 DEF Next
BlinksInv == PlayTyped /\ TickInv /\ BlinkInv /\ LitInv

LEMMA BlinksAlways == Spec => []BlinksInv
<1>1. Init => BlinksInv
  BY TypedInit, TickInit, BlinkInit DEF BlinksInv
<1>2. BlinksInv /\ [Next]_vars => BlinksInv'
  <2> SUFFICES ASSUME BlinksInv, [Next]_vars PROVE BlinksInv'
    OBVIOUS
  <2>1. PlayTyped /\ TickInv /\ BlinkInv /\ LitInv /\ MovesOnlyIfAllowed /\ CountsTyped
    BY DEF BlinksInv, TickInv
  <2>2. BlinkInv' /\ LitInv'
    BY <2>1, BlinkNext
  <2>3. PlayTyped' /\ TickInv'
    BY <2>1, TypedNext, TickNext
  <2> QED
    BY <2>2, <2>3 DEF BlinksInv
<1> QED
  BY <1>1, <1>2, PTL DEF Spec

-----------------------------------------------------------------------------
(* Where the changes of a map that is left alone fall.                     *)

\* A quotient by d of what is left over p, p whole ds, changes only on a whole d.
LEMMA TurnsOnAWhole ==
  ASSUME NEW s \in Nat \ {0}, NEW m \in Nat \ {0}, NEW p \in Nat \ {0}, p = s * m,
         NEW x \in Nat \ {0}, (x % p) \div s # ((x - 1) % p) \div s
  PROVE  \E k \in Int : x = s * k
<1>0. x \in Int
  OBVIOUS
<1>1. PICK q \in Int, r \in 0..p - 1 : q = x \div p /\ r = x % p /\ x = p * q + r
  <2>1. x \div p \in Int /\ x % p \in 0..p - 1 /\ x = p * (x \div p) + (x % p)
    BY <1>0, DivMod
  <2> QED
    BY <2>1
<1>2. p * q = s * (m * q) /\ m * q \in Int /\ p * q \in Int
  OBVIOUS
<1>3. CASE r = 0
  <2>1. x = p * q
    BY <1>1, <1>2, <1>3
  <2> QED
    BY <1>2, <2>1
<1>4. CASE r # 0
  <2>1. (x - 1) % p = r - 1
    <3>1. x % p # 0
      BY <1>1, <1>4
    <3>2. (x - 1) % p = (x % p) - 1
      BY <1>0, <3>1, QuotientTurnsOnTheWhole
    <3> QED
      BY <1>1, <3>2
  <2>2. r \div s # (r - 1) \div s
    BY <1>1, <2>1
  <2>3. r % s = 0
    <3>1. r \in Int
      BY <1>1
    <3> QED
      BY <2>2, <3>1, QuotientTurnsOnTheWhole
  <2>4. PICK j \in Int : r = s * j
    <3>1. r \in Int
      BY <1>1
    <3>2. r \div s \in Int /\ r = s * (r \div s) + (r % s)
      BY <3>1, DivMod
    <3>3. PICK i \in Int : i = r \div s
      BY <3>2
    <3>4. r = s * i
      BY <2>3, <3>1, <3>2, <3>3
    <3> QED
      BY <3>4
  <2>5. x = s * (m * q) + s * j
    BY <1>1, <1>2, <2>4
  <2>6. PICK n \in Int : n = m * q
    BY <1>2
  <2>7. x = s * (n + j) /\ n + j \in Int
    BY <2>5, <2>6
  <2> QED
    BY <2>7
<1> QED
  BY <1>3, <1>4

LEMMA WholesApart ==
  ASSUME NEW d \in Nat \ {0}, NEW b \in Int, NEW t \in Int, NEW u \in Int, t < u,
         NEW k \in Int, t - b = d * k, NEW n \in Int, u - b = d * n
  PROVE  u - t >= d
<1>1. d * (n - k) = u - t
  OBVIOUS
<1>2. n - k >= 1
  <2> SUFFICES ASSUME n - k <= 0 PROVE FALSE
    OBVIOUS
  <2>1. PICK z \in Nat : z = k - n
    OBVIOUS
  <2>2. d * z \in Nat
    BY TimesIsMore
  <2>3. d * z = t - u
    BY <1>1, <2>1
  <2> QED
    BY <2>2, <2>3
<1>3. PICK z \in Nat : z = n - k - 1
  BY <1>2
<1>4. d * z \in Nat /\ u - t = d + d * z
  <2>1. u - t = d * (z + 1)
    BY <1>1, <1>3
  <2> QED
    BY <2>1
<1> QED
  BY <1>4

LEMMA ShownByIsOfState ==
  ASSUME NEW b, NEW t
  PROVE  ShownBy(Timeline, b, t) = ShownFor(loops, step, playing /\ Plays, at, b, t)
<1>1. RightNow = RightNowOf(loops) /\ Count = CountOf(loops)
  BY TimelineIsOfLoops DEF RightNow, RightNowOf, Count, CountOf, AllFrames, Frames
<1> QED
  BY <1>1, TimelineIsOfLoops DEF ShownBy, ShownFor, Hold, Run

\* What a loop left to play shows.
PlayedFor(l, s, b, t) == ShownFor(l, s, TRUE, 0, b, t)

\* It advances on its steps only.
LEMMA AdvancesOnAStep ==
  ASSUME NEW l \in [LoopIds -> Loops], NEW s \in Steps \union {0},
         NEW b \in Nat \ {0}, NEW t \in Nat, NEW u \in Nat, t = u + 1
  PROVE  \/ PlayedFor(l, s, b, t) = PlayedFor(l, s, b, u)
         \/ \E k \in Int : t - b = StepOf(s) * k
<1> SUFFICES ASSUME ShownFor(l, s, TRUE, 0, b, t) # ShownFor(l, s, TRUE, 0, b, u)
             PROVE  \E k \in Int : t - b = StepOf(s) * k
  BY DEF PlayedFor
<1> DEFINE n == CountOf(l)
           d == StepOf(s)
           period == d * (n - 1) + Whole(LastHold, d)
           since(v) == IF v > b THEN v - b ELSE 0
<1>1. LineOf(l) # << >>
  BY DEF ShownFor
<1>2. n \in Nat \ {0} /\ d \in Nat \ {0}
  BY <1>1, LineRises, StepsAreSome
<1>3. PICK m \in Nat \ {0} : period = d * m /\ period \in Nat \ {0}
  <2> HIDE DEF n, d
  <2>1. PICK m \in Nat \ {0} : d * (n - 1) + Whole(LastHold, d) = d * m /\ d * m \in Nat \ {0}
    BY <1>2, PeriodIsWhole
  <2> QED
    BY <2>1
<1>4. \A v \in Nat : ShownFor(l, s, TRUE, 0, b, v)
        = LET i == (since(v) % period) \div d + 1
          IN LineOf(l)[IF i < Len(LineOf(l)) THEN i ELSE Len(LineOf(l))]
  BY <1>1 DEF ShownFor
<1> HIDE DEF n, d, period
<1>6. (since(t) % period) \div d # (since(u) % period) \div d
  <2> HIDE DEF since
  <2> QED
    BY <1>4
<1>7. t > b
  <2> SUFFICES ASSUME t <= b PROVE FALSE
    OBVIOUS
  <2>1. since(t) = since(u)
    OBVIOUS
  <2> QED
    BY <1>6, <2>1
<1>8. PICK x \in Nat \ {0} : x = t - b
  BY <1>7
<1>9. since(t) = x /\ since(u) = x - 1
  BY <1>7, <1>8
<1> HIDE DEF since
<1>10. \E k \in Int : x = d * k
  <2>1. d \in Nat \ {0} /\ period \in Nat \ {0} /\ period = d * m
    BY <1>2, <1>3
  <2>2. (x % period) \div d # ((x - 1) % period) \div d
    BY <1>6, <1>9
  <2> QED
    BY <2>1, <2>2, TurnsOnAWhole
<1> QED
  BY <1>8, <1>10 DEF d

\* A blink changes on its half periods only.
LEMMA BlinksOnAHalf ==
  ASSUME NEW b \in Nat, NEW h \in Nat \ {0}, NEW t \in Nat \ {0}, Lit(b, h, t) # Lit(b, h, t - 1)
  PROVE  \E k \in Int : t - b = h * k
<1>1. PICK x \in Int : x = t - b
  OBVIOUS
<1>2. (t - 1) - b = x - 1
  BY <1>1
<1>3. x \div h # (x - 1) \div h
  <2> SUFFICES ASSUME x \div h = (x - 1) \div h PROVE FALSE
    OBVIOUS
  <2>1. (t - b) \div h = ((t - 1) - b) \div h
    BY <1>1, <1>2
  <2> QED
    BY <2>1 DEF Lit
<1>4. x % h = 0
  BY <1>3, QuotientTurnsOnTheWhole
<1>5. x \div h \in Int /\ x = h * (x \div h) + (x % h)
  BY DivMod
<1>6. PICK q \in Int : q = x \div h
  BY <1>5
<1>7. x = h * q
  BY <1>4, <1>5, <1>6
<1> QED
  BY <1>1, <1>7
LEMMA HalfPeriodIsSome ==
  ASSUME PlayTyped, BlinkInv
  PROVE  HalfPeriod \in Nat \ {0} /\ HalfPeriod >= BlinkHalf
  BY PlaybackAssumption DEF PlayTyped, TimesTyped, BlinkInv, HalfPeriod, PlaybackAssumption

LEMMA HorizonIsSome ==
  ASSUME PlayTyped, BlinkInv
  PROVE  Horizon \in Nat
<1>1. HalfPeriod \in Nat
  BY HalfPeriodIsSome
<1>2. CASE Count = 0
  BY <1>1, <1>2 DEF Horizon
<1>3. CASE Count # 0
  <2>1. StepOf(step) \in Nat \ {0} /\ Count \in Nat \ {0}
    BY <1>3, StepsAreSome, LineRises, TimelineIsOfLoops DEF PlayTyped, LoopsTyped, Count, CountOf
  <2>2. StepOf(step) * (Count - 1) + Whole(LastHold, StepOf(step)) \in Nat \ {0}
    BY <2>1, PeriodIsWhole
  <2> QED
    BY <1>1, <2>2 DEF Horizon, Run, Hold
<1> QED
  BY <1>2, <1>3

\* What changes by itself does so on the steps of a loop that plays, and with
\* none on the half periods of the blink.
LEMMA ChangesOnTheGrid ==
  ASSUME PlayTyped, MovesOnlyIfAllowed, BlinkInv, current,
         NEW shows, NEW t \in Nat \ {0}, Changes(shows, t),
         shows[t] = ShownBy(Timeline, from, t), shows[t - 1] = ShownBy(Timeline, from, t - 1)
  PROVE  IF Grid(from) THEN \E k \in Int : t - from = StepOf(step) * k
                       ELSE \E k \in Int : t - start = HalfPeriod * k
<1>1. /\ loops \in [LoopIds -> Loops] /\ step \in Steps \union {0} /\ from \in Nat /\ start \in Nat
      /\ HalfPeriod \in Nat \ {0} /\ StepOf(step) \in Nat \ {0}
  BY HalfPeriodIsSome, StepsAreSome DEF PlayTyped, LoopsTyped, TimesTyped
<1>2. ASSUME Lit(start, HalfPeriod, t) # Lit(start, HalfPeriod, t - 1)
      PROVE  \E k \in Int : t - start = HalfPeriod * k
  BY <1>1, <1>2, BlinksOnAHalf
<1>3. CASE Grid(from)
  <2>1. start = from /\ half = BlinkHalfOf(StepOf(step)) /\ from # 0 /\ playing /\ Plays
    BY <1>3 DEF BlinkInv, Grid
  <2>2. CASE shows[t] # shows[t - 1]
    <3>1. (playing /\ Plays) = TRUE
      BY <2>1
    <3>2. /\ ShownBy(Timeline, from, t) = ShownFor(loops, step, TRUE, at, from, t)
          /\ ShownBy(Timeline, from, t - 1) = ShownFor(loops, step, TRUE, at, from, t - 1)
      BY <3>1, ShownByIsOfState
    <3>3. from \in Nat \ {0}
      BY <1>1, <2>1
    <3>4. ShownFor(loops, step, TRUE, at, from, t) # ShownFor(loops, step, TRUE, at, from, t - 1)
      BY <2>2, <3>2
    <3>5. \E k \in Int : t - from = StepOf(step) * k
      <4>1. PICK l \in [LoopIds -> Loops], s \in Steps \union {0}, b \in Nat \ {0} :
              l = loops /\ s = step /\ b = from
        BY <1>1, <3>3
      <4>2. ShownFor(l, s, TRUE, at, b, t) # ShownFor(l, s, TRUE, at, b, t - 1)
        BY <3>4, <4>1
      <4>3. PICK u \in Nat : u = t - 1
        OBVIOUS
      <4>4. t = u + 1 /\ t \in Nat
        BY <4>3
      <4>5. PlayedFor(l, s, b, t) # PlayedFor(l, s, b, u)
        BY <4>2, <4>3 DEF PlayedFor, ShownFor
      <4>6. \/ PlayedFor(l, s, b, t) = PlayedFor(l, s, b, u)
            \/ \E k \in Int : t - b = StepOf(s) * k
        BY <4>4, AdvancesOnAStep
      <4>7. \E k \in Int : t - b = StepOf(s) * k
        BY <4>5, <4>6, Zenon
      <4> QED
        BY <4>1, <4>7
    <3> QED
      BY <1>3, <3>5
  <2>3. CASE Lit(start, HalfPeriod, t) # Lit(start, HalfPeriod, t - 1)
    <3>1. PICK k \in Int : t - from = HalfPeriod * k
      BY <1>2, <2>1, <2>3
    <3>2. PICK m \in Nat \ {0} : Whole(BlinkHalf, StepOf(step)) = StepOf(step) * m
      BY <1>1, WholeCovers, PlaybackAssumption DEF PlaybackAssumption
    <3>3. HalfPeriod = StepOf(step) * m
      <4>1. BlinkHalfOf(StepOf(step)) = StepOf(step) * m /\ StepOf(step) * m \in Nat \ {0}
        BY <1>1, <3>2, TimesIsMore DEF BlinkHalfOf
      <4> QED
        BY <2>1, <4>1 DEF HalfPeriod
    <3>4. PICK d \in Nat \ {0} : d = StepOf(step)
      BY <1>1
    <3>5. t - from = d * (m * k) /\ m * k \in Int
      BY <3>1, <3>3, <3>4
    <3>6. \E j \in Int : t - from = StepOf(step) * j
      BY <3>4, <3>5
    <3> QED
      BY <1>3, <3>6
  <2> QED
    BY <2>2, <2>3 DEF Changes
<1>4. CASE ~Grid(from)
  <2>1. shows[t] = shows[t - 1]
    <3>1. CASE ~(playing /\ Plays)
      <4>1. (playing /\ Plays) = FALSE
        BY <3>1
      <4>2. /\ ShownBy(Timeline, from, t) = ShownFor(loops, step, FALSE, at, from, t)
            /\ ShownBy(Timeline, from, t - 1) = ShownFor(loops, step, FALSE, at, from, t - 1)
        BY <4>1, ShownByIsOfState
      <4> QED
        BY <4>2 DEF ShownFor
    <3>2. CASE playing /\ Plays /\ from = 0
      <4>1. (playing /\ Plays) = TRUE
        BY <3>2
      <4>2. /\ ShownBy(Timeline, from, t) = ShownFor(loops, step, TRUE, at, 0, t)
            /\ ShownBy(Timeline, from, t - 1) = ShownFor(loops, step, TRUE, at, 0, t - 1)
        BY <3>2, <4>1, ShownByIsOfState
      <4> QED
        BY <4>2 DEF ShownFor
    <3> QED
      BY <1>4, <3>1, <3>2 DEF Grid
  <2>2. Lit(start, HalfPeriod, t) # Lit(start, HalfPeriod, t - 1)
    BY <2>1 DEF Changes
  <2> QED
    BY <1>2, <1>4, <2>2
<1> QED
  BY <1>3, <1>4

LEMMA CeilingIsKept == BlinksInv => ChangesKeepTheCeiling
<1> DEFINE ahead == clock..clock + Horizon
           shows == [t \in ahead |-> ShownBy(Timeline, from, t)]
           times == {t \in ahead \ {clock} : Changes(shows, t)}
<1> SUFFICES ASSUME BlinksInv, current, ~driven, StepOf(step) >= CeilingStep,
                    NEW t \in times, NEW u \in times, t < u
             PROVE  u - t >= CeilingStep
  BY DEF ChangesKeepTheCeiling
<1>1. PlayTyped /\ MovesOnlyIfAllowed /\ BlinkInv
  BY DEF BlinksInv, TickInv
<1>2. /\ clock \in Nat \ {0} /\ Horizon \in Nat /\ from \in Nat /\ start \in Nat
      /\ CeilingStep \in Nat /\ BlinkHalf \in Nat /\ CeilingStep <= BlinkHalf
      /\ HalfPeriod \in Nat \ {0} /\ HalfPeriod >= BlinkHalf /\ StepOf(step) \in Nat \ {0}
  BY <1>1, HorizonIsSome, HalfPeriodIsSome, StepsAreSome, PlaybackAssumption
     DEF PlayTyped, LoopsTyped, TimesTyped, PlaybackAssumption
<1>3. ASSUME NEW v \in times
      PROVE  /\ v \in Nat \ {0} /\ Changes(shows, v)
             /\ shows[v] = ShownBy(Timeline, from, v) /\ shows[v - 1] = ShownBy(Timeline, from, v - 1)
  <2>1. v \in ahead /\ v # clock /\ Changes(shows, v)
    OBVIOUS
  <2>2. v \in Int /\ clock <= v /\ v <= clock + Horizon
    BY <1>2, <2>1
  <2>3. v - 1 \in ahead /\ v \in Nat \ {0}
    BY <1>2, <2>1, <2>2
  <2> HIDE DEF ahead
  <2> QED
    BY <2>1, <2>3
<1> HIDE DEF ahead, shows, times
<1>4. t \in Nat \ {0} /\ u \in Nat \ {0}
  BY <1>3
<1>5. CASE Grid(from)
  <2>1. PICK k \in Int : t - from = StepOf(step) * k
    BY <1>1, <1>3, <1>5, ChangesOnTheGrid
  <2>2. PICK n \in Int : u - from = StepOf(step) * n
    BY <1>1, <1>3, <1>5, ChangesOnTheGrid
  <2>3. u - t >= StepOf(step)
    <3>1. PICK d \in Nat \ {0}, b \in Int : d = StepOf(step) /\ b = from
      BY <1>2
    <3>2. t - b = d * k /\ u - b = d * n /\ t \in Int /\ u \in Int
      BY <1>4, <2>1, <2>2, <3>1
    <3> QED
      BY <3>1, <3>2, WholesApart
  <2> QED
    BY <1>2, <1>4, <2>3
<1>6. CASE ~Grid(from)
  <2>1. PICK k \in Int : t - start = HalfPeriod * k
    BY <1>1, <1>3, <1>6, ChangesOnTheGrid
  <2>2. PICK n \in Int : u - start = HalfPeriod * n
    BY <1>1, <1>3, <1>6, ChangesOnTheGrid
  <2>3. u - t >= HalfPeriod
    <3>1. PICK h \in Nat \ {0}, b \in Int : h = HalfPeriod /\ b = start
      BY <1>2
    <3>2. t - b = h * k /\ u - b = h * n /\ t \in Int /\ u \in Int
      BY <1>4, <2>1, <2>2, <3>1
    <3> QED
      BY <3>1, <3>2, WholesApart
  <2> QED
    BY <1>2, <1>4, <2>3
<1> QED
  BY <1>5, <1>6

LEMMA GridIsKept == BlinksInv => BlinksOnTheGrid
<1> SUFFICES ASSUME BlinksInv, current, Grid(from)
             PROVE  going /\ start = from /\ HalfPeriod % StepOf(step) = 0
  BY DEF BlinksOnTheGrid
<1>1. going /\ start = from /\ half = BlinkHalfOf(StepOf(step))
  BY DEF BlinksInv, BlinkInv, Grid
<1>2. PICK d \in Nat \ {0} : d = StepOf(step)
  BY StepsAreSome DEF BlinksInv, PlayTyped, LoopsTyped
<1>3. PICK m \in Nat \ {0} : half = d * m
  BY <1>1, <1>2, WholeCovers, PlaybackAssumption DEF PlaybackAssumption, BlinkHalfOf
<1>4. d * m \in Nat \ {0}
  BY TimesIsMore
<1>5. HalfPeriod = d * m
  <2>1. PICK h \in Nat \ {0} : h = d * m
    BY <1>4
  <2>2. half = h /\ h > 0
    BY <1>3, <2>1
  <2> QED
    BY <2>1, <2>2 DEF HalfPeriod
<1>6. (d * m) % d = 0
  BY WholesAreWhole
<1> QED
  BY <1>1, <1>2, <1>5, <1>6

\* Whatever the loops, the step and the host's calls, nothing on the map
\* flashes faster than the ceiling unless the host lifted it, and the blink
\* keeps to the grid of the loop that plays.
THEOREM NothingFlashesFaster == Spec => []FlashesKeepTheCeiling
<1>1. BlinksInv => FlashesKeepTheCeiling
  BY CeilingIsKept, GridIsKept DEF FlashesKeepTheCeiling
<1> QED
  BY <1>1, BlinksAlways, PTL
-----------------------------------------------------------------------------
(* The call the map asks for.                                              *)

LEMMA QuotientIsAtLeast ==
  ASSUME NEW y \in Nat, NEW d \in Nat \ {0}, NEW m \in Int
  PROVE  y >= d * m <=> y \div d >= m
<1>1. y \in Int
  OBVIOUS
<1>2. PICK q \in Int, r \in 0..d - 1 : q = y \div d /\ r = y % d /\ y = d * q + r
  BY <1>1, QuotientAndRest
<1>3. CASE q >= m
  <2>1. PICK z \in Nat : z = q - m
    BY <1>3
  <2>2. d * z \in Nat /\ d * q = d * m + d * z
    <3>1. d * z \in Nat
      BY TimesIsMore
    <3>2. q = m + z
      BY <2>1
    <3> QED
      BY <3>1, <3>2
  <2>3. y >= d * m
    BY <1>2, <2>2
  <2> QED
    BY <1>2, <1>3, <2>3
<1>4. CASE q < m
  <2>1. PICK z \in Nat : z = m - q - 1
    BY <1>4
  <2>2. d * z \in Nat /\ d * m = d * q + d + d * z
    <3>1. d * z \in Nat
      BY TimesIsMore
    <3>2. m = q + 1 + z
      BY <2>1
    <3> QED
      BY <3>1, <3>2
  <2>3. ~(y >= d * m)
    BY <1>2, <2>2
  <2> QED
    BY <1>2, <1>4, <2>3
<1> QED
  BY <1>2, <1>3, <1>4

\* The frame a period of n frames shows: one a step of d, the last held.
Place(n, d, p, x) == LET i == (x % p) \div d + 1 IN IF i < n THEN i ELSE n

\* Where the place moves next, after x.
Moves(n, d, p, x) ==
  LET elapsed == x % p IN IF elapsed < d * (n - 1) THEN (elapsed \div d + 1) * d ELSE p

LEMMA PlaceStays ==
  ASSUME NEW n \in Nat \ {0}, NEW d \in Nat \ {0}, NEW p \in Nat \ {0}, p >= d * (n - 1), NEW x \in Nat
  PROVE  /\ Moves(n, d, p, x) \in Nat /\ Moves(n, d, p, x) > x % p
         /\ \A y \in Nat : x <= y /\ y < x - (x % p) + Moves(n, d, p, x)
                           => Place(n, d, p, y) = Place(n, d, p, x)
<1>0. x \in Int
  OBVIOUS
<1>1. PICK e \in 0..p - 1 : e = x % p
  BY <1>0, DivMod
<1>2. e \in Int /\ e \in Nat /\ e < p
  BY <1>1
<1>3. PICK q \in Int, r \in 0..d - 1 : q = e \div d /\ r = e % d /\ e = d * q + r
  BY <1>2, QuotientAndRest
<1>4. q >= 0
  <2>1. e >= 0
    BY <1>2
  <2>2. e \div d >= 0
    BY <1>2, <2>1, DivMod
  <2> QED
    BY <1>3, <2>2
<1>5. ASSUME NEW k \in Nat, e + k < p PROVE (x + k) % p = e + k
  BY <1>0, <1>1, <1>5, LeftOverGrows
<1>8. ASSUME \A k \in Nat : (x % p) + k < Moves(n, d, p, x) => Place(n, d, p, x + k) = Place(n, d, p, x),
             Moves(n, d, p, x) \in Nat,
             NEW y \in Nat, x <= y, y < x - (x % p) + Moves(n, d, p, x)
      PROVE  Place(n, d, p, y) = Place(n, d, p, x)
  <2>1. PICK k \in Nat : k = y - x
    BY <1>8
  <2>2. PICK m \in Nat : m = Moves(n, d, p, x)
    BY <1>8
  <2>3. (x % p) + k < Moves(n, d, p, x)
    BY <1>1, <1>2, <1>8, <2>1, <2>2
  <2>4. x + k = y
    BY <2>1
  <2> QED
    BY <1>8, <2>3, <2>4
<1>6. CASE e < d * (n - 1)
  <2>1. ~(q >= n - 1)
    <3>1. PICK m \in Int : m = n - 1
      OBVIOUS
    <3>2. d * m \in Int /\ ~(e >= d * m)
      BY <1>2, <1>6, <3>1
    <3>3. ~(e \div d >= m)
      BY <1>2, <3>2, QuotientIsAtLeast
    <3> QED
      BY <1>3, <3>1, <3>3
  <2>2. PICK z \in Nat : z = n - 1 - (q + 1)
    BY <2>1
  <2>3. d * z \in Nat /\ d * (n - 1) = (q + 1) * d + d * z
    <3>1. d * z \in Nat
      BY TimesIsMore
    <3>2. n - 1 = (q + 1) + z
      BY <2>2
    <3> QED
      BY <3>1, <3>2
  <2>4. PICK until \in Int : until = (q + 1) * d
    OBVIOUS
  <2>5. until <= p /\ until = d * q + d /\ until > e
    <3>1. until = d * q + d
      BY <2>4
    <3>2. until <= p
      BY <2>3, <2>4
    <3> QED
      BY <1>3, <3>1, <3>2
  <2>6. Moves(n, d, p, x) = until
    BY <1>1, <1>3, <1>6, <2>4 DEF Moves
  <2>7. ASSUME NEW k \in Nat, (x % p) + k < Moves(n, d, p, x)
        PROVE  Place(n, d, p, x + k) = Place(n, d, p, x)
    <3>1. e + k < until
      BY <1>1, <2>6, <2>7
    <3>2. (x + k) % p = e + k
      BY <1>2, <1>5, <2>5, <3>1
    <3>3. (e % d) + k < d
      BY <1>3, <2>5, <3>1
    <3>4. (e + k) \div d = e \div d
      BY <1>2, <3>3, LeftOverGrows
    <3> QED
      BY <1>1, <3>2, <3>4 DEF Place
  <2>8. Moves(n, d, p, x) \in Nat /\ Moves(n, d, p, x) > x % p
    BY <1>1, <1>2, <2>5, <2>6
  <2> QED
    BY <1>8, <2>7, <2>8
<1>7. CASE ~(e < d * (n - 1))
  <2>1. Moves(n, d, p, x) = p
    BY <1>1, <1>7 DEF Moves
  <2>2. ASSUME NEW k \in Nat, (x % p) + k < Moves(n, d, p, x)
        PROVE  Place(n, d, p, x + k) = Place(n, d, p, x)
    <3>1. (x + k) % p = e + k
      BY <1>1, <1>5, <2>1, <2>2
    <3>2. PICK m \in Int : m = n - 1
      OBVIOUS
    <3>3. d * m \in Int /\ e >= d * m
      BY <1>2, <1>7, <3>2
    <3>4. PICK y \in Nat : y = e + k
      BY <1>2
    <3>5. y >= d * m
      BY <1>2, <3>3, <3>4
    <3>6. e \div d >= m /\ y \div d >= m /\ e \div d \in Int /\ y \div d \in Int
      <4>1. e \div d >= m
        BY <1>2, <3>3, QuotientIsAtLeast
      <4>2. y \div d >= m
        BY <3>5, QuotientIsAtLeast
      <4>3. y \in Int
        OBVIOUS
      <4>4. e \div d \in Int /\ y \div d \in Int
        BY <1>2, <4>3, DivMod
      <4> QED
        BY <4>1, <4>2, <4>4
    <3>7. PICK i \in Int, j \in Int : i = e \div d /\ j = y \div d
      BY <3>6
    <3>8. Place(n, d, p, x) = n
      <4>1. ~(i + 1 < n)
        BY <3>2, <3>6, <3>7
      <4> QED
        BY <1>1, <3>7, <4>1 DEF Place
    <3>9. Place(n, d, p, x + k) = n
      <4>1. ~(j + 1 < n)
        BY <3>2, <3>6, <3>7
      <4> QED
        BY <3>1, <3>4, <3>7, <4>1 DEF Place
    <3> QED
      BY <3>8, <3>9
  <2>3. Moves(n, d, p, x) \in Nat /\ Moves(n, d, p, x) > x % p
    BY <1>1, <1>2, <2>1
  <2> QED
    BY <1>8, <2>2, <2>3
<1> QED
  BY <1>6, <1>7

PeriodOf(l, s) == StepOf(s) * (CountOf(l) - 1) + Whole(LastHold, StepOf(s))

LEMMA PlayedAtItsPlace ==
  ASSUME NEW l \in [LoopIds -> Loops], CountOf(l) # 0, NEW s, NEW b \in Nat \ {0}, NEW t \in Nat
  PROVE  PlayedFor(l, s, b, t)
           = LineOf(l)[Place(CountOf(l), StepOf(s), PeriodOf(l, s), IF t > b THEN t - b ELSE 0)]
<1>1. LineOf(l) # << >>
  BY LineRises
<1> QED
  BY <1>1 DEF PlayedFor, ShownFor, Place, PeriodOf, CountOf

LEMMA PeriodCovers ==
  ASSUME NEW l \in [LoopIds -> Loops], CountOf(l) # 0, NEW s \in Steps \union {0}
  PROVE  /\ CountOf(l) \in Nat \ {0} /\ StepOf(s) \in Nat \ {0} /\ PeriodOf(l, s) \in Nat \ {0}
         /\ PeriodOf(l, s) >= StepOf(s) * (CountOf(l) - 1)
<1>1. CountOf(l) \in Nat \ {0} /\ StepOf(s) \in Nat \ {0}
  BY LineRises, StepsAreSome
<1>2. PICK n \in Nat \ {0}, d \in Nat \ {0} : n = CountOf(l) /\ d = StepOf(s)
  BY <1>1
<1>3. d * (n - 1) + Whole(LastHold, d) \in Nat \ {0}
  BY PeriodIsWhole
<1>4. Whole(LastHold, d) \in Nat
  BY WholeCovers, PlaybackAssumption DEF PlaybackAssumption
<1>5. PICK h \in Nat : h = Whole(LastHold, d)
  BY <1>4
<1>6. d * (n - 1) \in Int /\ d * (n - 1) + h >= d * (n - 1)
  OBVIOUS
<1> QED
  BY <1>1, <1>2, <1>3, <1>5, <1>6 DEF PeriodOf

\* Between a frame and the loop's next advance, as the map tells it, the loop
\* shows what it showed.
LEMMA AdvanceIsNext ==
  ASSUME PlayTyped
  PROVE  /\ \A d \in NextAdvance(clock) : d > clock
         /\ \A t \in Nat : t > clock /\ (\A d \in NextAdvance(clock) : t < d)
              => ShownBy(Timeline, from, t) = ShownBy(Timeline, from, clock)
<1>1. /\ loops \in [LoopIds -> Loops] /\ step \in Steps \union {0} /\ from \in Nat /\ clock \in Nat
      /\ Count = CountOf(loops) /\ CountOf(loops) \in Nat
  BY LineRises, TimelineIsOfLoops DEF PlayTyped, LoopsTyped, TimesTyped, Count, CountOf
<1>2. CASE ~(playing /\ Plays)
  <2>1. NextAdvance(clock) = {}
    BY <1>2 DEF NextAdvance
  <2>2. \A t : ShownBy(Timeline, from, t) = ShownFor(loops, step, FALSE, at, from, t)
    <3>1. (playing /\ Plays) = FALSE
      BY <1>2
    <3> QED
      BY <3>1, ShownByIsOfState
  <2> QED
    BY <2>1, <2>2 DEF ShownFor
<1>3. CASE playing /\ Plays
  <2>0. \A t : ShownBy(Timeline, from, t) = PlayedFor(loops, step, from, t)
    <3>1. (playing /\ Plays) = TRUE
      BY <1>3
    <3>2. \A t : ShownBy(Timeline, from, t) = ShownFor(loops, step, TRUE, at, from, t)
      BY <3>1, ShownByIsOfState
    <3>3. \A t : ShownFor(loops, step, TRUE, at, from, t) = PlayedFor(loops, step, from, t)
      BY DEF PlayedFor, ShownFor
    <3> QED
      BY <3>2, <3>3
  <2>1. CASE from = 0 \/ CountOf(loops) = 0
    <3>1. NextAdvance(clock) = {}
      BY <1>1, <2>1 DEF NextAdvance
    <3>2. \A t : PlayedFor(loops, step, from, t)
                   = IF LineOf(loops) = << >> THEN 0 ELSE LineOf(loops)[1]
      BY <1>1, <2>1, LineRises DEF PlayedFor, ShownFor
    <3> QED
      BY <2>0, <3>1, <3>2
  <2>2. CASE from # 0 /\ CountOf(loops) = 1
    <3>1. NextAdvance(clock) = {}
      BY <1>1, <2>2 DEF NextAdvance
    <3>2. \A t \in Nat : PlayedFor(loops, step, from, t) = LineOf(loops)[1]
      <4> SUFFICES ASSUME NEW v \in Nat PROVE PlayedFor(loops, step, from, v) = LineOf(loops)[1]
        OBVIOUS
      <4>0. CountOf(loops) # 0
        BY <2>2
      <4>1. PICK i \in 1..CountOf(loops) : ShownFor(loops, step, TRUE, at, from, v) = LineOf(loops)[i]
        <5>1. PICK l \in [LoopIds -> Loops], s \in Steps \union {0}, b \in Nat :
                l = loops /\ s = step /\ b = from
          BY <1>1
        <5>2. CountOf(l) # 0
          BY <4>0, <5>1
        <5>3. \E i \in 1..CountOf(l) : ShownFor(l, s, TRUE, at, b, v) = LineOf(l)[i]
          BY <5>2, ShownOnTheLine
        <5> QED
          BY <5>1, <5>3, Zenon
      <4>2. i = 1
        BY <2>2, <4>1
      <4>3. PlayedFor(loops, step, from, v) = ShownFor(loops, step, TRUE, at, from, v)
        BY DEF PlayedFor, ShownFor
      <4> QED
        BY <4>1, <4>2, <4>3
    <3> QED
      BY <1>1, <2>0, <3>1, <3>2
  <2>3. CASE from # 0 /\ CountOf(loops) # 0 /\ CountOf(loops) # 1
    <3>1. PICK n \in Nat \ {0}, d \in Nat \ {0}, p \in Nat \ {0}, b \in Nat \ {0}, w \in Nat :
            /\ n = CountOf(loops) /\ d = StepOf(step) /\ p = PeriodOf(loops, step)
            /\ b = from /\ w = clock
      BY <1>1, <2>3, PeriodCovers
    <3>2. p >= d * (n - 1)
      BY <1>1, <2>3, <3>1, PeriodCovers
    <3>3. \A t \in Nat : ShownBy(Timeline, from, t)
                           = LineOf(loops)[Place(n, d, p, IF t > b THEN t - b ELSE 0)]
      <4> SUFFICES ASSUME NEW t \in Nat
                   PROVE  PlayedFor(loops, step, from, t)
                            = LineOf(loops)[Place(n, d, p, IF t > b THEN t - b ELSE 0)]
        BY <2>0
      <4>1. b = from /\ n = CountOf(loops) /\ d = StepOf(step) /\ p = PeriodOf(loops, step)
        BY <3>1
      <4>2. PlayedFor(loops, step, b, t)
              = LineOf(loops)[Place(CountOf(loops), StepOf(step), PeriodOf(loops, step),
                                    IF t > b THEN t - b ELSE 0)]
        BY <1>1, <2>3, PlayedAtItsPlace
      <4> QED
        BY <4>1, <4>2, Zenon
    <3>4. CASE w < b
      <4>1. NextAdvance(clock) = {from}
        BY <1>1, <1>3, <2>3, <3>1, <3>4 DEF NextAdvance
      <4>2. ASSUME NEW t \in Nat, t < b PROVE (IF t > b THEN t - b ELSE 0) = 0
        BY <4>2
      <4>3. \A t \in Nat : t < b => ShownBy(Timeline, from, t) = LineOf(loops)[Place(n, d, p, 0)]
        BY <3>3, <4>2
      <4> QED
        BY <3>1, <3>4, <4>1, <4>3
    <3>5. CASE ~(w < b)
      <4>1. PICK x \in Nat : x = w - b
        BY <3>5
      <4>2. PICK moves \in Nat : moves = Moves(n, d, p, x) /\ moves > x % p
        BY <3>2, PlaceStays
      <4>8. \A y \in Nat : x <= y /\ y < x - (x % p) + Moves(n, d, p, x)
                             => Place(n, d, p, y) = Place(n, d, p, x)
        BY <3>2, PlaceStays
      <4>3. PICK e \in Nat : e = x % p
        <5>1. x \in Int
          OBVIOUS
        <5> QED
          BY <5>1, DivMod
      <4>4. NextAdvance(clock) = {w - e + moves}
        <5>1. Run = d * (n - 1) /\ Run + Hold = p
          BY <1>1, <3>1 DEF Run, Hold, PeriodOf
        <5>2. NextAdvance(clock)
                = {w - e + IF e < d * (n - 1) THEN (e \div d + 1) * d ELSE p}
          <6>1. ~(Count < 2) /\ ~(clock < from) /\ (clock - from) % (Run + Hold) = e
            BY <1>1, <2>3, <3>1, <3>5, <4>1, <4>3, <5>1
          <6>2. clock = w /\ StepOf(step) = d
            BY <3>1
          <6> QED
            BY <1>3, <2>3, <5>1, <6>1, <6>2, Zenon DEF NextAdvance
        <5>3. moves = IF e < d * (n - 1) THEN (e \div d + 1) * d ELSE p
          BY <4>2, <4>3 DEF Moves
        <5> QED
          BY <5>2, <5>3, Zenon
      <4>5. w - e + moves > clock
        BY <3>1, <4>2, <4>3
      <4>6. ASSUME NEW t \in Nat, t > clock, t < w - e + moves
            PROVE  ShownBy(Timeline, from, t) = ShownBy(Timeline, from, clock)
        <5>1. PICK y \in Nat : y = t - b
          BY <3>1, <3>5, <4>6
        <5>2. x <= y /\ y < x - (x % p) + Moves(n, d, p, x)
          BY <3>1, <4>1, <4>2, <4>3, <4>6, <5>1
        <5>3. Place(n, d, p, y) = Place(n, d, p, x)
          BY <4>8, <5>2
        <5>4. (IF t > b THEN t - b ELSE 0) = y /\ (IF w > b THEN w - b ELSE 0) = x
          BY <3>1, <3>5, <4>1, <4>6, <5>1
        <5>5. ShownBy(Timeline, from, t) = LineOf(loops)[Place(n, d, p, y)]
          BY <3>3, <5>4
        <5>6. ShownBy(Timeline, from, w) = LineOf(loops)[Place(n, d, p, x)]
          BY <3>3, <5>4
        <5> QED
          BY <3>1, <5>3, <5>5, <5>6
      <4> QED
        BY <4>4, <4>5, <4>6
    <3> QED
      BY <3>4, <3>5
  <2> QED
    BY <1>1, <2>1, <2>2, <2>3
<1> QED
  BY <1>2, <1>3
\* Between a frame and the blink's next phase, as the map tells it, the markers
\* stay as they were drawn.
LEMMA PhaseIsNext ==
  ASSUME BlinksInv, current, ~driven, anew
  PROVE  /\ \A d \in NextPhase(clock) : d > clock
         /\ \A t \in Nat : t > clock /\ (\A d \in NextPhase(clock) : t < d) => (Phase(t) <=> lit)
<1>1. /\ clock \in Nat /\ start \in Nat /\ last \in Nat /\ HalfPeriod \in Nat \ {0}
  BY HalfPeriodIsSome DEF BlinksInv, PlayTyped, TimesTyped
<1>2. IF reduce THEN lit
      ELSE /\ going
           /\ \/ lit /\ clock <= start /\ start = last
              \/ last = clock /\ start <= clock /\ (lit <=> Lit(start, HalfPeriod, clock))
  BY DEF BlinksInv, LitInv
<1>3. CASE reduce
  BY <1>2, <1>3 DEF NextPhase, Phase
<1>4. CASE ~reduce /\ clock < start
  <2>1. lit /\ start = last
    BY <1>1, <1>2, <1>4
  <2>2. NextPhase(clock) = {start}
    BY <1>2, <1>4 DEF NextPhase
  <2>3. \A t \in Nat : t < start => Phase(t)
    BY <1>1, <2>1 DEF Phase
  <2> QED
    BY <1>4, <2>1, <2>2, <2>3
<1>5. CASE ~reduce /\ ~(clock < start)
  <2>1. PICK h \in Nat \ {0}, x \in Nat : h = HalfPeriod /\ x = clock - start
    BY <1>1, <1>5
  <2>2. x \in Int
    OBVIOUS
  <2>3. PICK q \in Int, r \in 0..h - 1 : q = x \div h /\ r = x % h /\ x = h * q + r
    BY <2>2, QuotientAndRest
  <2>4. PICK due \in Int : due = start + (q + 1) * h
    BY <1>1
  <2>5. NextPhase(clock) = {due}
    BY <1>2, <1>5, <2>1, <2>3, <2>4 DEF NextPhase
  <2>6. due = start + x + h - r /\ due > clock
    <3>1. (q + 1) * h = h * q + h
      OBVIOUS
    <3>2. PICK hq \in Int : hq = h * q
      OBVIOUS
    <3>4. PICK next \in Int : next = (q + 1) * h
      OBVIOUS
    <3>5. next = hq + h /\ x = hq + r /\ due = start + next
      BY <2>3, <2>4, <3>1, <3>2, <3>4
    <3>3. x = hq + r /\ due = start + hq + h
      BY <1>1, <3>5
    <3> QED
      BY <1>1, <2>1, <2>3, <3>3
  <2>7. last = clock /\ (lit <=> Lit(start, h, clock))
    <3>1. CASE lit /\ clock <= start /\ start = last
      <4>1. clock = start /\ last = clock
        BY <1>1, <1>5, <3>1
      <4>2. Lit(start, h, start)
        BY <1>1, LitAtItsStart
      <4> QED
        BY <3>1, <4>1, <4>2
    <3>2. CASE last = clock /\ start <= clock /\ (lit <=> Lit(start, HalfPeriod, clock))
      BY <2>1, <3>2
    <3> QED
      BY <1>2, <1>5, <3>1, <3>2
  <2>8. ASSUME NEW t \in Nat, t > clock, t < due PROVE Phase(t) <=> lit
    <3>1. PICK k \in Nat : k = t - clock
      BY <1>1, <2>8
    <3>2. (x % h) + k < h
      BY <1>1, <2>1, <2>3, <2>6, <2>8, <3>1
    <3>3. (x + k) \div h = x \div h
      BY <2>2, <3>2, LeftOverGrows
    <3>4. t - start = x + k /\ clock - start = x
      BY <1>1, <2>1, <3>1
    <3>5. (t - start) \div h = (clock - start) \div h
      BY <3>3, <3>4
    <3>6. Lit(start, h, t) <=> Lit(start, h, clock)
      BY <3>5, Zenon DEF Lit
    <3>7. ~(t <= last)
      BY <1>1, <2>7, <2>8
    <3> QED
      BY <1>2, <1>5, <2>1, <2>7, <3>6, <3>7 DEF Phase
  <2> QED
    BY <2>5, <2>6, <2>8
<1> QED
  BY <1>3, <1>4, <1>5

LEMMA StaleIsNext ==
  ASSUME PlayTyped
  PROVE  /\ \A d \in NextStale(clock) : d > clock
         /\ \A t \in Nat : t > clock /\ (\A d \in NextStale(clock) : t < d) /\ Stale(t) => Stale(clock)
<1>1. clock \in Nat /\ Alert.valid \in Nat /\ Alert.keeps \in Nat
  BY PlaybackAssumption DEF PlaybackAssumption, PlayTyped, TimesTyped
<1>2. CASE Stale(clock)
  BY <1>2 DEF NextStale
<1>3. CASE ~Stale(clock)
  <2>1. NextStale(clock) = {Alert.valid + Alert.keeps + 1}
    BY <1>3 DEF NextStale
  <2>2. ~(Alert.valid > clock + 1) /\ ~(clock - Alert.valid > Alert.keeps)
    BY <1>3 DEF Stale, Ahead
  <2>3. Alert.valid + Alert.keeps + 1 > clock
    BY <1>1, <2>2
  <2>4. ASSUME NEW t \in Nat, t > clock, t < Alert.valid + Alert.keeps + 1 PROVE ~Stale(t)
    <3>1. ~(Alert.valid > t + 1) /\ ~(t - Alert.valid > Alert.keeps)
      BY <1>1, <2>2, <2>4
    <3> QED
      BY <3>1 DEF Stale, Ahead
  <2> QED
    BY <2>1, <2>3, <2>4
<1> QED
  BY <1>2, <1>3

LEMMA NothingIsMissed == BlinksInv => NoAdvanceIsMissed
<1> SUFFICES ASSUME BlinksInv, current, ~driven, anew
             PROVE  /\ \A d \in NextCall(clock) : d > clock
                    /\ \A t \in {v \in clock + 1..clock + Horizon : \A d \in NextCall(clock) : v < d} :
                         /\ ShownBy(Timeline, from, t) = Shown /\ Phase(t) = lit
                         /\ Stale(t) => Stale(clock)
  BY DEF NoAdvanceIsMissed
<1>1. PlayTyped /\ BlinkInv /\ clock \in Nat /\ Horizon \in Nat /\ given = clock /\ lit \in BOOLEAN
  BY HorizonIsSome DEF BlinksInv, TickInv, CountsTyped, BlinkInv, PlayTyped, TimesTyped
<1>2. NextCall(clock) = NextStale(clock) \union (NextPhase(clock) \union NextAdvance(clock))
  BY DEF NextCall
<1>3. \A d \in NextCall(clock) : d > clock
  BY <1>1, <1>2, AdvanceIsNext, PhaseIsNext, StaleIsNext
<1>4. ASSUME NEW t \in clock + 1..clock + Horizon, \A d \in NextCall(clock) : t < d
      PROVE  /\ ShownBy(Timeline, from, t) = Shown /\ Phase(t) = lit
             /\ Stale(t) => Stale(clock)
  <2>1. t \in Nat /\ t > clock
    BY <1>1
  <2>2. ShownBy(Timeline, from, t) = ShownBy(Timeline, from, clock)
    <3>1. \A d \in NextAdvance(clock) : t < d
      BY <1>2, <1>4
    <3> QED
      BY <1>1, <2>1, <3>1, AdvanceIsNext
  <2>3. Phase(t) <=> lit
    <3>1. \A d \in NextPhase(clock) : t < d
      BY <1>2, <1>4
    <3> QED
      BY <2>1, <3>1, PhaseIsNext
  <2>4. Stale(t) => Stale(clock)
    <3>1. \A d \in NextStale(clock) : t < d
      BY <1>2, <1>4
    <3> QED
      BY <1>1, <2>1, <3>1, StaleIsNext
  <2>5. Phase(t) = lit
    <3>1. Phase(t) \in BOOLEAN
      BY DEF Phase
    <3> QED
      BY <1>1, <2>3, <3>1, Zenon
  <2>6. ShownBy(Timeline, from, clock) = Shown
    BY <1>1 DEF Shown
  <2> QED
    BY <2>2, <2>4, <2>5, <2>6
<1> QED
  BY <1>3, <1>4

\* Whatever the loops, the step and the host's calls, a host that sleeps until
\* the call the map asks for misses nothing, and the stamp names the moment shown.
THEOREM TheTimesToldAreTrue == Spec => []ToldTimesAreTrue
<1>1. BlinksInv => ToldTimesAreTrue
  BY NothingIsMissed, StampIsTrue DEF BlinksInv, ToldTimesAreTrue
<1> QED
  BY <1>1, BlinksAlways, PTL
=============================================================================

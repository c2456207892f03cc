------------------------------- MODULE HostLoop -------------------------------
(***************************************************************************)
(* The command line: one program run from its arguments to its exit code   *)
(* (main.go, modes.go, build.go), and the interactive map: the terminal it *)
(* takes and gives back (term.go), two pump goroutines, the key reader and *)
(* the watch on the terminal's size, all telling one loop through one      *)
(* channel (loop.go, interactive.go), and what each key does (keys.go).    *)
(*                                                                         *)
(* The library is seen as its calls show it: jobs that wait, are done or   *)
(* fail, a version of what there is to draw, and a NextCall while a tile   *)
(* waits to be tried again.                                                *)
(***************************************************************************)
EXTENDS Integers, SequencesExt

CONSTANTS
  Pumps,        \* the goroutines that call Work
  EventRoom,    \* eventRoom
  MostHeld,     \* mostHeld
  Reads,        \* what one read of the terminal may give, in bytes by name
  Screens,      \* the sizes of the terminal
  SizesAsked,   \* those of them that --size may give
  MaxHappenings \* bound: reads, changes of size and jobs, together

ASSUME HostAssumption ==
  /\ {EventRoom, MaxHappenings, MostHeld} \subseteq Nat /\ EventRoom > 0
  /\ \A chunk \in Reads : chunk \in Seq(STRING) /\ chunk # << >>
  /\ SizesAsked \subseteq Screens /\ Screens # {} /\ Screens \intersect {"idle", "looking", "none"} = {}

VARIABLES
  phase,    \* where run is: args, ready, draw, wait, stop, panic, over
  code,     \* the exit code
  term,     \* the terminal: found, or taken
  mapOpen,  \* the library's map is open
  app,      \* [places, focus, on, panel, said, failed, size], of app by its own names
  shown,    \* what the terminal shows
  version,  \* how often what there is to draw changed
  mapOn,    \* the switches as the map has them
  looking,  \* where the map looks: it moved so often, modulo 2
  playing,  \* the loop on the map: "none", "stopped" or "playing"
  jobs, asked, \* jobs waiting, and jobs asked for so far
  lost,     \* a tile failed and waits to be tried again
  warned,   \* warnings not yet taken
  due,      \* the loop's timer is set
  events,   \* the channel to the loop
  wake,     \* the pump's channel of one
  pump,     \* each goroutine of the pump
  written,  \* the size --size gave, or "none"
  size, resizes, signal, watcher, unseen, \* the terminal's size, and who knows
  reads, keysHeld, typed \* reads so far, keyReader.held, keys not sent yet

termVars == <<phase, code, term, mapOpen>>
drawVars == <<app, shown, version, mapOn, looking, playing>>
jobVars == <<jobs, asked, lost, warned, wake, pump>>
sizeVars == <<written, size, resizes, signal, watcher, unseen>>
keyVars == <<reads, keysHeld, typed>>
hostVars == <<termVars, drawVars, jobVars, due, events, sizeVars, keyVars>>

Happens == reads + resizes + asked < MaxHappenings
Ended == phase \in {"stop", "panic", "over"} \* the context is done

-----------------------------------------------------------------------------
(* Keys.                                                                   *)

Final == {"A", "[", "O", "q", "d", "?k", "p", "m", "t", "z"} \* 0x40 to 0x7E
Controls == {"esc", "tab"}

Pressed(b) ==
  CASE b = "q" -> <<"quit">> [] b = "d" -> <<"describe">> [] b = "?" -> <<"help">>
    [] b = "p" -> <<"play">> [] b = "m" -> <<"markers">> [] b = "tab" -> <<"focus">>
    [] b = "z" -> <<"zoom">> [] OTHER -> << >>

CursorKey(b) == IF b = "A" THEN <<"pan">> ELSE << >>

\* Where a sequence that has parameters may end.
Closers(data) == {k \in 3..Len(data) : data[k] \in Final \union Controls}

\* The key of the escape sequence at the start of data, and its length; a
\* length of 0 when data ends before the sequence does.
Sequence(data) ==
  LET last == Min(Closers(data))
  IN CASE Len(data) = 1 -> [key |-> <<"escape">>, size |-> 1]
       [] Len(data) > 1 /\ data[2] = "[" ->
            IF Closers(data) = {} THEN [key |-> << >>, size |-> 0]
            ELSE IF data[last] \in Controls THEN [key |-> << >>, size |-> last - 1]
            ELSE [key |-> CursorKey(data[last]), size |-> last]
       [] Len(data) > 1 /\ data[2] = "O" ->
            IF Len(data) < 3 THEN [key |-> << >>, size |-> 0]
            ELSE [key |-> CursorKey(data[3]), size |-> 3]
       [] Len(data) > 1 /\ data[2] \in Controls -> [key |-> <<"escape">>, size |-> 1]
       [] OTHER -> [key |-> << >>, size |-> 2] \* Alt and a key

\* The key that data starts with, and how many bytes it takes.
KeyAt(data) == IF data[1] = "esc" THEN Sequence(data) ELSE [key |-> Pressed(data[1]), size |-> 1]

\* The keys of some bytes from each place on, and the sequence they end within.
ReadAll(data) ==
  LET from[k \in 1..(Len(data) + 1)] ==
        IF k > Len(data) THEN [keys |-> << >>, left |-> << >>]
        ELSE LET part == SubSeq(data, k, Len(data))
                 found == KeyAt(part)
             IN IF found.size = 0 THEN [keys |-> << >>, left |-> part]
                ELSE [from[k + found.size] EXCEPT !.keys = found.key \o @]
  IN from[1]

\* Mutant: a sequence cut off at the end of a read is not held.
ReadChunkAlone(kept, chunk) == [keys |-> ReadAll(kept \o chunk).keys, held |-> << >>]

ReadChunk(kept, chunk) ==
  LET all == ReadAll(kept \o chunk)
  IN [keys |-> all.keys, held |-> IF Len(all.left) <= MostHeld THEN all.left ELSE << >>]

-----------------------------------------------------------------------------
(* Starting, and the modes that draw or say one thing.                     *)

Steps(mode) ==
  CASE mode = "headless" -> {"build", "settle", "render"}
    [] mode = "describe" -> {"build", "settle", "render", "report", "nothing to say"}
    [] mode = "maintain" -> {"build", "purge", "verify"}

\* A mistake of the person's is 2, a failure is 1.
CodeOf(step) == IF step \in {"build", "nothing to say"} THEN 2 ELSE IF step = "none" THEN 0 ELSE 1

Once(mode) ==
  /\ phase = "args" /\ phase' = "over"
  /\ \E failed \in Steps(mode) \union {"none"} : code' = CodeOf(failed)
  /\ UNCHANGED <<term, mapOpen, drawVars, jobVars, due, events, sizeVars, keyVars>>

\* Arguments refused, or help asked for.
Answered == /\ phase = "args" /\ phase' = "over" /\ code' \in {0, 2}
            /\ UNCHANGED <<term, mapOpen, drawVars, jobVars, due, events, sizeVars, keyVars>>

\* sizeOf: the size that was asked for, or the terminal's.
SizeOf(asks) == IF asks = "none" THEN size ELSE asks

\* The map is built and dressed; the terminal is taken when it can be, and
\* the app begins at the size asked for, or at the one the terminal has then.
Interactive(places, loop, asks) ==
  /\ phase = "args"
  /\ \/ phase' = "over" /\ code' \in {1, 2} /\ UNCHANGED <<term, mapOpen, app, playing, written>>
     \/ /\ phase' = "ready" /\ term' = "taken" /\ mapOpen' = TRUE /\ UNCHANGED code
        /\ playing' = IF loop THEN "stopped" ELSE "none"
        /\ app' = [app EXCEPT !.places = places, !.size = SizeOf(asks)] /\ written' = asks
  /\ UNCHANGED <<shown, version, mapOn, looking, jobVars, due, events, keyVars,
                 size, resizes, signal, watcher, unseen>>

\* The pump, the key reader and the watch are started.
StartWatching ==
  /\ phase = "ready" /\ phase' = "draw"
  /\ pump' = [p \in Pumps |-> "work"] /\ wake' = TRUE /\ watcher' = "idle"
  /\ UNCHANGED <<code, term, mapOpen, drawVars, jobs, asked, lost, warned, due, events,
                 written, size, resizes, signal, unseen, keyVars>>

-----------------------------------------------------------------------------
(* The loop.                                                               *)

\* What would be drawn now.
Picture(a) == [app |-> a, version |-> version, on |-> mapOn, looking |-> looking, playing |-> playing]

Whole == jobs = 0 /\ ~lost /\ \A p \in Pumps : pump[p] # "busy"

\* drawn: the warnings are heard, and a whole map ends a failure's words.
Heard == [app EXCEPT !.failed = (app.failed \/ warned) /\ ~Whole]

\* A frame asks for work, and so wakes the pump.
Drawn ==
  /\ phase = "draw" /\ phase' = "wait"
  /\ app' = Heard /\ shown' = Picture(Heard) /\ warned' = FALSE
  /\ \/ Happens /\ jobs' = jobs + 1 /\ asked' = asked + 1 /\ wake' = TRUE
     \/ UNCHANGED <<jobs, asked, wake>>
  /\ due' = (lost /\ jobs' = jobs)
  /\ UNCHANGED <<code, term, mapOpen, version, mapOn, looking, playing, lost, pump, events, sizeVars, keyVars>>

\* A frame that cannot be drawn or written ends the loop; a panic ends the
\* program once the terminal is given back.
DrawFails ==
  /\ phase = "draw"
  /\ \/ phase' = "stop" /\ code' = 1
     \/ phase' = "panic" /\ code' = 2
  /\ term' = "found"
  /\ UNCHANGED <<mapOpen, drawVars, jobVars, due, events, sizeVars, keyVars>>

Finishes == phase' = "stop" /\ term' = "found" /\ code' = 0
Redraws == phase' = "draw" /\ UNCHANGED <<term, code>>

\* zoomed, panned and FitWorld: moved, or refused and said; with a place
\* focused a zoom is two calls, of which the second may be refused.
Moves(key) ==
  /\ UNCHANGED <<mapOn, playing>>
  /\ \/ looking' = 1 - looking /\ app' = [app EXCEPT !.said = "nothing"]
     \/ looking' = looking /\ app' = [app EXCEPT !.said = "refused"]
     \/ key = "zoom" /\ app.focus # -1 /\ looking' = 1 - looking /\ app' = [app EXCEPT !.said = "refused"]

Focuses ==
  /\ UNCHANGED <<mapOn, playing, looking>>
  /\ app' = IF app.places = 0 THEN [app EXCEPT !.said = "no place"]
            ELSE [app EXCEPT !.focus = ((@ + 2) % (app.places + 1)) - 1, !.said = "nothing"]

Panels(key) ==
  /\ app' = [app EXCEPT !.panel = IF @ = key THEN "none" ELSE key]
  /\ UNCHANGED <<mapOn, playing, looking>>

\* played: with motion reduced a stopped loop stays so, and nothing is said.
Plays ==
  /\ UNCHANGED <<mapOn, looking>>
  /\ \/ playing # "none" /\ playing' = IF playing = "playing" THEN "stopped" ELSE "playing"
     \/ playing # "playing" /\ UNCHANGED playing
  /\ app' = [app EXCEPT !.said = IF playing = "none" THEN "no loop" ELSE "nothing"]

Toggled(set, what) == IF what \in set THEN set \ {what} ELSE set \union {what}

Switches(key) ==
  /\ app' = [app EXCEPT !.on = Toggled(@, key), !.said = key]
  /\ mapOn' = IF key \in app'.on THEN mapOn \union {key} ELSE mapOn \ {key}
  /\ UNCHANGED <<looking, playing>>

\* act, for one key.
Act(key) ==
  \/ key = "quit" /\ Finishes /\ UNCHANGED <<app, mapOn, looking, playing>>
  \/ key = "escape" /\ app.panel = "none" /\ Finishes /\ UNCHANGED <<app, mapOn, looking, playing>>
  \/ /\ key = "escape" /\ app.panel # "none" /\ Redraws
     /\ app' = [app EXCEPT !.panel = "none"] /\ UNCHANGED <<mapOn, looking, playing>>
  \/ key \in {"zoom", "pan"} /\ Redraws /\ Moves(key)
  \/ key = "focus" /\ Redraws /\ Focuses
  \/ key \in {"describe", "help"} /\ Redraws /\ Panels(key)
  \/ key = "play" /\ Redraws /\ Plays
  \/ key = "markers" /\ Redraws /\ Switches(key)

\* resized: the same size again changes nothing.
Resized(to) ==
  /\ IF to = app.size THEN UNCHANGED <<app, phase>>
     ELSE app' = [app EXCEPT !.size = to] /\ phase' = "draw"
  /\ UNCHANGED <<mapOn, looking, playing, term, code>>

Worked == Redraws /\ UNCHANGED <<app, mapOn, looking, playing>>

\* Mutant: work done while a panel is up draws nothing.
AnswerToPanelled(e) ==
  \/ e[1] = "key" /\ Act(e[2])
  \/ e[1] = "size" /\ Resized(e[2])
  \/ e[1] = "worked" /\ app.panel = "none" /\ Worked
  \/ e[1] = "worked" /\ app.panel # "none" /\ UNCHANGED <<phase, term, code, app, mapOn, looking, playing>>

AnswerTo(e) ==
  \/ e[1] = "key" /\ Act(e[2])
  \/ e[1] = "size" /\ Resized(e[2])
  \/ e[1] = "worked" /\ Worked

\* One turn of the loop: an event, or the moment the map asked for. The
\* timer is set anew by what NextCall says after an event that draws nothing.
Hears ==
  /\ phase = "wait" /\ events # << >>
  /\ AnswerTo(Head(events)) /\ events' = Tail(events)
  /\ due' = (lost /\ phase' = "wait")
  /\ UNCHANGED <<mapOpen, shown, version, jobVars, sizeVars, keyVars>>

Due ==
  /\ phase = "wait" /\ due /\ Redraws /\ due' = FALSE
  /\ UNCHANGED <<mapOpen, drawVars, jobVars, events, sizeVars, keyVars>>

\* Stopped: the pump is waited for, then the map is closed. A panic waits
\* for nobody.
Ends ==
  /\ phase = "stop" /\ \A p \in Pumps : pump[p] = "done"
  /\ phase' = "over" /\ mapOpen' = FALSE
  /\ UNCHANGED <<code, term, drawVars, jobVars, due, events, sizeVars, keyVars>>

Crashes ==
  /\ phase = "panic" /\ phase' = "over" /\ mapOpen' = FALSE
  /\ UNCHANGED <<code, term, drawVars, jobVars, due, events, sizeVars, keyVars>>

-----------------------------------------------------------------------------
(* The pump.                                                               *)

Running == phase \in {"draw", "wait"}
pumpRest == <<termVars, drawVars, due, sizeVars, keyVars>>

\* Work takes a job, or finds none and the goroutine waits for the channel.
TakeJob(p) ==
  /\ pump[p] = "work" /\ mapOpen
  /\ IF jobs > 0 THEN jobs' = jobs - 1 /\ pump' = [pump EXCEPT ![p] = "busy"]
     ELSE pump' = [pump EXCEPT ![p] = "asleep"] /\ UNCHANGED jobs
  /\ UNCHANGED <<pumpRest, asked, lost, warned, wake, events>>

\* The job is done: it changed what there is to draw, or a tile failed.  It is
\* never one whose source has left, which would end the goroutine (WorkQueue,
\* GivenUp): the command names its source once, before there is any job.
JobEnds(p) ==
  /\ pump[p] = "busy" /\ pump' = [pump EXCEPT ![p] = "send"]
  /\ \/ version' = version + 1 /\ lost' = FALSE /\ UNCHANGED warned
     \/ lost' = TRUE /\ warned' = TRUE /\ UNCHANGED version
  /\ UNCHANGED <<termVars, app, shown, mapOn, looking, playing, due, sizeVars, keyVars, jobs, asked, wake, events>>

SaysSo(p) ==
  /\ pump[p] = "send" /\ Len(events) < EventRoom
  /\ events' = Append(events, <<"worked">>) /\ pump' = [pump EXCEPT ![p] = "work"]
  /\ UNCHANGED <<pumpRest, jobs, asked, lost, warned, wake>>

Wakes(p) ==
  /\ pump[p] = "asleep" /\ wake /\ wake' = FALSE /\ pump' = [pump EXCEPT ![p] = "work"]
  /\ UNCHANGED <<pumpRest, jobs, asked, lost, warned, events>>

\* The context is done, or the map closed: in Work, asleep or at the channel.
PumpEnds(p) ==
  /\ Ended /\ pump[p] \in {"work", "busy", "send", "asleep"} /\ pump' = [pump EXCEPT ![p] = "done"]
  /\ UNCHANGED <<pumpRest, jobs, asked, lost, warned, wake, events>>

-----------------------------------------------------------------------------
(* The size of the terminal, and the keys.                                 *)

\* Mutant: the signal does not wait for a watch that is busy.
SizeChangesUnheld(to) ==
  /\ phase \in {"ready", "draw", "wait"} /\ Happens /\ to # size
  /\ size' = to /\ resizes' = resizes + 1
  /\ signal' = (signal \/ (phase # "ready" /\ watcher = "idle")) /\ unseen' = (phase = "ready")
  /\ UNCHANGED <<termVars, drawVars, jobVars, due, events, written, watcher, keyVars>>

\* The signal of a change waits for the watch; a change before the watch is
\* seen by nobody.
SizeChanges(to) ==
  /\ phase \in {"ready", "draw", "wait"} /\ Happens /\ to # size
  /\ size' = to /\ resizes' = resizes + 1
  /\ signal' = (phase # "ready") /\ unseen' = (phase = "ready")
  /\ UNCHANGED <<termVars, drawVars, jobVars, due, events, written, watcher, keyVars>>

\* The watch takes the signal and then asks the terminal for its size.
TakesSignal ==
  /\ Running /\ signal /\ watcher = "idle"
  /\ signal' = FALSE /\ watcher' = "looking"
  /\ UNCHANGED <<termVars, drawVars, jobVars, due, events, written, size, resizes, unseen, keyVars>>

LooksAtSize ==
  /\ watcher = "looking" /\ watcher' = size
  /\ UNCHANGED <<termVars, drawVars, jobVars, due, events, written, size, resizes, signal, unseen, keyVars>>

SendsSize ==
  /\ watcher \in Screens /\ Len(events) < EventRoom
  /\ events' = Append(events, <<"size", watcher>>) /\ watcher' = "idle"
  /\ UNCHANGED <<termVars, drawVars, jobVars, due, written, size, resizes, signal, unseen, keyVars>>

\* readingKeys: one read, and then its keys one by one.
TerminalRead(chunk) ==
  /\ Running /\ typed = << >> /\ Happens /\ reads' = reads + 1
  /\ LET got == ReadChunk(keysHeld, chunk)
     IN typed' = got.keys /\ keysHeld' = got.held
  /\ UNCHANGED <<termVars, drawVars, jobVars, due, events, sizeVars>>

SendsKey ==
  /\ Running /\ typed # << >> /\ Len(events) < EventRoom
  /\ events' = Append(events, <<"key", Head(typed)>>) /\ typed' = Tail(typed)
  /\ UNCHANGED <<termVars, drawVars, jobVars, due, sizeVars, reads, keysHeld>>

HostInit ==
  /\ phase = "args" /\ code = -1 /\ term = "found" /\ mapOpen = FALSE
  /\ app = [places |-> 0, focus |-> -1, on |-> {"markers"}, panel |-> "none", said |-> "nothing",
            failed |-> FALSE, size |-> 0]
  /\ shown = "nothing" /\ version = 0 /\ mapOn = {"markers"} /\ looking = 0 /\ playing = "none"
  /\ jobs = 0 /\ asked = 0 /\ lost = FALSE /\ warned = FALSE /\ due = FALSE
  /\ events = << >> /\ wake = FALSE /\ pump = [p \in Pumps |-> "done"]
  /\ written = "none" /\ size = (CHOOSE c \in Screens : TRUE) /\ resizes = 0 /\ signal = FALSE
  /\ watcher = "idle" /\ unseen = FALSE
  /\ reads = 0 /\ keysHeld = << >> /\ typed = << >>

HostNext ==
  \/ \E mode \in {"headless", "describe", "maintain"} : Once(mode)
  \/ Answered
  \/ \E places \in 0..1, loop \in BOOLEAN, asks \in SizesAsked \union {"none"} :
       Interactive(places, loop, asks)
  \/ StartWatching \/ Drawn \/ DrawFails \/ Hears \/ Due \/ Ends \/ Crashes
  \/ \E p \in Pumps : TakeJob(p) \/ JobEnds(p) \/ SaysSo(p) \/ Wakes(p) \/ PumpEnds(p)
  \/ \E to \in Screens : SizeChanges(to)
  \/ TakesSignal \/ LooksAtSize \/ SendsSize
  \/ \E chunk \in Reads : TerminalRead(chunk)
  \/ SendsKey

HostSpec == HostInit /\ [][HostNext]_hostVars

-----------------------------------------------------------------------------
(* What must hold.                                                         *)

HostTypeOK ==
  /\ phase \in {"args", "ready", "draw", "wait", "stop", "panic", "over"} /\ code \in -1..2
  /\ app.focus \in -1..(app.places - 1) /\ Len(events) <= EventRoom /\ Len(keysHeld) <= MostHeld
  /\ written \in SizesAsked \union {"none"}
  /\ pump \in [Pumps -> {"work", "busy", "send", "asleep", "done"}] /\ jobs <= asked /\ asked <= MaxHappenings

\* While the loop waits, whatever would make the picture another one is told
\* of on the channel or by a goroutine about to tell: the picture waits for
\* nobody's next key.  A tile to be tried again has the timer set, and a
\* failure the person was not told of is on its way to a frame.
FrameIsDue ==
  LET coming == events # << >> \/ \E p \in Pumps : pump[p] = "send"
  IN phase = "wait" /\ ~coming =>
       /\ shown = Picture(app)
       /\ lost => due \/ jobs > 0 \/ \E p \in Pumps : pump[p] = "busy"
       /\ lost => app.failed

\* The size that was said last: the one written, until the terminal changes
\* its own.
LastSize == IF written # "none" /\ resizes = 0 THEN written ELSE size

\* The size the app draws at is the one said last, by --size or by a terminal
\* that changed since, unless that is still on its way, the newest last; only
\* a change from before the watch is missed.  That the terminal is heard over
\* --size is what the code does, and not what size.go says: WrittenSizeWins.
TheLastSizeWins ==
  LET SizeAt(i) == events[i][1] = "size"
  IN phase \in {"draw", "wait"} /\ ~unseen /\ ~signal /\ watcher = "idle" =>
       /\ \A i \in DOMAIN events :
            SizeAt(i) /\ (\A j \in DOMAIN events : SizeAt(j) => j <= i) => events[i][2] = LastSize
       /\ (\A i \in DOMAIN events : ~SizeAt(i)) => app.size = LastSize

\* terminalSize: "What the person wrote wins; then what the terminal says it
\* is".  A change of the terminal's size overrides --size: the watch asks the
\* terminal and never what was written.
WrittenSizeWins == phase \in {"draw", "wait"} /\ written # "none" => app.size = written

\* However the program ends, the terminal is as it was found and the map is
\* closed, and but for a panic no goroutine is left inside the map.
ExitIsClean ==
  /\ phase \in {"stop", "panic", "over"} => term = "found"
  /\ phase = "over" => ~mapOpen /\ (code # 2 => \A p \in Pumps : pump[p] = "done")

\* However the terminal splits what is typed into reads, the keys are those
\* of the whole of it; but a read that ends in a bare Esc is the Esc key, and
\* a sequence longer than any key's is given up.
KeysAreWhole ==
  phase = "ready" =>
    \A one, two, three \in Reads :
      LET first == ReadChunk(<< >>, one)
          second == ReadChunk(first.held, two)
          bare == \E chunk \in {one, two} : Last(chunk) = "esc"
          long == \E data \in {one, first.held \o two} : Len(ReadAll(data).left) > MostHeld
      IN bare \/ long \/ ReadAll(one \o two \o three).keys
                         = first.keys \o second.keys \o ReadChunk(second.held, three).keys
=============================================================================

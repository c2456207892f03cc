# go-tuimaps: specifications, checks and proofs

TLA+ modules beside the Go source of `go-tuimaps`, a library that draws maps in
a terminal, and of its command.  They model the parts where order, failure,
concurrency and reuse decide what the user sees; TLC checks them on small
instances and TLAPS proves some of their properties for every value of the
constants.  Everything is translated from the code under `src/`; `PROJECT.json`
names the lines each definition stands for, the hazards of the code at their
lines, and the properties that cover them.

## 1. The system

The library starts no goroutine.  A host makes a `Map` and calls it from one
goroutine (*owner calls*: `Render`, `Set`, `Source`, intents, `Close`); slow
work - fetching and decoding a tile, preparing an overlay - becomes *jobs* on a
queue, which the host's own goroutines run by calling `Map.Work` (a *pump*).  A
hook (`OnPending`) wakes the pump.

| Component | State it keeps | Operations | Talks to |
|---|---|---|---|
| Work queue (`internal/work`) | waiting entries with their wanters, view and order; flights; per map: view, closed, deferred jobs, render count | `Add`, `Keep`, `Leave`, `NewView`, `Defer`, `NoteRender`, `RunOne` (take, run, finish or give back), `Drain` | runs jobs with no lock held; calls the hook with no lock held |
| Command line (`cmd/tuimaps`) | one channel of events, a timer, the app (places, focus, switches, panel), the terminal's mode and size, held keys | one run from arguments to exit code; the loop: draw, wait, hear; pump goroutines; the key reader; the watch on the size | map, queue, terminal |
| Tile pipeline (`internal/tiles/pipeline.go`, `state.go`) | a track per tile (state, failures, not-before), the last plan's keys, source, language | `Plan`, `Draw`, `State`, setters, a job's `Run` (two critical sections around `load`) | queue, caches, source |
| Tile cache (`cache.go`) | decoded tiles, bytes, pins per map | `Put`, `First`, `Has`, `Publish`, `Withdraw`, `EmptyFetched` | shared by maps and by jobs |
| Disk cache (`disk.go`, `owner.go`) | entries, sizes, ages, generation, held and need | `Load`, `Store`, `Delete`, `Expire`, `InView`, `Empty`, `Release` | called from jobs and owner calls |
| Remote source (`remote.go`, root `tiles.go`, `internal/fetch`) | the source's description, its one reader and its waiters; a request's redirects and deadlines | describe, `Get`, zooms, `Source`, `SetFetchOptions` | jobs, the network |
| Overlay store (`internal/overlay`, `overlays.go`) | a version per overlay and its readers; prepared forms, fields and pictures, and those of a replaced version that stand in; loops' frames and readings shared between maps; the bytes, vertices and charges counted | `Set`, `Remove`, `InUse`, `Publish`, `Drawn`, the prepare job (`Read`, prepare, `keep`, `Done`), `SetImageBudget` | queue, renderer |
| Playback and clock (`playback.go`, `clock.go`, `render/motion.go`) | animation anchor, step, direction, frame ticks, the blink | `Play`, `Stop`, `Reset`, `Step`, `SetPlayback`, `SetPlaybackStep`, `ReduceMotion`, `ShowMoment`, `Animate`, `FollowClock`, `NextCall` | Render |
| Map and description (`map.go`, `view.go`, `report.go`, `describe.go`, ...) | the lock around all of these, view, bound, size, the report and its key, warnings, Changed, shut, inside | every public call | everything |
| Renderer (`internal/render`) | the last input, its rows and their sums; two canvases | `Draw`, `compose`, `emit`, strokes | overlays, tiles |
| Projection (`internal/project`) | none | placements, fitting, wrapping | view |
| Vector tile decoding (`internal/mvt`) | the tile read so far, the counts of all its layers | `Decode` | pipeline |
| Colour, styles, sun, text, archive | none, or only within one call | pure functions, parsers | - |

Behaviours that are hard, by kind (the full list with lines is `hazards` in
`PROJECT.json`):

* **Interleaving.**  A job runs between two critical sections of the queue and
  two of the pipeline.  Between them the view moves, the source or language
  changes, the job is dropped, re-wanted, given back, or its map closes.  The
  reader of a source's description may be given up while others wait for it.
* **Lost wakes.**  The hook fires after the lock is released and only on a
  none-to-some change, while pumps take tokens and find nothing.  The command
  sleeps on one channel and a timer.
* **Limits.**  The queue's cap, the cache's need over its cap, the overlay and
  image budgets, the disk cap, the limits of a tile across its layers.
* **Retries and times.**  Backoff is stamped by the owner call after the failure;
  a settle has no clock; the next call a host is told of is worked out apart
  from what it will see then.
* **Failure part way.**  A panic inside a job, a disk write that fails after
  the rename, a fetch ended by its own deadline.
* **Purge and release.**  A store racing a purge is recognised by generation.
* **Reuse.**  A frame, a row, a report, a prepared shape, a decoded picture are
  given again while a key says that nothing changed.
* **Edges.**  The antimeridian in views, boxes, rings and indexes; a stroke that
  starts far outside the canvas; an escape sequence split between two reads.

What makes each part correct:

* *Work queue*: one runner a job; nothing lost to another map's calls; no lost
  wake; nothing held for a map that left; the cap sheds what matters least.
* *Command line*: nothing that would make the picture another one waits for the
  next key; the size said last wins; a run that ends leaves the terminal as found.
* *Tile pipeline*: a tile under a source's name comes from that source; every
  failure's time is known to the host and waited for; a wanted tile is tried
  until it is settled.
* *Tile cache*: what a live view draws is never evicted; over the cap, need only.
* *Disk cache*: nothing lands after a purge or a release; nothing aged is left
  by a job; a crash leaves no part of a tile under its name; the count is what
  is there, and the cap is kept.
* *Remote source*: one reader, whose failure or cancellation strands nobody; one
  description, of which every tile is asked.
* *Overlay store*: what is drawn is never older than what was drawn; borrowed
  geometry is let go of as soon as nothing reads it; a shared reading is true for
  each loop that shares it; a cut or simplified shape is the shape.
* *Playback*: the next call is neither late nor in the past; nothing flashes
  faster than the ceiling; a loop held moves only by Play.
* *Map*: a view is within its bound and covered by its tiles; a report given
  again is the one that working it out would give; what landed is told of.
* *Renderer*: a frame is a function of its input, whatever is reused; no word
  is cut by another, and of the labels kept the host is told of each that is left out
  (section 5 names the exceptions); a cell shows the ink last forced in it.
* *Vector tiles*: decoded whole or refused, within what was counted.

## 2. Modules

| Module | Models | Proofs | Instances for TLC |
|---|---|---|---|
| `WorkQueue` | `internal/work` whole, and the pump around it; implements `WorkPromise`, what the queue promises (demands and runs, without a queue) | `WorkQueueProofs` | `MCWorkQueue` |
| `TilePipeline` | `internal/tiles/pipeline.go` and `state.go`, with the queue and `Map.note` as its member sees them | `TilePipelineProofs` | `MCTilePipeline` |
| `TileCache` | `internal/tiles/cache.go` whole | `MapPartsProofs` | `MCTileCache`, in `MCMapParts` |
| `DiskCache` | `internal/tiles/disk.go`, the jobs and owner calls around it, faults, crashes | `DiskCacheProofs` | `MCDiskCache` |
| `RemoteSource` | `internal/tiles/remote.go`, `internal/fetch`'s requests, the calls that name a source | `ReadOnceProofs` | `MCRemoteSource` |
| `OverlayStore` | `internal/overlay`'s store, and `overlays.go`, `note` and the renderer's reuse of a frame around it | `OverlayStoreProofs` | `MCOverlayStore` |
| `LoopPictures` | loops: what a picture is read as, the readings shared by maps, the frames kept over a refresh, the picture of a moment, budgets | `ReadOnceProofs` | `MCLoopPictures`, in `MCDrawParts` |
| `ShapeGeometry` | rings: refused, cut at the antimeridian, simplified, indexed, drawn from memory | `OverlayStoreProofs` | `MCShapeGeometry`, in `MCDrawParts` |
| `Playback` | `playback.go`, `clock.go`, `render/motion.go` | `PlaybackProofs` | `MCPlayback` |
| `MapView` | `view.go`, the size in `map.go`, `internal/project`'s placing and fitting | `MapPartsProofs` | `MCMapView`, in `MCMapParts` |
| `MapReport` | `report.go`, `describe.go`'s key and memo, warnings, looks, the source's options, `work.go`'s landing | `MapPartsProofs` | `MCMapReport`, in `MCMapParts` |
| `HostLoop` | `cmd/tuimaps`: a run, and the interactive loop | `MapPartsProofs` | `MCHostLoop`, in `MCMapParts` |
| `VectorTile` | `internal/mvt`'s decoder | `TilePipelineProofs` | `MCVectorTile`, in `MCDrawParts` |
| `FrameDraw` | `internal/render/frame.go`, the words of `basemap.go` and `marker.go` | `ReadOnceProofs` | `MCFrameDraw`, in `MCDrawParts` |
| `Canvas` | `internal/render/canvas.go`, `raster.go`, the strokes of `basemap.go` and `marker.go` | `ReadOnceProofs` | `MCCanvas`, in `MCDrawParts` |

A proof module extends its model and the library's theorems.  Some hold proofs
about models that share no state: `MapPartsProofs` about four that `MapParts`
checks side by side, `ReadOnceProofs` about four, `OverlayStoreProofs` and
`TilePipelineProofs` about two each, the store and its shapes, the pipeline and what
it decodes.  All of these, `DiskCacheProofs` and `PlaybackProofs` extend `FoldTheorems`, which is about
sums, folds and whole numbers and about no model.
In every module a definition under a comment that begins with "Mutant" is a
defect a change of the code might bring; no specification uses it.

### WorkQueue

State: `waiting` is `Queue.entries`, `flying` is `Queue.flights` (a flight keeps
the entry it took and whether it was dropped), `seq` the order counter, `view`,
`closed`, `later`, `idle` and `warned` are the fields of each `Member`.  A
goroutine has a place (`pc`), the job inside its `Work` call and the hooks it has
still to call; a host has the tokens of its wake channel.

One action stands for one hold of the queue's lock: `Add`, `Keep`, `Leave`,
`NewView`, `Defer`, `NoteRender` for the owner; take (`Work` up to the unlock),
finish (after the job ran: end, drop, or give back if the context ended while it
ran), sleeping, waking on a token and stopping for a goroutine.  A hook is called
with no lock held, so it is a step after the one that found it due.  `Settle` is
a worker that ends when it finds nothing.  What a job computes, its error and the
texts are not there: the queue does the same with a job that succeeded, failed or
panicked.  But one failure is told apart: a job may return the cancelled kind with
the context of its `Work` open, as a load does whose source has left, and then the
goroutine that ran it is `"stopped"` (`GivenUp`), or its settle over.

### TilePipeline

State: `state`, `failures`, `wait` are a track's; `planned` is the last plan's
keys, `pins` what it published to the cache; `cache` the tiles on hand, each with
the source and language it was really made with (history); `waiting`, `flying`,
`dropped`, `later` the queue as its one member sees it.  `wait` and `later` hold
what is left of a time, and `Tick` lets time pass, so no clock grows without end;
`Epoch` is a time stamped by a settle, which has no clock.

`Map.note` is three kinds of step - plan, keep, then one add per job and the
deferred ones - because each is a call to the pipeline or the queue that lets
jobs in between.  A job's `Run` is `Start` (first critical section), `Load` (no
lock), `Land` (second), and `Finish` the queue's.  Queue order is not in this
module: `Take` takes any waiting job.

### TileCache

State: `items`, `bytes`, `held`, `over`, `warning` are the cache's; `older` is
the read order (a relation, so that no stamp grows); `views` and `chains` are the
registered pin sets.  Every operation holds the lock throughout and is one
action, settling included.

### DiskCache

State: `files` is what each directory holds, the temporary files of unfinished
stores among it; the rest is the open `Disk` (`gen`, `held`, `due`, `dueKnown`,
`inView`, `serial`), the owner's settings, and the job a goroutine is in.  `disk`
numbers the Disks a process opened, so that a job still inside knows the one it
began with: it is let go if the map holds another, or none.

Each method of `Disk` is one action; a job is `Begin`, `ReadGeneration`,
`JobExpires`, `Load`, `Delete`, `Fetch` and one of `Store`, `StoreRefused`,
`StoreBlocked`, `StoreFails`.  `CacheRoot` is two steps, since the old Disk is in
use while the new root is counted; `SetCacheMaxAge` is two calls.  `StoreFails`
and `Crash` leave any state the sequence of file operations in `writeLocked`
passes through (`Leftovers`).  Two abstractions: a job that begins between
`Release` and `SetDisk` is a job without a cache and is not followed; and a file
that cannot be opened for reading, which is fetched again and stays, is not a
case of its own.

### RemoteSource

State: a remote is a number, one for each call that made one (`made`); `remote`
is the one in use, `kept` and `reading` what each has read and whether a claimed
read is in flight (the channel of the code).  A job has its place in `Get` (`at`),
the remote it began with (`of`), how many readers it waited for (`turn`), whether
its read is the claimed one, and its request: redirects followed, how its context
ended, what came.  `last` is how the last `Get` came back (history).

`Begin` is the pipeline's call; `ClaimTold`, `ClaimWait`, `ClaimRead` are the
three ways out of `claim`, each one hold of the lock; `Wake` and `GiveUpWaiting`
the two ways out of the wait; a job that waited for two readers reads for itself
(`ReadUnclaimed`).  The answer and the end of a claimed read are one action
(`ReadAnswers`, `ReadFails`), as they are under one hold.  The transport answers,
fails or redirects; a request's own deadline (`TooLate`) and the job's context
(`EndContext`) end it at any moment.  `Panic`, a transport that panics, is only in
`PanicSpec`.

### OverlayStore

State: `made` lists every version ever handed in, so a version is a number and
"older" is "less"; `readers`, `retired` and `retiring` are the holds of the
store, `current` and `order` the overlays set.  `prepared`, `stand`, `fields`,
`pictures`, `spare` and `standPics` are the store's maps, holding the version a
thing was made from where the code holds the thing.  `used` is the order of use
that the code keeps as a clock.  `freed` is history: the versions the host was
told it may write over, by the result of `Set` or `Remove`, by `InUse`, or by
`Close` answering that no call is inside.  `moved` says that the overlays'
version differs from that of the frame held: the code compares sums of counters
that only grow, which the module need not count.

Each of the host's calls is one action.  `Render` is five, between which jobs
run: `RenderNotes` (the queue keeps what is wanted, the shape cache is told the
bucket and settles), `RenderAsks` (what is not on hand), `RenderAdds` (the jobs
for it, joining what flies already), `RenderPicks` (what `draw` chooses for each
overlay) and `RenderDraws` (the version, and the frame kept or drawn).  Within
`RenderAsks`, `RenderAdds` and `RenderPicks` the code goes overlay by overlay and
a job may land between two of them; the module takes them at one moment.  A job
is `Take`, `Begin` (the hold), one of `ReadNothing`, `KeepRetired`,
`keepPictures`, `keepField`, `keep`, then `Done`.  Queue order and the limit are
`WorkQueue`'s: here any waiting job is taken, and `Shed` drops any.

Data: a shape is its vertices and the bytes of its form at each bucket, an image
or grid its charge on the budget; a loop's frames are decoded together.

### LoopPictures

A version of `OverlayStore` has frames here, each with a time and a file; a job
reads them one by one, so a refresh, a second map's job and a purge come between
two frames.  `landedPics`, `spares` and `stands` are what a loop shows, what a
refresh may take over and what stands in; `readings` and `sharedHeld` are the
readings two maps share and their count; `told` is a map's warnings, `budget`
what its images may hold.  `ReadLoop` begins a job, `LookForFrame` takes a spare
frame or a shared reading, `DecodeFrame` decodes, `ReadLoopFails` and `LandLoop`
end it.  A file is its row of colours, a colour a number; a reading is the class
of each, by table, gradient or nearest colour within a tolerance.

### ShapeGeometry

The machine is one ring: the host adds positions, hands it in as a line or an
area, and it is then prepared at a tolerance or drawn from memory in a view
(`ready`, `how`).  The work is in the operators: `unwrap`, `dedupe`, `clip`,
`Split` (the antimeridian), `Simplify` with the steps it may spend, `Starts` and
`BoxOfRun` (the index), `borrowRun` and `Borrow`.  Longitudes are whole steps,
latitudes quarters so that a cut is exact; of the projection only that it rises,
falls and never turns back is used.

### Playback

State, by the code's names: `playback`'s fields, `Motion`'s, and `driven` and
`animation` of the map.  Each public call is an action; `Render` gives the frame
the time (`Give`) and aligns the blink (`Aligns`).  `Tick` is the host's clock.
`lit`, `anew`, `current`, `stepped` are history for the properties.  `changed` and
`ticks` only ever matter by whether they moved, so each is one bit.

### MapView

State: `view` (a position in units of the projected world, a whole zoom, columns
and rows), `bound`, `sized`, `placed`, `shutView`, `changedView`.  Every call that
moves the view is an action built on `Move`, which holds the bound and counts the
change; `Resize` is the part of `Render` that meets a new size, with the fall back
to the whole world before anything was placed.  `Framed` is `FitTo`: the shortest
arc that covers points and boxes, and the deepest zoom that shows it with a margin.
`Placements` gives the tiles of a view, from the one under its first dot to the one
under its last, each with the copy of the world it is in; a view that would take
more than `MostTiles` is given none, as the code refuses to draw it.
`fitted` is history.

### MapReport

State: what an answer is made of (`overlay`, `places`, `units`, `nearby`,
`viewNow`, `decoded`), its memo (`reported`, `reportedKey`, `areas`), the clock it
is judged by, the warnings (`own`), the look, the source with its options, and
the landing of work (`landed`, `before`, `untold`).  `Report` is two steps,
`ReportBegins` and `ReportEnds`: it holds the map's lock, but jobs land inside it,
and the key is read after the answer is made.  Every public setter is an action;
`Work`, `Land` and `NoteLanded` are the three moments of a `Work` call as the map
sees them: it reads the count, the job lands, it compares.  What an answer says
in words is not there: it is the set of things it is made of.

### HostLoop

State: `phase` of the run, `term` and `mapOpen` what it holds; `app`, by its own
names, and `shown`, `version`, `mapOn`, `looking`, `playing`: what the screen
shows and what the library has; `jobs`, `lost`, `warned`, `wake`, `pump`: the work
as the loop sees it; `events` and `due`, the channel and the timer; the size with
its signal and watch; the reads of the terminal and what a sequence cut short
leaves held.  `Once` is a run that draws or says one thing and ends, `Interactive`
one that takes the terminal, `Drawn`, `Hears`, `Due`, `Ends` and `Crashes` the
loop's turn; the goroutines have steps of their own (`TakeJob`, `JobEnds`,
`SaysSo`, `Wakes`, `PumpEnds`; `TakesSignal`, `LooksAtSize`, `SendsSize`;
`TerminalRead`, `SendsKey`).  A key is its name; a byte is the name of what it
stands for.  `written` is the size that `--size` gave, or none.  A job never ends a
pump here as `GivenUp` does in `WorkQueue`: the command names its source once, before
the first job.

### VectorTile

State: the layers and features left, the tile kept so far, the two counts that
run across layers, and how the decoding ended.  `DecodeLayer` is the counting
pass and the header, `DecodeFeature` runs one feature's commands, groups rings and
counts, `LayerRead` ends a layer.  A message is its fields, a geometry a sequence
of commands whose points may be fewer than its count; a pair of integers is one
point.

### FrameDraw

State: the input to come, the last input and its rows with their sums, and
whether the frame held is drawn.  `Draw` is the renderer's whole call (`Unchanged`,
`Composed`, `Emitted`, the rows reused), `DrawFails` a tile, an overlay or a
mark that cannot be painted,
`Tweak` a change of the input, with the versions the callers raise.  A frame is a
set of claims on cells; `Composed` is the contest for text in the code's order:
furniture, markers and places, alerts, digits, names, values.  Of each kind the
painter keeps `MaxLabels` at most (`Kept`); of the host's overlays, those that are
no alert are taken to come first in its list, which is the worst for the alerts.

### Canvas

State: two canvases, of lines and of areas, each with its dots and inks, and the
ink last forced in every cell (history).  A stroke is one action: `DrawStreet`,
`FillArea`, `DrawOutline`, `DrawMarker`; `NextFrame` wipes.  `thin`, `thick`,
`ClipLine`, `Fill`, `circlePoints` are the code's loops in integers and fractions.

### How they meet

`WorkQueue` knows nothing of what a job does; `TilePipeline` and `OverlayStore`
have the queue as their member sees it, any waiting job taken next, since the
order is `WorkQueue`'s.  `RemoteSource` is the inside of `TilePipeline`'s `Load`:
a load fails, is cancelled or brings a tile of the source it was made with.
`LoopPictures` and `ShapeGeometry` are the inside of `OverlayStore`'s
preparations.  `MapReport` and `HostLoop` see jobs as landings.  `Playback`'s
`Shown` is the moment of `LoopPictures`, and of `FrameDraw`'s input.

## 3. Runs

The runs of `OverlayStore` check for deadlock; the other cfgs set
`CHECK_DEADLOCK FALSE`, since those systems may stop: a map closes, its pump ends,
a tile is decoded, a bound of the instance is reached.

| Run | Instance | Shows |
|---|---|---|
| `WorkQueueSafe` | a map with a pump of two goroutines shares a queue of length one with a map that has none; two jobs newly queued, one view move | `EveryJobIsAccounted`, `WholePumpWakes`, `BasemapGoesLast` |
| `WorkQueueLive` | a map with a pump of one goroutine and a map whose host settles once | `KeepsPromise` (refinement of `WorkPromise`), `NothingWaitsForEver` |
| `Tiles` | one tile, one goroutine, two sources and none, two languages, two failures in a row; any two upsets | `LoadsLandWhereAsked`, `NextCallKnowsEveryRetry`, `NothingEndsEarly` |
| `TilesLive` | a tile and its ancestor, view moves without end, failures | `WantedIsTried` |
| `Disk` | two tiles that do not both fit, views of one and of both, two directories, one goroutine; any three upsets | `DiskIsAsCounted`, `NothingForgottenStays`, `StoresHoldTheCap` |
| `Remote` | two jobs of one source, a document or a directory, two documents it may be answered with, a redirect; five calls | `WaitersHaveAReader`, `AnswersAreTrue`, `EveryJobEnds` |
| `Overlays` | one overlay handed in three times, as shapes and loops, two jobs | `MemoryIsGivenBack`, `KeptIsCurrent`, `FramesOnlyImprove` |
| `OverlaysPair` | two overlays over the cap together or alone, a grid, a loop that does not decode; one job, called off or shed | `ShapeCacheIsTrue` |
| `Playback` | two loops - a past, a newer one with a gap and a forecast -, a step faster than the ceiling, at it, and the default; four units of time, three calls between Renders | `ToldTimesAreTrue`, `FlashesKeepTheCeiling`, `NothingPlaysByItself`, `MovesAreTold` |
| `MapParts` | *cache*: two maps, four places, a cap of three. *view*: a world of sixteen units, four zooms, three sizes, five tiles a view at most, places either side of the antimeridian and Greenwich, a bound over each, five calls. *report*: one overlay offered as three, one place, two workers, two sources and options, three changes. *host*: two goroutines, a channel of one, six kinds of read, two sizes, three happenings | `DrawnNeverWorse`, `OnlyNeedIsOverCap`; `ViewIsAsAsked`; `KeptReportIsFresh`, `LandingIsTold`; `FrameIsDue`, `TheLastSizeWins`, `KeysAreWhole` |
| `DrawParts` | *tile*: one or two layers of up to two features, every command in and out of place, three sets of limits. *frame*: eight cells by five with everything that claims text, two changes of input. *loops*: two maps sharing readings, five offers, two goroutines, two hand-ins. *shapes*: every ring of up to four positions on a world of four steps. *canvas*: two cells, lines from beyond every margin, areas with and without a hole, every marker, two strokes | `DecodedIsWhole`; `FrameIsItsInputs`, `WordsAreWholeOrTold`; `SharedReadingsAreTrue`, `LoopsHoldTheMoment`; `PreparedKeepsTheShape`, `IndexOnlyCulls`; `CellsShowTheirInk`, `StrokesAreWhole` |
| `ShapeIndex` | the shapes of `DrawParts` | violation of `IndexAlwaysOnlyCulls`, section 5 |

`MapParts` and `DrawParts` each put parts side by side that share no variable.  A
variable `part` says which of them a behaviour is of; the others stand at their
start.  The states add up and do not multiply, and every part is explored as in a
run of its own.

Some properties are the conjunction of parts that say one thing together:

* `EveryJobIsAccounted`: `NeverTwice` (a job is queued once or flies once),
  `FlightsAreRuns` (a flight is one call inside `Work`), `WantedByOpenMaps`.
* `NothingWaitsForEver`: `WaitingWorkIsTaken`, `SettleEnds`.
* `LoadsLandWhereAsked`: `LoadingIsInsideRun` (a track loads only while its job
  runs), `CachedFromItsSource`.
* `NothingEndsEarly`: `PumpEndsWhenCalledOff`, `RetryWaitsItsTime`.
* `DiskIsAsCounted`: `HeldIsWhatIsThere`, `NamedFilesAreWhole`.
* `NothingForgottenStays`: `NothingLandsLate` (after a purge or a release),
  `EveryJobDropsTheAged`.
* `MemoryIsGivenBack`: `NothingReadIsFree`, `InUseIsExact`.
* `FramesOnlyImprove`: `NeverGoesBack`, `HandedInAgainStaysDrawn`.
* `ShapeCacheIsTrue`: `HeldIsWhatIsThere`, `SpareGivesWay`.
* `AnswersAreTrue`: `TilesFollowTheKept`, `CancelIsOnesOwn`.
* `ToldTimesAreTrue`: `NoAdvanceIsMissed` (a host that sleeps until `NextCall`
  misses no change), `StampNamesTheMoment`.
* `FlashesKeepTheCeiling`: `ChangesKeepTheCeiling`, `BlinksOnTheGrid`.
* `MovesAreTold`: `TicksCountAdvances`, `ChangedTellsOfMoves`, `HoldsWhereItIs`.
* `ViewIsAsAsked`: `ViewKeepsTheBound`, `TilesCoverTheView`, `FittedHoldsPlaces`.
* `DecodedIsWhole`: `SlabsAreEnough`, `EveryPartHasOneFeature`,
  `LimitsHoldAcrossLayers`.
* `SharedReadingsAreTrue`: `PicturesAreTheirReading`, `SharedCountsItself`.
* `PreparedKeepsTheShape`: `CutKeepsTheArea`, `DroppedIsNear`.
* `StrokesAreWhole`: `LinesArrive`, `FillIsTheInside`, `RingsAreWhole`.

Bounds, and why they are enough:

* `MaxSeq` bounds jobs newly queued.  The queue tells two jobs apart by kind and
  order only, so two queued jobs meet every pairing: shared and not, in flight
  and waiting, shed and kept.  `MaxView` 1 makes one view stale.
* `Rendering` names the maps whose view moves, renders and deferred jobs are
  followed.  The other maps still add, keep, leave and share.
* An *upset* is what comes at any moment unasked: a view move, another source or
  language, a purge, a context ended, an eviction; for the disk another root or
  age, a purge, a crash, a fault.  `MaxUpsets` bounds them, since everything
  between two upsets is the module's own and explored in full.  Two in `Tiles`
  make every source change that is undone, every change of source under a change
  of language, every purge under a move.  Three in `Disk` are needed to open a
  root, crash inside a store, and open it again over what was left.  0 is no
  bound (`TilesLive`, whose fairness needs endless moves).
* `MaxFailures` is where the wait reaches `LastRetry` (an assumption says so), so
  no longer row differs.  `MaxTime` 2 in `Disk` gives a clock that moves, or goes
  back, by one maximum age.  `MaxSerial` 2 lets a Disk store twice, over itself or
  beside.
* `TilesLive` uses a queue of length two for its two tiles.  With length one the
  module sheds *any* of two jobs at the cap, where the queue's order would not
  shed the same one for ever (that order is `WorkQueue`'s).
* `MaxSets` bounds hand-ins.  Three of one overlay make a version retired while
  read, its successor retired while read by the other job, and a third set: every
  order of two readers and two retirements.  Two in `OverlaysPair` fill the cache
  with two overlays or replace one; there the questions are of counts and
  eviction, which need two forms of different sizes and not three versions.
* The two buckets of `OverlayStore` are one in view and one not, which is all
  that `Nearest` and the eviction tell apart with one view; `ShapeBytes` 4 holds
  the coarse form of each offer, the fine form of one, and none of `Large`.
* `MaxCalls` 5 in `Remote` lets a job wait for two readers of another and then
  read for itself while a third read is claimed.  `MaxRemotes` 1: a remote shares
  nothing with the next but the jobs that come from it, each of which keeps the
  one it began with; what two remotes do to one another is in the proofs, which
  hold for any number.
* `Playback`: `MaxTime` 4 passes every frame of both loops, their hold and the
  alert's hour; `NoAdvanceIsMissed` and `ChangesKeepTheCeiling` look a whole loop
  and blink ahead of every state, so time itself need not run on.  Three calls
  make any two of them meet across a third.
* In `MapParts`, `MaxMoves` 5 sets a size, a bound and a view, and moves it twice.
  `MaxCalls` 3 lets any two changes meet between two reports of a map with an
  overlay; one place makes one measure, so the measures' own limit (`MaxMeasures`)
  is not met, which only drops what is kept.  `EventRoom` 1 makes every send wait
  that ever can; the six reads split an escape sequence at each of its places.
  `SizesAsked` is the size the terminal does not begin with.  `AheadAllowed` 0 makes
  data dated one unit ahead uncertain.
* In `DrawParts` the data is small and the instances are lists: every geometry
  command in and out of place, every claim to text, every octant and radius.  The
  `MaxLabels` 3 is passed by an input of four markers and one of four alerts.  The
  three limits of a tile are one that is not met, one met by layers, and one by
  features, integers and bytes.  Rings of four positions on a world of four steps
  cross the antimeridian never, once and twice, and lie on it.

Symmetry is used for goroutines, maps, directories, loops and inks that no
definition tells apart, and never in a run that checks liveness.

Fairness.  `WorkQueue`: a goroutine of the host that can go on does, and an owner
call that is to call its hook does - they are ordinary goroutines with nothing
to wait for, and hooks must return by contract.  `TilePipeline`: the same, and
the host renders again and again, time passes and fetches end (they have time
limits); each waiting job is taken in the end (strong fairness of `Take`),
because the queue gives out the oldest of one view's jobs first, which is
`WorkQueue`'s order.  `RemoteSource`: a job inside `Get` that can go on does, and
a request ends, by its answer or its deadline (`TooLate` needs no fairness, since
`Fail` is what a transport does then); the host need not end a context.  No
fairness is assumed of upsets, failures or cancels.

## 4. Proofs

All for any number of maps, goroutines, jobs, tiles, overlays and directories, any
caps and any bounds; the assumptions are the `ASSUME` of each module, which TLC
evaluates in every run.  Four theorems assume besides what a host or an
environment does, and say so in their statement: `~Panics` (no load panics),
`~Reopens` (the host does not name again the root it holds) and `PumpIsWide` (a
host's wake channel has a place for each goroutine of its pump).  Section 5 tells
what happens without them.

Of the assumptions a reader may ask about: what is counted is finite (`Workers`,
`LoopIds`, a loop's frames) because it is the goroutines, a map or a slice of the
program; a frame's time is not zero because `internal/overlay/image.go` refuses
it; half a blink is no shorter than the ceiling's step because both are constants
of the code, of 400 milliseconds; the time a frame shows changes only with the moment
or the overlays, or is taken off, as `Input.FrameTime` in `internal/render/frame.go`
says; the values that stand for "nothing" (`None`, `NoJob`, the watch's `"idle"`) are
none of the values they stand beside; two things that ask for text have ids of
their own, so that a label is told from another (`FrameAssumption`); a body, once
its fields are read, has layers of features of numbers (`TileAssumption`).

### WorkQueueProofs

`QueueTypes`, `WorkIsHeldOnce`, `EveryRunIsRecorded` and `WorkIsWanted` prove
`TypeOK`, `NeverTwice`, `FlightsAreRuns` and `WantedByOpenMaps`, and
`JobsAreAccounted` the last three together (`EveryJobIsAccounted`).  The first
three are inductive only together: that a job flies once needs the flights to be
the runs, and that a finish finds its flight needs that nothing else removed it,
which is that a job has one place.  Consequence: the two "defect" branches of the
package are dead code.

`NoWakeIsLost` proves `WholePumpWakes`: a sleeper's token is owed by a hook that
is due, and a hook is owed by the one who found it (`FiresWhileFiring`); each send
either adds a token or finds the channel full, and a full channel has a token for
each sleeper only if it is as wide as the pump.

`QueueKeepsPromise` proves `KeepsPromise`, the refinement: the initial state maps
to one of `WorkPromise`, and every step to a step or a stutter (`PromiseStep`).
Each step of the queue has its lemma that says what demand it makes or lets go:
`AddAsks`, `ReleaseLetsGo`, `TakeBegins`, `FinishEnds`, `GiveBackAbandons`.  The
cap is where it could fail: what is shed on an `Add` is one demand, and is let go
by name.  `ShownTilesGoLast` proves `BasemapGoesLast` from the rank that shedding
goes by.

### TilePipelineProofs

From the queue's side it needs `PipeInv`: goroutines inside `Work` hold different
jobs, each in flight and none waiting.  `TilesAreOfTheirSource` proves
`CachedFromItsSource`; the invariant adds the tile a goroutine is about to put on
hand, whose source was compared when the load began and is carried with it.
`LoadsLand` proves `LoadsLandWhereAsked` while no load panics (a load that does
leaves its track loading for ever: section 5).

`RetriesAreKnown` proves `NextCallKnowsEveryRetry`.  While an owner call is
between its plan and its `Defer`, the times of the failed tiles are known to
nobody but the call, so the invariant has two sides (`RetryInv`): known to the
queue, or held by the call.  `WaitInv` ties the time left to the backoff of the
failures counted, so that a retry waits what its failures call for.
`NothingEnds` proves `NothingEndsEarly`: a load is given up only where its
context ended, its queue dropped it or its source left (`GivenInv`), and a waiting
track is queued only when its time is up.

Of `VectorTile`, `TilesDecodeWhole` proves `DecodedIsWhole`, for any bodies, layers
and limits, and `TileTypes` its type invariant.  There are three arguments.  *The
pen*: whatever commands come, in and out of place, the parts cut so far cut the
coordinates into pieces that follow each other, and a polygon's last point is its
first (`Drawing`, kept by every move, line and close, `CommandDraws`); a run of
commands is a fold, and keeps it by an induction over its steps.  *The room*: what a
command draws is no more than what the counting pass set aside for it, a feature's
no more than the sum of its commands', so that a layer read up to feature `k` fits
the room of the first `k` (`Reading`, `FeatureHasRoom`, `FeatureIsRead`) - although
the two passes stop at different places, a command out of place being counted and
never drawn.  *The grouping*: features made of rings are numbered by a rank, and
each rank is some ring's (`PlacesAreTaken`), so each part of the layer has one
feature and the features follow each other (`RingsAreGrouped`, `ChainsJoin`).  The
limits that run across layers are sums over the layers kept, the one being read
among them (`TileInv`).

### MapPartsProofs

*The tile cache.*  `DrawnStays` proves `DrawnNeverWorse`.  Settling keeps the
first place on hand of every chain it is given (`SettlingKeepsNeed`), because need
is made of exactly those; the rest is that each operation settles with the chains
of every live view.  `NeedAloneIsOver` proves `OnlyNeedIsOverCap`: a settling
drops the oldest it can spare until the bytes left fit, and it stops only where
they do or where nothing is left to spare.  That is about the bytes counted, so
that the invariant (`CacheInv`) is also that these are the bytes kept - a sum that
each operation updates by what it puts and what it drops - and that the order of
use is total on what is kept, or else some tile would never be the oldest.
`CacheIsTyped` is the type invariant, `WarningsAreOneAStretch` that a stretch of
need over the cap is told of at most once.

*The report.*  `LandingsAreTold` proves `LandingIsTold`.  It is not inductive
alone: a call that ends telling of nothing must not have been the one that would
have told, so what each call read is kept no later than what has landed, and the
call still to tell is another than the one that ends.  `OptionsAreTheSources`
proves `SourceHasTheOptions`, with the invariant that a map without a source has
no fetcher.  `KeptReportsServe` proves `KeptReportIsFresh`: a report that the key
lets serve again says what working it out would.  The invariant (`ReportInv`)
says what is true of a kept report whether or not its key matches now - it is of
the overlays and units there are, because every call that changes one forgets it;
of the clock at some earlier time, whose part in the key is the daylight there
was then; and of the pictures unless more have landed - and the same of the
report being worked out.

*The loop.*  `PictureIsCurrent` proves `FrameIsDue`.  An event on the channel
excuses the loop, but an event that draws nothing may be all there is, so the
invariant (`FrameInv`) excuses it only while the work done is still to be told of
(`Untold`), and says besides that a failure is heard with the frame the work
brings.  `LeavesNothingBehind` proves `ExitIsClean`: however a run ends, the
terminal is as found, the map is closed and, but for a panic, no goroutine is left
inside.  `AppHasTheLastSize` proves `TheLastSizeWins`: a size on its way is with
the watch, on the channel behind older ones, or with the app, and the newest of
them is the one said last unless a signal is out (`SizeInv`): the one `--size` gave
until the terminal changes its own, and the terminal's from then on.

*The keys.*  `ReadsAreWhole` proves `KeysAreWhole`, for reads of any bytes.  A key
that has all its bytes stays what it is whatever comes after them (`KeyStays`),
but for a bare Esc, which is a key because nothing follows it; so bytes that do
not end in one can be read first, and what they leave with what comes after
(`ReadsJoin`).  The reader is a recursive function, and the induction is over the
places of the bytes, from the last one back (`ReadersAre`, `ReadAllSteps`).

*The view.*  `ViewAsAsked` proves `ViewIsAsAsked`.  A view spans a whole number of
dots, and the world is a whole number of tiles (`WorldIsWhole`); so a dot is in one
tile of a row only, and that one is placed (`DotIsPlaced`, `ViewIsCovered`).  A centre kept within a span holds the view in it
or on its middle (`WithinHolds`), wherever it looked before, so that bounding any
view gives one that keeps the bound (`BoundedIs`), and every call but the framing
ends with a bounding.  A cover of places is the circle less the widest gap between
neighbours (`CoverIs`): it reaches every place from its western end
(`PointsAreCovered`), which is why the frame shows them (`FitHolds`), and no view
that shows them spans less, since it would leave out a wider gap (`FitIsTight`).
The invariant (`ViewInv`) keeps that a view with no bound set is still the one that
framed what was last fitted (`Frames`).  Zooms halve and double what a dot spans:
all that is used of powers of two is `PowerDoubles` and `PowersSplit`.

### FoldTheorems and DiskCacheProofs

A sum over a set is taken one element after the other in an order the library
leaves open.  `FoldTheorems` proves that it is a number and grows by what is added
(`SumWith`), whatever the order.  It proves of a sequence folded from the left that
there is a chain of states from the first to the result, each the step of the one
before (`FoldSteps`), with which a fold is reasoned about one step after the other
(`OneByOne`); the step is a parameter of the module, which each proof gives by
`INSTANCE`.  And it proves that in a finite strict order each place from the first to the
last is somebody's (`PlacesAreTaken`).  Of whole numbers it proves that a bounded
set has a least and a greatest (`LeastBetween`, `GreatestBetween`), that a power
of two is twice the one before and the product of two others (`PowerDoubles`,
`PowersSplit`), and what a quotient and its rest are (`QuotientAndRest`,
`OneQuotient`, `TurnsAway`), which the views and the playback need.  Each induction is over the finite subsets of
a set, as the absence of a least counterexample, because the induction theorems of
the library cannot be instantiated by the provers.

`NoLateWrites` proves `NothingLandsLate`: a stale job's Disk is not the map's, or
has a generation above the one the job read (`LateInv`).  `NoAgedFiles` proves
`EveryJobDropsTheAged`: where `due` is known it is no later than any file's age
(`DueInv`), through walks, stores with older clocks and files dated by the system;
a job that is spared the walk then has nothing to remove.  `ForgottenIsGone` is
both, `NothingForgottenStays`.  Both hold over faults and crashes; the second, as
the property says, until the file system first fails.

`DiskIsCounted` proves `DiskIsAsCounted` and `StoresKeepTheCap` proves
`StoresHoldTheCap`, for a host that does not name again the root it holds.  The
count is kept by adding and taking away and never by counting again, so it is
right only if every writer is seen: no job writes to a root between its count and
its use, since a job has the old Disk's root, which is another (`CountInv`).
After a fault the count may be anything, and the properties say so.

### OverlayStoreProofs

`HostMayWrite` proves `NothingReadIsFree` and `InUseCounts` proves `InUseIsExact`,
from one invariant (`IInv`): `readers` of a version is the number of jobs that
hold it, `retiring` of an id the number that hold its retired versions, a version
is retired or it is the one set, and what is free is retired.  The first two are
needed together: a retirement moves a version's readers from one count to the
other, which is right only if the set of those who hold it is disjoint from those
who hold older ones (`Retires`, `CountApart`), and a `Done` takes one off both.
`InUse` answering no then means that no job holds any retired version of the id,
and `Close` answering zero that no job holds anything.  `MemoryComesBack` is both,
`MemoryIsGivenBack`.

`KeptStaysCurrent` proves `KeptIsCurrent`: what is kept as prepared is of the
version set, what stands in is of an older one of the same overlay.  A job lands
long after it read its version, so the invariant (`KeptInv`) also says what the
job knows (the id of what it holds), and that every replacement moves what was
prepared to where the older things are.  `FramesGoForward` proves
`FramesOnlyImprove`: a frame shows no older version than the frame before it.  Of
a version drawn it must hold that nothing which may be drawn later is older
(`NotAfter`), also of what was picked for a frame not drawn yet
(`FramesInOrder`), since a replacement may come between the two.

`ShapesAreCounted` proves `ShapeCacheIsTrue`, which is inductive as it stands, given
the two invariants above.  Its counts are kept by adding and taking away through
replacements, stand-ins and removals, so each step is an equation between sums
over the forms of one overlay and those of the others (`PartSplits`, `PartWith`,
`PartWithout`, `CornersCount`); that a stand-in and its replacement are never both
counted is `standInLocked` and `keep` seen together.  A settling is stated by what
it sheds (`IsShed`): the forms used longest ago, until the rest fits or is need
alone (`SettlingCounts`).

Of `ShapeGeometry`, `CullingLosesNothing` proves `IndexOnlyCulls`, of any ring on the
globe and any view inside the world: a run that the index leaves out draws nothing.
A step that is seen lies in the box of its run, since the box is the least and the
greatest of its longitudes and latitudes (`BoxHolds`); such a view is drawn with one
shift of the world and its corners keep their order on it (`SeenInside`), so that
box and view meet (`SeenRunsMeet`), also where a step crosses the view with both ends
outside (`AcrossMeets`).  That the view is inside is the property's one hypothesis,
and section 5 shows what happens outside.

### ReadOnceProofs

Of `RemoteSource`, `OneReader` proves `WaitersHaveAReader`, `TrueAnswers` proves `AnswersAreTrue`,
`FirstAnswer` that a description kept is never changed, from one invariant
(`IInv`) over any number of sources and jobs.  A reading in flight is exactly one
claimed reader of that source, because a claim is given only where none is out and
every way out of a read ends the claim and the reading together; so a waiter always
has a reader.  What a job does after the read it takes from what is kept
(`Followed`), also a job that read for itself and was answered otherwise.  That a
cancel is one's own needs the cause kept with the request: it is ended by its
caller only if that context ended (`Causes`).

Of `LoopPictures`, `ReadingsServeAll` proves `SharedReadingsAreTrue` and `LoopsAreDrawn`
`LoopsHoldTheMoment`, both from `LoopInv`.  A picture may be decoded, come from the
readings maps share, or from the loop it replaces, and may be taken again from any
of these; what makes it true is that the key of each names all that a reading
depends on (`Truly`, `KeyTells`), so that the invariant is about keys and never about
who read a file.  A frame's key also has its time, which tells two frames of one
loop apart.  A job works on the version it began with, and its number is that
version's alone (`JobIs`): what lands is of the image it is kept for, and all of it
at once (`AllOf`), so that a moment, which is shown by a frame that is no gap
(`ShownAtIs`), always finds its picture.  An offer refused for having no picture
(`CopiedHasPicture`) is what keeps the oldest frame from being looked for among
none.  The count of the shared readings is inductive with their sizes (`CountInv`):
the oldest that go are a part of a sum whose rest is what is left, counted from one
again (`SumShifted`, `KeepCounts`).  What a reading is - the nearest entry of a table,
a place on a gradient - is used for nothing but its length.

Of `FrameDraw`, `FramesAreTheirInputs` proves `FrameIsItsInputs`.  A renderer
compares an input with the last one it drew, but of what cannot be compared - the
palette, the alerts, the words - it compares a count of the changes, and of the
time shown only whether there is one.  So the invariant (`FrameInv`) says of the
input given and the last one drawn that what has one count is the same
(`SameSince`), whatever happened in between, frames that failed included; and
that the rows held are those the last input draws.  How the contest for text comes
out is used for nothing: a frame is a function of its content (`ContentDecides`).

`WordsAreFair` proves `WordsAreWholeOrTold`, which is about how that contest comes out.
The contest is a fold of claims over a sheet, and its invariant (`Sheet`) that no
cell has two texts.  A label that is kept and asked for has one claim of its own and no
other claim says its id (`ClaimsSpeak`), so that what its claim leaves on the sheet -
the word, or its short form with a report, or the report that it is dropped, or
nothing where an alert has no short form - is neither added to nor taken from by the claims before and after it (`OthersSayNothing`,
`ContestIsFair`).

Of `Canvas`, `CellsAreInked` proves `CellsShowTheirInk`.  A cell locked by a forced
ink shows the last ink set in it, so the invariant (`InkInv`) is that the last set
is the last forced, which needs that nothing without force is painted once an
overlay or a marker is.  In the other cells the vote is among finitely many inks,
so that one has the most dots and the scan meets it (`VoteIsMost`).

### PlaybackProofs

`OnlyPlayMoves` proves `NothingPlaysByItself` from `MovesOnlyIfAllowed`: the code
stops a loop as it forbids it to play, so that none waits for the permission to
come back.  `TicksAreAdvances` proves `TicksCountAdvances`: the moment remembered
is the moment shown since the map was last given a time (`SeenIsShown`), unless the
step was set in between, which is the exception that the property makes and
section 5 tells.  `MovesAreToldApart` adds the other parts of `MovesAreTold`: a map
given the same time again shows the same moment (`GivenAgain`), and a loop held on
a frame finds that frame again on the timeline (`IndexIsThere`), whatever frames
others add or take away.

`NothingFlashesFaster` proves `FlashesKeepTheCeiling`.  A blink is never faster
than its own half period, begins with the loop and turns on its steps once a frame
has aligned it (`BlinkInv`); so every change that a map shows by itself, of a
frame or of a marker, falls on a line of one grid (`ChangesOnTheGrid`), and two
lines are the ceiling apart or more (`WholesApart`).  The divisions and products of
the code are reasoned about by the lemmas on quotients and remainders of
`FoldTheorems`.

`TheTimesToldAreTrue` proves `ToldTimesAreTrue`.  What is left over a step, a
period or a half period grows until it fills one, which is the call asked for
(`LeftOverGrows`, `PlaceStays`); before that call no frame, blink or staleness
differs from what the last frame drew (`LitInv`).  The moment a loop shows is a
time of one of its frames (`ShownIsATime`), which no label is later than
(`LabelIsNoLater`).  The timeline is a sequence made of a set, and is reasoned
about by what that is: every time once, in order (`InOrderRises`).

### Only model-checked

* Liveness (`NothingWaitsForEver`, `WantedIsTried`, `EveryJobEnds`), which TLAPS
  does not do.
* `PreparedKeepsTheShape`: the area that a cut keeps is a sum over rings of
  cut points, each the quotient of a product, and what simplifying drops depends on a
  stack that a fold unwinds.
* `StrokesAreWhole`: the loops of a stroke, over an error term that is added to and
  taken from at every dot.

The type invariants (`TypeOK`, `ReportTypeOK`, ...) stand in the modules; those of
`WorkQueue`, `TileCache` and `VectorTile` are theorems, and the proofs of the others carry what
they need of it (`PipeTyped`, `Typed`, `HoldTypes`, `DueTyped`, `PlayTyped`).

## 5. Where code and words differ

With a run (`findings` in `PROJECT.json` quotes both sides of everything here but
the last list):

* `ShapeIndex`: in a view across the antimeridian the corners are brought onto the
  world one by one, so the box of the view is the part it does not show; an
  overlay drawn from memory loses the runs in view (`IndexAlwaysOnlyCulls`).
  `IndexOnlyCulls` is the same of views inside the world, and holds.

Without a run of its own, each a definition of its module that TLC refutes with
the cfg named and that definition in the place of its properties:

| Definition | Module | cfg | What it refutes |
|---|---|---|---|
| `PumpEndsOnlyWithItsContext` | `TilePipeline` | `Tiles` | a job made stale by a new source returns the cancelled kind, which ends its pump goroutine though its context is open |
| `CachedInItsLanguage` | `TilePipeline` | `Tiles` | a job queued in one label language decodes in the one chosen when it runs, and is kept under the first |
| `HeldOnlyUntilItsTime` | `TilePipeline` | `Tiles` | the time of a deferred job outlives its use, and the host is woken for it |
| `OpenPumpsTake` | `WorkQueue` | `WorkQueueLive` | such a job ends the goroutine that ran it, and with the last of them work waits for ever on an open map |
| `SettleTakesAll` | `WorkQueue` | `WorkQueueLive` | and it ends a settle with work waiting and the context open |
| `WholePumpWakes` | `WorkQueue` | the one-slot instance | one wake slot, as the command makes it, does not wake two goroutines |
| `StoresHoldTheCap` | `DiskCache` | `Disk` with `Roots = {r1}`, `Reopens = TRUE`, `MaxUpsets = 2`, no symmetry | naming again the root in use may leave a store uncounted |
| `FrameIsThePicked` | `OverlayStore` | `Overlays` | a preparation that lands after `draw` chose and before it reads the version is counted in the version of a frame that does not show it; the next frame looks unchanged and the old one is kept |
| `ShapeStaysDrawn` | `OverlayStore` | `Overlays` | a shape handed in twice before any work loses its stand-in |
| `StandInHasItsJob` | `OverlayStore` | `Overlays` | a replacement that joins the flight of the version it replaced has no job when that ends |
| `LargeDrawsNextFrame` | `OverlayStore` | `OverlaysPair` | a shape with a run index is not drawn from the host's memory until a job has found its form too large |
| `ShapeOutlivesZoom` | `OverlayStore` | `OverlaysPair` with `Offers <- Shapes` | the nearest bucket's form, drawn while the right one is prepared, is spare and may be evicted |
| `EveryJobEnds` | `RemoteSource` | `Remote` with `SPECIFICATION PanicSpec` | a transport that panics leaves its claimed read open for ever, and its waiters wait |
| `ReportIsFresh` | `MapReport` | `MapParts` | the key holds the overlays stale at the last frame, the answer those stale now; and the key counts a picture that landed after the answer was made |
| `FittedHoldsAll` | `MapView` | `MapParts` | an arc that runs on past 360 degrees is not joined to the start of the circle, and a box of the whole world has no width |
| `WindowIsFilled` | `MapView` | `MapParts` | a view that would take more tiles than the limit is given none |
| `WrittenSizeWins` | `HostLoop` | `MapParts` | a change of the terminal's size overrides the size written with `--size` |
| `EveryAlertIsTold` | `FrameDraw` | `DrawParts` | the label of an alert drawn as a line or a point has no short form, and is left out untold where it does not fit |
| `EveryPlaceIsTold` | `FrameDraw` | `DrawParts` | the name of a marker past the most that are kept is neither shown nor told |
| `NamesStandStill` | `FrameDraw` | `DrawParts` | an alert outside the moment holds the room of its whole word, one drawn may hold less |
| `LabelIsTheMoments` | `LoopPictures` | `DrawParts` with `LoopIds = {l1, l2}`, `LoopMaps = {m1}` | of two loops with a frame of one time, one a gap, either may name the moment |
| `StandsAreSpares` | `LoopPictures` | `DrawParts` | a stand-in holds pictures nothing else does, after a purge or of a single picture |
| `TouchingKeepsTheArea` | `ShapeGeometry` | `DrawParts` | a ring that reaches the antimeridian and calls it by the far side's longitude is drawn across the map |
| `LinesStayOpen` | `ShapeGeometry` | `DrawParts` | a line across the antimeridian is closed back to its start |
| `MemoryClosesAreas` | `ShapeGeometry` | `DrawParts` | an area drawn from memory lacks the edge that closes it |

The *one-slot instance* is `WorkQueueSafe` with `Members = {a}`, `Slots = 1`,
`Limit = 2`, `Jobs` and `Tiles` `{tile1, tile2}`, `Rendering` and `Times` empty,
`MaxSeq = 3`, `MaxView = 0`, and no symmetry.

Told by how a property is stated, which holds because it makes an exception:

* `TicksCountAdvances` leaves out a step set while a loop plays, which the code
  counts as a frame advance.
* `StampNamesTheMoment` asks that every loop has a picture at or before the
  moment: on a gap that leads its loop the stamp is the oldest picture's.
* `IndexOf` takes the last frame at or before the moment held, where a comment
  speaks of the nearest.
* `KeysAreWhole` leaves out a read that ends in a bare Esc, which is the Esc key,
  and a sequence longer than any key's, whose rest is taken for keys.
* `TheLastSizeWins` leaves out a size that changed before the watch was set up
  (`unseen`).
* `TheLastSizeWins` also lets a change of the terminal override the size written
  (`WrittenSizeWins` is refuted).
* `NothingWaitsForEver` asks that a pump takes what waits only while a goroutine of
  it was not stopped by a job, and a settle may end by one (`OpenPumpsTake` and
  `SettleTakesAll` are refuted).
* `WordsAreWholeOrTold` is about the labels kept, and lets an alert with no short
  form be left out untold (`EveryAlertIsTold` and `EveryPlaceIsTold` are refuted).
* `FrameIsDue` says that a frame was drawn, not that it filled the terminal: one
  of two rows is given one.
* `LimitsHoldAcrossLayers` says "at most": a tile of exactly the limit's features
  is refused when the last is a polygon.  `SlabsAreEnough` says "at most": a closed
  ring and a feature of no kind are counted for more than they decode to.
* `RetryWaitsItsTime` exempts `Epoch`: a settle stamps failures with the zero time,
  so the next render retries at once.
* `ToldOnceAStretch` (`TileCache`, defined and in no cfg) says at most once: a
  stretch of need over the cap that begins right after a purge ended one is not
  told of, since only settling clears `over`.  `WarningsAreOneAStretch` proves that much.

Seen while modelling, each a definition in its module or a note, and no
disagreement with a document:

* `WaitingWithinLimit` (`WorkQueue`): a give-back does not hold the queue to its
  limit.  `WorkQueueLive` with `SPECIFICATION Spec`, `Settlers = {}`, `Limit = 1`.
* `DroppedIsUnwanted`: a flight dropped by `Keep` may be joined again, and runs
  cancelled.  The one-slot instance with `Jobs` and `Tiles` `{tile1}`.
* `InsideAtCloseEndsClosed`: a `Work` inside when its map closes returns as if
  nothing happened.  The same instance.
* `QueuedHasAJob` (`TilePipeline`): after an eviction or a purge a track says
  queued with no job until the next plan.
* `WantedIsTried` with `Panics = TRUE`: a load that panics never lands, and its
  track says loading for ever.
* A crash's temporary file blocks one later store of that tile whose serial it
  has (`StoreBlocked`), and `Expire` forgets files it could not remove until the
  next walk.
* A grid handed in again has no stand-in and blinks; an overlay drawn from memory
  is prepared anew after every `Render`; a shape replaced by a picture keeps its
  stand-in counted against the shape cache until it is removed or replaced.
* `NextCall` does not announce the moment at which an overlay's hours begin or end
  nor the one at which an uncertain age becomes certain; the loop's frames, the
  blink and staleness it does (`NoAdvanceIsMissed`).

## 6. Not modelled

* Colour (`internal/colour`) and the sun (`internal/sun`): floating-point
  arithmetic, which TLC does not have.  Of the projection only what is left on an
  integer world is in `MapView` and `ShapeGeometry`; so ties and rounding of
  floating point are not seen by any property.
* Styles, the archive, and the decoding of image files: parsers and tables, pure
  functions of bytes.  Of the vector tiles' protobuf, the fields only.
* The sentences of `internal/describe`, warnings' texts, help, and the parsing of
  options and places: wording.
* The field of arrows and the hatching of the renderer: they draw from the same
  claims and strokes, and keep nothing.
* The network under `net/http`, the counting of requests to a host, file modes
  and owners, the terminal's system calls: the platform's.
* The loop of recorded files, and the scenarios the command can play: both are
  one run of calls that the modules have as actions.
* Two processes over one cache directory are possible; the code does not
  coordinate them.
* Development tools (`internal/rules`, `testkit`, `tools`) are not the library.

## 7. Plan

Done: the modules of section 2 and the theorems of section 4.  In order, what
would add most:

1. Proofs of `CutKeepsTheArea` and `DroppedIsNear` (`ShapeGeometry`), one fold
   each, and of the strokes (`Canvas`), one loop each.
2. An abstract `Latest` - what is drawn is a version the host set, and never goes
   back - that `OverlayStore` implements, and liveness for it: a host that keeps
   rendering and working sees what it set.
3. `TilePipeline` over `RemoteSource` in place of its own `Load`, with zoom limits
   learned late.
4. `Settle` of a whole map: tiles and overlays on one queue, without a clock.
5. The arrows of a field, as claims and strokes.

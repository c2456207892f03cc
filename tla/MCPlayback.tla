----------------------------- MODULE MCPlayback -----------------------------
(* Small instances of Playback: a unit of time is a fifth of a second, so   *)
(* that the slowest blink, the ceiling and the hold keep their order.       *)
EXTENDS Playback, TLC

Frame(valid, kind) == [valid |-> valid, kind |-> kind]

Past == {Frame(1, "observed"), Frame(2, "observed")}
Newer == {Frame(2, "observed"), Frame(3, "gap"), Frame(4, "forecast")}
MCLoops == {{}, Past, Newer}

\* Shown from its second moment on, and stale once the clock is past five.
MCAlert == [from |-> 2, until |-> 0, valid |-> 3, keeps |-> 2]
MCMoments == {<<0, 0>>, <<1, 1>>}

\* The ids of the loops are alike.
Alike == Permutations(LoopIds)
=============================================================================

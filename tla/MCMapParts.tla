------------------------------ MODULE MCMapParts ------------------------------
(***************************************************************************)
(* One run for four parts that share no state: the tile memory cache, the  *)
(* view of a map, its report and source, and the command line's loop.  A   *)
(* behaviour is that of one part while the others stand at their start, so *)
(* the states of the parts add and do not multiply.                        *)
(***************************************************************************)
EXTENDS MCTileCache, MCMapView, MCMapReport, MCHostLoop

VARIABLE part

MCMapPartsInit ==
    /\ part \in {"cache", "view", "report", "host"}
    /\ Init /\ ViewInit /\ ReportInit /\ HostInit

CacheSteps  == part = "cache"  /\ Next       /\ UNCHANGED <<viewVars, reportVars, hostVars>>
ViewSteps   == part = "view"   /\ ViewNext   /\ UNCHANGED <<vars, reportVars, hostVars>>
ReportSteps == part = "report" /\ ReportNext /\ UNCHANGED <<vars, viewVars, hostVars>>
HostSteps   == part = "host"   /\ HostNext   /\ UNCHANGED <<vars, viewVars, reportVars>>

MCMapPartsNext == (CacheSteps \/ ViewSteps \/ ReportSteps \/ HostSteps) /\ UNCHANGED part

MCMapPartsSpec == MCMapPartsInit /\ [][MCMapPartsNext]_<<part, vars, viewVars, reportVars, hostVars>>

AlikeGoroutines == Permutations(Pumps) \cup Permutations(Workers)
==============================================================================

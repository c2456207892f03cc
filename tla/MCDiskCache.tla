---------------------------- MODULE MCDiskCache ----------------------------
(***************************************************************************)
(* Instances of DiskCache for TLC.                                         *)
(***************************************************************************)
EXTENDS DiskCache, TLC

CONSTANTS r1, r2, t1, t2, u

SomeViews == {{t1}, {t1, t2}}

Alike == Permutations({r1, r2})
=============================================================================

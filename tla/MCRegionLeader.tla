----------------------------- MODULE MCRegionLeader -----------------------------
(* Two regions; the first has two tick slots, so its ticks may overlap. *)
EXTENDS RegionLeader, TLC

CONSTANTS eu, us, t1, t2, t3

MCRegionOf == (t1 :> us) @@ (t2 :> us) @@ (t3 :> eu)

================================================================================

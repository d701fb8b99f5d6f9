----------------------------- MODULE MCSelection -----------------------------
(***************************************************************************)
(* Four peers, each connected in either direction, both or none; two       *)
(* values for a measurement tell the best from the others.                 *)
(***************************************************************************)
EXTENDS Selection

CONSTANTS p1, p2, p3, p4

Defaults == [latency |-> 68, productivity |-> 68, longevity |-> 500]

\* The run is about shares that the theorem on the evicted peer speaks of.
ASSUME DefaultsSpare == SharesSpare

Levels == [{p1, p2, p3, p4} -> {0, 1}]
AllMeasurements == [latency : Levels, responseRate : Levels, connectTime : Levels]
=============================================================================

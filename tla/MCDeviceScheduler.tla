------------------------- MODULE MCDeviceScheduler -------------------------
(* Instances of DeviceScheduler for TLC.                                   *)
EXTENDS DeviceScheduler, TLC

\* Records are compared for equality only, goroutines are interchangeable.
Symmetric == Permutations(Goroutines) \cup Permutations(Versions)
=============================================================================

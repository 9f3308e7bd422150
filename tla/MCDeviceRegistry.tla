-------------------------- MODULE MCDeviceRegistry --------------------------
(* Instances of DeviceRegistry for TLC.                                    *)
EXTENDS DeviceRegistry, TLC

Symmetric == Permutations(Requests)
=============================================================================

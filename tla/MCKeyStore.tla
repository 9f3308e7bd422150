----------------------------- MODULE MCKeyStore -----------------------------
(* Instances of KeyStore for TLC.                                          *)
EXTENDS KeyStore, TLC

Symmetric == Permutations(Ops) \cup Permutations(Materials)
               \cup Permutations(Secrets) \cup Permutations(Devices)
=============================================================================

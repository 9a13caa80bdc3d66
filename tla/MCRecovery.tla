----------------------------- MODULE MCRecovery -----------------------------
(* Small instances of Recovery.                                            *)
EXTENDS Recovery, TLC

CONSTANTS g1, g2

NoGuid == {}
OneGuid == {g1}
TwoGuids == {g1, g2}
Symmetric == Permutations(TwoGuids)
=============================================================================

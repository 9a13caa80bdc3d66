--------------------------- MODULE MCArchiveStore ---------------------------
(* Small instances of ArchiveStore.                                        *)
EXTENDS ArchiveStore, TLC

CONSTANTS r1, r2

TwoRecords == {r1, r2}
Symmetric == Permutations(TwoRecords)
=============================================================================

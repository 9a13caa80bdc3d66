-------------------------- MODULE MCBigQueryStream --------------------------
(* Small instances of BigQueryStream.                                      *)
EXTENDS BigQueryStream

CONSTANTS c1, c2, k1, k2

TwoCallers == {c1, c2}
OneCloser == {k1}
TwoClosers == {k1, k2}
=============================================================================

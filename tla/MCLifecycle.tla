---------------------------- MODULE MCLifecycle ----------------------------
(* Instances of Lifecycle for TLC. *)
EXTENDS Lifecycle

CONSTANTS s1, s2

TwoSinks == {s1, s2}
AllDrivers == {"embedded", "external", "memory"}
OneSink == {s2}
NoSink == {}
=============================================================================

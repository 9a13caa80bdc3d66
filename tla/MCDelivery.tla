---------------------------- MODULE MCDelivery ----------------------------
(* Small instances of Delivery.                                            *)
EXTENDS Delivery, TLC

CONSTANTS s1, s2, u1, u2, k1, k2

NoSink == {}
OneSink == {s1}
TwoSinks == {s1, s2}
OneId == {u1}
TwoIds == {u1, u2}
OneSlot == {k1}
TwoSlots == {k1, k2}
AllNow == [s \in Sinks |-> "now"]
AllEarliest == [s \in Sinks |-> "earliest"]
SecondNow == [s \in Sinks |-> IF s = s2 THEN "now" ELSE "earliest"]
Symmetric == Permutations(TwoIds) \union Permutations(TwoSlots)
=============================================================================

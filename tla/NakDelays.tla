----------------------------- MODULE NakDelays -----------------------------
(***************************************************************************)
(* The redelivery delays of one message that its sink keeps nacking, under *)
(* any configuration Validate accepts: subscriber.nakDelay and NakDelay.   *)
(* A time.Duration is a signed machine integer, so the shift of NakDelay   *)
(* wraps; its width is a parameter (64 in the code).                       *)
(***************************************************************************)
EXTENDS Integers

CONSTANTS Width,          \* bits of a time.Duration
          MaxDelivered    \* bound: deliveries the broker counts

ASSUME NakDelaysAssumption ==
    /\ Width \in Nat /\ Width > 2
    /\ MaxDelivered \in Nat

VARIABLES nakDelayMin, nakDelayMax,   \* configuration
          delivered,                  \* broker: NumDelivered of the message
          delay                       \* what NakWithDelay was last given

nakVars == <<nakDelayMin, nakDelayMax, delivered, delay>>

Durations == (-(2^(Width - 1)))..(2^(Width - 1) - 1)

\* What an integer becomes in a time.Duration.
Wrapped(i) == ((i + 2^(Width - 1)) % 2^Width) - 2^(Width - 1)

\* Config.Validate, its rules on the two bounds.
ValidDelays(min, max) ==
    /\ min > 0
    /\ max >= min

\* Mutant of Capped: a shift that wrapped around is not noticed.
CappedAbove(min, max, shift) ==
    shift >= Width - 2 \/ Wrapped(min * 2^shift) > max

\* The doubled delay is not used: the shift is too far, or its result is above
\* the maximum or, wrapped around, below the minimum.
Capped(min, max, shift) ==
    \/ shift >= Width - 2
    \/ Wrapped(min * 2^shift) > max
    \/ Wrapped(min * 2^shift) < min

NakDelay(min, max, count) ==
    IF count <= 1 THEN min
    ELSE IF Capped(min, max, count - 1) THEN max
    ELSE Wrapped(min * 2^(count - 1))

NakInit ==
    /\ nakDelayMin \in Durations
    /\ nakDelayMax \in Durations
    /\ ValidDelays(nakDelayMin, nakDelayMax)
    /\ delivered = 0
    /\ delay = nakDelayMin

\* The broker delivers the message once more and the sink nacks it again; the
\* metadata that carries the count may not parse.
Nacked ==
    /\ delivered < MaxDelivered
    /\ delivered' = delivered + 1
    /\ \/ delay' = nakDelayMin
       \/ delay' = NakDelay(nakDelayMin, nakDelayMax, delivered')
    /\ UNCHANGED <<nakDelayMin, nakDelayMax>>

NakSpec == NakInit /\ [][Nacked]_nakVars

-----------------------------------------------------------------------------
\* However often a message is nacked and wherever the shift wraps, the delay
\* lies between the bounds of the configuration: never zero or negative, which
\* would make the redelivery of a failing message a busy loop, and never past
\* nak_delay_max (NakDelay).
DelayWithinBounds == delay \in nakDelayMin..nakDelayMax
=============================================================================

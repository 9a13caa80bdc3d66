------------------------------- MODULE Stream -------------------------------
(***************************************************************************)
(* The JetStream stream that carries the deliveries of one topic, as       *)
(* internal/bus/natsjs configures it: file storage, limits retention by    *)
(* age, DiscardOld, and a de-duplication window over message ids.  The     *)
(* server itself is not part of the repository; what is stated here is     *)
(* what StreamConfig asks of it and what Publish relies on.                *)
(***************************************************************************)
EXTENDS Naturals, Sequences

CONSTANTS Uuids,    \* message ids: a delivery GUID, or a ForwardUUID
          MaxLog    \* bound: how many messages are ever stored

ASSUME StreamAssumption == MaxLog \in Nat

VARIABLES log,      \* every message ever stored, by stream sequence number
          first,    \* sequence number of the oldest message still retained
          recent    \* ids inside the de-duplication window

streamVars == <<log, first, recent>>

Seqs == 1..MaxLog

Retained == first..Len(log)

StreamTypeOK ==
    /\ log \in Seq(Uuids)
    /\ Len(log) <= MaxLog
    /\ first \in 1..(Len(log) + 1)
    /\ recent \subseteq Uuids

StreamInit ==
    /\ log = <<>>
    /\ first = 1
    /\ recent = {}

-----------------------------------------------------------------------------
\* A publish reaches the server.  An id inside the window is acknowledged as a
\* duplicate and not stored again.
Store(u) ==
    \/ /\ u \in recent
       /\ UNCHANGED streamVars
    \/ /\ u \notin recent
       /\ Len(log) < MaxLog
       /\ log' = Append(log, u)
       /\ recent' = recent \union {u}
       /\ UNCHANGED first

\* The window of an id ends: the next publish of it is stored again.
ForgetId ==
    /\ \E u \in recent : recent' = recent \ {u}
    /\ UNCHANGED <<log, first>>

\* MaxAge removes the oldest message.  The configuration keeps dedup_window
\* within retention, so an id leaves the window before its message is gone.
Expire ==
    /\ first <= Len(log)
    /\ log[first] \in recent => \E j \in (first + 1)..Len(log) : log[j] = log[first]
    /\ first' = first + 1
    /\ UNCHANGED <<log, recent>>

StreamNext ==
    \/ \E u \in Uuids : Store(u)
    \/ ForgetId
    \/ Expire
=============================================================================

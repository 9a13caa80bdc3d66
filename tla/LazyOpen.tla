------------------------------ MODULE LazyOpen ------------------------------
(***************************************************************************)
(* A resource opened on first use and closed at shutdown: SingleFlight,    *)
(* and the pattern the forward Publisher and the BigQuery Writer build on  *)
(* it.  Do runs one attempt at a time and lets the others wait for it;     *)
(* Close sets a flag, waits out the attempt in flight with Peek and closes *)
(* what it finds; an attempt that ends after the flag was set closes its   *)
(* own resource.  Every step between two lock operations is an action.     *)
(***************************************************************************)
EXTENDS Naturals

CONSTANTS Callers,    \* goroutines in Publish or Write
          Closers,    \* goroutines in Close
          MaxOpens    \* bound: attempts ever made

ASSUME LazyOpenAssumption == MaxOpens \in Nat

VARIABLES pc,       \* per caller: where it is
          own,      \* per caller: the attempt it runs
          waits,    \* per caller and closer: the attempt it waits for
          opens,    \* attempts made so far; attempt n opens resource n
          call,     \* SingleFlight.call: the attempt in flight, or None
          ready,    \* SingleFlight.ready
          value,    \* SingleFlight.value: a resource, or None
          closed,   \* Publisher.closed, Writer.closed
          cpc,      \* per closer: where it is
          live,     \* resources that are open
          closings  \* history: per resource, Close calls on it

flight == <<opens, call, ready, value>>
resource == <<live, closings>>
vars == <<pc, own, waits, flight, closed, cpc, resource>>

None == 0
Attempts == 1..MaxOpens

CallerStates == {"idle", "do", "waiting", "opening", "opened", "keep", "drop", "using"}
CloserStates == {"idle", "peek", "waiting", "closing", "done"}

TypeOK ==
    /\ pc \in [Callers -> CallerStates]
    /\ own \in [Callers -> Attempts \union {None}]
    /\ waits \in [Callers \union Closers -> Attempts \union {None}]
    /\ opens \in Attempts \union {None}
    /\ call \in Attempts \union {None}
    /\ ready \in BOOLEAN
    /\ value \in Attempts \union {None}
    /\ closed \in BOOLEAN
    /\ cpc \in [Closers -> CloserStates]
    /\ live \subseteq Attempts
    /\ closings \in [Attempts -> Nat]

Init ==
    /\ pc = [c \in Callers |-> "idle"]
    /\ own = [c \in Callers |-> None]
    /\ waits = [x \in Callers \union Closers |-> None]
    /\ opens = None
    /\ call = None
    /\ ready = FALSE
    /\ value = None
    /\ closed = FALSE
    /\ cpc = [k \in Closers |-> "idle"]
    /\ live = {}
    /\ closings = [n \in Attempts |-> 0]

Goto(c, state) == pc' = [pc EXCEPT ![c] = state]
CloserGoto(k, state) == cpc' = [cpc EXCEPT ![k] = state]

-----------------------------------------------------------------------------
(* Publisher.open, Writer.streamFor: the check before Do.                  *)

Open(c) ==
    /\ pc[c] = "idle"
    /\ ~closed
    /\ Goto(c, "do")
    /\ UNCHANGED <<own, waits, flight, closed, cpc, resource>>

-----------------------------------------------------------------------------
(* SingleFlight.Do.                                                        *)

DoReady(c) ==
    /\ pc[c] = "do"
    /\ ready
    /\ Goto(c, "using")
    /\ UNCHANGED <<own, waits, flight, closed, cpc, resource>>

DoWait(c) ==
    /\ pc[c] = "do"
    /\ ~ready /\ call # None
    /\ waits' = [waits EXCEPT ![c] = call]
    /\ Goto(c, "waiting")
    /\ UNCHANGED <<own, flight, closed, cpc, resource>>

\* call.done is closed: check again.
DoWoken(c) ==
    /\ pc[c] = "waiting"
    /\ waits[c] # call
    /\ Goto(c, "do")
    /\ UNCHANGED <<own, waits, flight, closed, cpc, resource>>

\* The caller's own context ends first.
DoGivesUp(c) ==
    /\ pc[c] = "waiting"
    /\ Goto(c, "idle")
    /\ UNCHANGED <<own, waits, flight, closed, cpc, resource>>

\* Mutant of DoAttempt: an attempt in flight is not waited for.
DoAttemptAnyway(c) ==
    /\ pc[c] = "do"
    /\ ~ready
    /\ opens < MaxOpens
    /\ opens' = opens + 1
    /\ call' = opens + 1
    /\ own' = [own EXCEPT ![c] = opens + 1]
    /\ Goto(c, "opening")
    /\ UNCHANGED <<waits, ready, value, closed, cpc, resource>>

DoAttempt(c) ==
    /\ pc[c] = "do"
    /\ ~ready /\ call = None
    /\ opens < MaxOpens
    /\ opens' = opens + 1
    /\ call' = opens + 1
    /\ own' = [own EXCEPT ![c] = opens + 1]
    /\ Goto(c, "opening")
    /\ UNCHANGED <<waits, ready, value, closed, cpc, resource>>

-----------------------------------------------------------------------------
(* The attempt: the open function the Publisher and the Writer pass.       *)

\* open fails, or panics and attempt re-raises: nothing is cached.
OpenFails(c) ==
    /\ pc[c] = "opening"
    /\ call' = None
    /\ Goto(c, "idle")
    /\ UNCHANGED <<own, waits, opens, ready, value, closed, cpc, resource>>

OpenSucceeds(c) ==
    /\ pc[c] = "opening"
    /\ live' = live \union {own[c]}
    /\ Goto(c, "opened")
    /\ UNCHANGED <<own, waits, flight, closed, cpc, closings>>

Shut(n) ==
    /\ live' = live \ {n}
    /\ closings' = [closings EXCEPT ![n] = @ + 1]

\* The flag is read again: a resource opened too late is closed at once.
CheckClosed(c) ==
    /\ pc[c] = "opened"
    /\ \/ closed /\ Goto(c, "drop") /\ Shut(own[c])
       \/ ~closed /\ Goto(c, "keep") /\ UNCHANGED resource
    /\ UNCHANGED <<own, waits, flight, closed, cpc>>

\* SingleFlight.attempt's deferred part, and the return of Do.
AttemptEnds(c) ==
    /\ \/ /\ pc[c] = "keep"
          /\ ready' = TRUE
          /\ value' = own[c]
          /\ Goto(c, "using")
       \/ /\ pc[c] = "drop"
          /\ Goto(c, "idle")
          /\ UNCHANGED <<ready, value>>
    /\ call' = None
    /\ UNCHANGED <<own, waits, opens, closed, cpc, resource>>

\* Publish or Append on the shared value returns.
Used(c) ==
    /\ pc[c] = "using"
    /\ Goto(c, "idle")
    /\ UNCHANGED <<own, waits, flight, closed, cpc, resource>>

-----------------------------------------------------------------------------
(* Publisher.Close, Writer.Close.                                          *)

CloseBegins(k) ==
    /\ cpc[k] = "idle"
    /\ closed' = TRUE
    /\ CloserGoto(k, IF closed THEN "done" ELSE "peek")
    /\ UNCHANGED <<pc, own, waits, flight, resource>>

\* Mutant of Peek: an attempt in flight is not waited for.
PeekOnce(k) ==
    /\ cpc[k] = "peek"
    /\ CloserGoto(k, IF ready THEN "closing" ELSE "done")
    /\ UNCHANGED <<pc, own, waits, flight, closed, resource>>

\* SingleFlight.Peek with a background context.
Peek(k) ==
    /\ cpc[k] = "peek"
    /\ \/ ready /\ CloserGoto(k, "closing") /\ UNCHANGED waits
       \/ ~ready /\ call = None /\ CloserGoto(k, "done") /\ UNCHANGED waits
       \/ ~ready /\ call # None /\ CloserGoto(k, "waiting")
          /\ waits' = [waits EXCEPT ![k] = call]
    /\ UNCHANGED <<pc, own, flight, closed, resource>>

PeekWoken(k) ==
    /\ cpc[k] = "waiting"
    /\ waits[k] # call
    /\ CloserGoto(k, "peek")
    /\ UNCHANGED <<pc, own, waits, flight, closed, resource>>

CloseEnds(k) ==
    /\ cpc[k] = "closing"
    /\ Shut(value)
    /\ CloserGoto(k, "done")
    /\ UNCHANGED <<pc, own, waits, flight, closed>>

-----------------------------------------------------------------------------
Wait(c) == Open(c) \/ DoReady(c) \/ DoWait(c) \/ DoWoken(c) \/ DoGivesUp(c) \/ Used(c)

Attempt(c) == DoAttempt(c) \/ OpenFails(c) \/ OpenSucceeds(c) \/ CheckClosed(c) \/ AttemptEnds(c)

Close(k) == CloseBegins(k) \/ Peek(k) \/ PeekWoken(k) \/ CloseEnds(k)

Next ==
    \/ \E c \in Callers : Wait(c) \/ Attempt(c)
    \/ \E k \in Closers : Close(k)

Spec == Init /\ [][Next]_vars

-----------------------------------------------------------------------------
(* Properties.                                                             *)

\* Concurrent first calls share one resource: there is never a second one
\* open, or being opened, next to the first.
SharesOne ==
    LET opening == {own[c] : c \in {d \in Callers : pc[d] = "opening"}}
    IN  \A m, n \in live \union opening : m = n

\* A resource that is open belongs to the attempt in flight, or it is cached
\* and Close, if it began, has yet to close it: however open and Close race,
\* none is left behind when both have returned.
NoneLeaked ==
    \A n \in live :
        \/ call = n
        \/ /\ ready /\ value = n
           /\ closed => \E k \in Closers : cpc[k] \in {"peek", "waiting", "closing"}

\* "At most one of the two ever closes it" (comment on Publisher.Close).
ClosedAtMostOnce == \A n \in Attempts : closings[n] <= 1
=============================================================================

--------------------------- MODULE LazyOpenProofs ---------------------------
(***************************************************************************)
(* Proofs about LazyOpen for any callers, closers and number of attempts:  *)
(* one resource is shared, none is leaked, none is closed twice; and that  *)
(* the managed stream of BigQueryStream is such a resource.                *)
(***************************************************************************)
EXTENDS BigQueryStream, TLAPS

\* The caller runs the attempt in flight.
Busy(c) == pc[c] \in {"opening", "opened", "keep", "drop"}

\* The closer has begun and will still look for the resource.
Active(k) == cpc[k] \in {"peek", "waiting", "closing"}

\* Attempts are numbered, and none of the numbers is ahead of the counter.
Numbered ==
    /\ call <= opens
    /\ value <= opens
    /\ \A c \in Callers : own[c] <= opens

\* At most one caller runs an attempt: the one in flight, before a value.
OneAttempt ==
    /\ \A c \in Callers : Busy(c) => own[c] = call /\ call # None /\ ~ready
    /\ \A c, d \in Callers : Busy(c) /\ Busy(d) => c = d

\* Every open resource is held by that caller or is the cached value.
Held ==
    /\ \A c \in Callers : pc[c] = "opening" => own[c] \notin live
    /\ \A c \in Callers : pc[c] \in {"opened", "keep"} => own[c] \in live
    /\ \A n \in live : \/ \E c \in Callers : pc[c] \in {"opened", "keep"} /\ own[c] = n
                       \/ ready /\ value = n
    /\ ready => value # None

\* Only what has been open and no longer is has been closed, and once.
Counted ==
    /\ \A n \in Attempts : closings[n] <= 1
    /\ \A n \in live : closings[n] = 0
    /\ \A n \in Attempts : n > opens => closings[n] = 0
    /\ \A c \in Callers : pc[c] = "opening" => closings[own[c]] = 0

\* The first Close does the work; the flag is set as long as it does.
OneCloser ==
    /\ \A k, l \in Closers : Active(k) /\ Active(l) => k = l
    /\ ~closed => \A k \in Closers : cpc[k] = "idle"

\* A cached value stays open until Close has closed it, and a caller that saw
\* the flag unset is waited for.
Awaited ==
    /\ ready /\ ~closed => value \in live
    /\ \A k \in Closers : ready /\ Active(k) => value \in live
    /\ \A k \in Closers : cpc[k] = "closing" => ready
    /\ \A c \in Callers : pc[c] = "keep" /\ closed =>
           \E k \in Closers : cpc[k] \in {"peek", "waiting"}
    /\ ready /\ closed /\ value \in live => \E k \in Closers : Active(k)

LazyOpenInv ==
    /\ TypeOK /\ Numbered /\ OneAttempt /\ Held
    /\ Counted /\ OneCloser /\ Awaited
-----------------------------------------------------------------------------
\* Attempts are numbered from 1 and None is no number.
LEMMA AttemptNumbers == Attempts \subseteq Nat \ {None} /\ None \in Nat
  BY LazyOpenAssumption DEF Attempts, None

\* Attempt numbers can be compared.
LEMMA NumbersAreNat ==
    ASSUME TypeOK
    PROVE  /\ opens \in Nat /\ call \in Nat /\ value \in Nat
           /\ \A c \in Callers : own[c] \in Nat
  BY AttemptNumbers DEF TypeOK

\* The caller of an attempt in flight owns a resource number.
LEMMA BusyOwns ==
    ASSUME TypeOK, OneAttempt, NEW c \in Callers, Busy(c)
    PROVE  own[c] \in Attempts
  BY DEF TypeOK, OneAttempt

\* Before the first call nothing is open and nobody closes.
LEMMA InitLazyOpen == Init => LazyOpenInv
  <1> SUFFICES ASSUME Init PROVE LazyOpenInv
    OBVIOUS
  <1> USE LazyOpenAssumption, AttemptNumbers DEF Init
  <1>1. TypeOK
    BY DEF TypeOK, CallerStates, CloserStates, Attempts, None
  <1>2. Numbered
    BY DEF Numbered, None
  <1>3. OneAttempt /\ OneCloser
    BY DEF OneAttempt, OneCloser, Busy, Active
  <1>4. Held /\ Awaited /\ Counted
    BY DEF Held, Awaited, Counted
  <1> QED
    BY <1>1, <1>2, <1>3, <1>4 DEF LazyOpenInv

\* A caller that runs no attempt, before and after its step, disturbs nothing.
LEMMA WaitStep ==
    ASSUME LazyOpenInv, NEW c \in Callers, Wait(c)
    PROVE  LazyOpenInv'
  <1> USE DEF LazyOpenInv
  <1>1. /\ \E s \in CallerStates \ {"opening", "opened", "keep", "drop"} : Goto(c, s)
        /\ ~Busy(c)
        /\ waits' \in [Callers \union Closers -> Attempts \union {None}]
        /\ UNCHANGED <<own, flight, closed, cpc, resource>>
    BY DEF Wait, Open, DoReady, DoWait, DoWoken, DoGivesUp, Used, Busy, TypeOK, CallerStates
  <1>2. PICK s \in CallerStates \ {"opening", "opened", "keep", "drop"} : Goto(c, s)
    BY <1>1
  <1>3. \A d \in Callers : pc'[d] = IF d = c THEN s ELSE pc[d]
    BY <1>2 DEF Goto, TypeOK
  <1>4. TypeOK'
    BY <1>1, <1>2 DEF Goto, TypeOK, flight, resource
  <1>5. Numbered'
    BY <1>1 DEF Numbered, flight
  <1>6. OneAttempt' /\ Held' /\ Counted'
    BY <1>1, <1>3 DEF OneAttempt, Held, Counted, Busy, flight, resource
  <1>7. OneCloser' /\ Awaited'
    BY <1>1, <1>3 DEF OneCloser, Awaited, Active, Busy, flight, resource
  <1> QED
    BY <1>4, <1>5, <1>6, <1>7

\* An attempt begins: its number is new.
LEMMA DoAttemptStep ==
    ASSUME LazyOpenInv, NEW c \in Callers, DoAttempt(c)
    PROVE  LazyOpenInv'
  <1> USE AttemptNumbers, NumbersAreNat, LazyOpenAssumption DEF LazyOpenInv, DoAttempt, Goto, resource
  <1>1. TypeOK'
    BY LazyOpenAssumption DEF TypeOK, CallerStates, CloserStates, Attempts, Numbered
  <1>2. Numbered'
    BY DEF Numbered, TypeOK
  <1>3. OneAttempt'
    BY DEF OneAttempt, Busy, TypeOK, None
  <1>4. Held'
    BY DEF Held, OneAttempt, Busy, TypeOK, Numbered
  <1>5. Counted'
    BY DEF Counted, Held, Busy, TypeOK, Numbered, Attempts
  <1>6. OneCloser'
    BY DEF OneCloser, Active, TypeOK
  <1>7. Awaited'
    BY DEF Awaited, OneCloser, OneAttempt, Held, Busy, Active, TypeOK
  <1> QED
    BY <1>1, <1>2, <1>3, <1>4, <1>5, <1>6, <1>7

\* A failed attempt leaves nothing open.
LEMMA OpenFailsStep ==
    ASSUME LazyOpenInv, NEW c \in Callers, OpenFails(c)
    PROVE  LazyOpenInv'
  <1> USE AttemptNumbers DEF LazyOpenInv, OpenFails, Goto, resource, flight
  <1>1. TypeOK'
    BY LazyOpenAssumption DEF TypeOK, CallerStates, CloserStates, Attempts, Numbered
  <1>2. Numbered'
    BY NumbersAreNat DEF Numbered, TypeOK, None
  <1>3. OneAttempt'
    BY DEF OneAttempt, Busy, TypeOK
  <1>4. Held'
    BY DEF Held, OneAttempt, Busy, TypeOK, Numbered
  <1>5. Counted'
    BY DEF Counted, Held, OneAttempt, OneCloser, Awaited, Busy, Active, TypeOK, Numbered
  <1>6. OneCloser'
    BY DEF OneCloser, Active, TypeOK
  <1>7. Awaited'
    BY DEF Awaited, OneCloser, OneAttempt, Held, Busy, Active, TypeOK
  <1> QED
    BY <1>1, <1>2, <1>3, <1>4, <1>5, <1>6, <1>7

\* The new resource belongs to the caller that opened it.
LEMMA OpenSucceedsStep ==
    ASSUME LazyOpenInv, NEW c \in Callers, OpenSucceeds(c)
    PROVE  LazyOpenInv'
  <1> USE AttemptNumbers DEF LazyOpenInv, OpenSucceeds, Goto, flight
  <1>0. own[c] \in Attempts
    BY BusyOwns DEF Busy
  <1>1. TypeOK'
    BY <1>0, LazyOpenAssumption DEF TypeOK, CallerStates, CloserStates, Attempts, Numbered
  <1>2. Numbered'
    BY DEF Numbered, TypeOK
  <1>3. OneAttempt'
    BY DEF OneAttempt, Busy, TypeOK
  <1>4. Held'
    BY <1>0 DEF Held, OneAttempt, Busy, TypeOK, Numbered
  <1>5. Counted'
    BY <1>0 DEF Counted, Held, OneAttempt, OneCloser, Awaited, Busy, Active, TypeOK, Numbered
  <1>6. OneCloser'
    BY DEF OneCloser, Active, TypeOK
  <1>7. Awaited'
    BY DEF Awaited, OneCloser, OneAttempt, Held, Busy, Active, TypeOK
  <1> QED
    BY <1>1, <1>2, <1>3, <1>4, <1>5, <1>6, <1>7

\* The flag decides whether the caller closes its resource.
LEMMA CheckClosedStep ==
    ASSUME LazyOpenInv, NEW c \in Callers, CheckClosed(c)
    PROVE  LazyOpenInv'
  <1> USE AttemptNumbers DEF LazyOpenInv
  <1>1. own[c] \in Attempts /\ own[c] \in live
    BY BusyOwns DEF Busy, Held, CheckClosed
  <1>2. UNCHANGED <<own, waits, flight, closed, cpc>>
    BY DEF CheckClosed
  <1>3. CASE closed
    <2>1. /\ \A d \in Callers : pc'[d] = IF d = c THEN "drop" ELSE pc[d]
          /\ live' = live \ {own[c]}
          /\ \A n \in Attempts : closings'[n] = IF n = own[c] THEN closings[n] + 1 ELSE closings[n]
      BY <1>1, <1>3 DEF CheckClosed, Goto, Shut, TypeOK
    <2>2. /\ pc' = [pc EXCEPT ![c] = "drop"]
          /\ closings' = [closings EXCEPT ![own[c]] = closings[own[c]] + 1]
      BY <1>1, <1>3 DEF CheckClosed, Goto, Shut
    <2>3. TypeOK'
      <3>1. closings' \in [Attempts -> Nat]
        <4>1. closings \in [Attempts -> Nat]
          BY DEF TypeOK
        <4>2. closings[own[c]] \in Nat
          BY <1>1, <4>1, Zenon
        <4>3. closings[own[c]] + 1 \in Nat
          BY <4>2
        <4> QED
          BY <2>2, <4>1, <4>3
      <3>2. pc' \in [Callers -> CallerStates] /\ live' \subseteq Attempts
        BY <2>1, <2>2 DEF TypeOK, CallerStates
      <3> QED
        BY <1>2, <3>1, <3>2 DEF TypeOK, flight
    <2>4. OneAttempt' /\ Numbered'
      BY <1>2, <2>1 DEF OneAttempt, Busy, Numbered, flight, CheckClosed
    <2>5. Held'
      BY <1>1, <1>2, <2>1 DEF Held, OneAttempt, Busy, flight, CheckClosed
    <2>6. Counted'
      BY <1>1, <1>2, <2>1 DEF Counted, OneAttempt, Busy, Numbered, TypeOK, flight, CheckClosed
    <2>7. OneCloser' /\ Awaited'
      BY <1>2, <2>1 DEF OneCloser, Awaited, OneAttempt, Busy, Active, flight, CheckClosed
    <2> QED
      BY <2>3, <2>4, <2>5, <2>6, <2>7
  <1>4. CASE ~closed
    <2>1. /\ \A d \in Callers : pc'[d] = IF d = c THEN "keep" ELSE pc[d]
          /\ pc' = [pc EXCEPT ![c] = "keep"]
          /\ UNCHANGED <<live, closings>>
      BY <1>4 DEF CheckClosed, Goto, resource, TypeOK
    <2>2. TypeOK'
      BY <1>2, <2>1 DEF TypeOK, CallerStates, flight
    <2>3. OneAttempt' /\ Numbered'
      BY <1>2, <2>1 DEF OneAttempt, Busy, Numbered, flight, CheckClosed
    <2>4. Held' /\ Counted'
      BY <1>1, <1>2, <2>1 DEF Held, Counted, OneAttempt, Busy, flight, CheckClosed
    <2>5. OneCloser' /\ Awaited'
      BY <1>2, <1>4, <2>1 DEF OneCloser, Awaited, OneAttempt, Busy, Active, flight, CheckClosed
    <2> QED
      BY <2>2, <2>3, <2>4, <2>5
  <1> QED
    BY <1>3, <1>4

\* The resource is cached, or was closed already.
LEMMA AttemptEndsStep ==
    ASSUME LazyOpenInv, NEW c \in Callers, AttemptEnds(c)
    PROVE  LazyOpenInv'
  <1> USE AttemptNumbers DEF LazyOpenInv, AttemptEnds, Goto, resource, flight
  <1>1. TypeOK'
    BY LazyOpenAssumption DEF TypeOK, CallerStates, CloserStates, Attempts, Numbered
  <1>2. Numbered'
    BY NumbersAreNat DEF Numbered, TypeOK, None
  <1>3. OneAttempt'
    BY DEF OneAttempt, Busy, TypeOK
  <1>4. Held'
    BY DEF Held, OneAttempt, Busy, TypeOK, Numbered
  <1>5. Counted'
    BY DEF Counted, Held, OneAttempt, OneCloser, Awaited, Busy, Active, TypeOK, Numbered
  <1>6. OneCloser'
    BY DEF OneCloser, Active, TypeOK
  <1>7. Awaited'
    BY DEF Awaited, OneCloser, OneAttempt, Held, Busy, Active, TypeOK
  <1> QED
    BY <1>1, <1>2, <1>3, <1>4, <1>5, <1>6, <1>7

\* The first Close becomes the one that closes.
LEMMA CloseBeginsStep ==
    ASSUME LazyOpenInv, NEW k \in Closers, CloseBegins(k)
    PROVE  LazyOpenInv'
  <1> USE AttemptNumbers DEF LazyOpenInv, CloseBegins, CloserGoto, resource, flight
  <1>1. TypeOK'
    BY LazyOpenAssumption DEF TypeOK, CallerStates, CloserStates, Attempts, Numbered
  <1>2. Numbered'
    BY DEF Numbered, TypeOK
  <1>3. OneAttempt'
    BY DEF OneAttempt, Busy, TypeOK
  <1>4. Held'
    BY DEF Held, OneAttempt, Busy, TypeOK, Numbered
  <1>5. Counted'
    BY DEF Counted, Held, OneAttempt, OneCloser, Awaited, Busy, Active, TypeOK, Numbered
  <1>6. OneCloser'
    BY DEF OneCloser, Active, TypeOK
  <1>7. Awaited'
    BY DEF Awaited, OneCloser, OneAttempt, Held, Busy, Active, TypeOK
  <1> QED
    BY <1>1, <1>2, <1>3, <1>4, <1>5, <1>6, <1>7

\* Close waits while an attempt is in flight.
LEMMA PeekStep ==
    ASSUME LazyOpenInv, NEW k \in Closers, Peek(k)
    PROVE  LazyOpenInv'
  <1> USE AttemptNumbers DEF LazyOpenInv, Peek, CloserGoto, resource, flight
  <1>1. TypeOK'
    BY LazyOpenAssumption DEF TypeOK, CallerStates, CloserStates, Attempts, Numbered
  <1>2. Numbered'
    BY DEF Numbered, TypeOK
  <1>3. OneAttempt'
    BY DEF OneAttempt, Busy, TypeOK
  <1>4. Held'
    BY DEF Held, OneAttempt, Busy, TypeOK, Numbered
  <1>5. Counted'
    BY DEF Counted, Held, OneAttempt, OneCloser, Awaited, Busy, Active, TypeOK, Numbered
  <1>6. OneCloser'
    BY DEF OneCloser, Active, TypeOK
  <1>7. Awaited'
    BY DEF Awaited, OneCloser, OneAttempt, Held, Busy, Active, TypeOK
  <1> QED
    BY <1>1, <1>2, <1>3, <1>4, <1>5, <1>6, <1>7

\* The attempt has ended: Close looks again.
LEMMA PeekWokenStep ==
    ASSUME LazyOpenInv, NEW k \in Closers, PeekWoken(k)
    PROVE  LazyOpenInv'
  <1> USE AttemptNumbers DEF LazyOpenInv, PeekWoken, CloserGoto, resource, flight
  <1>1. TypeOK'
    BY LazyOpenAssumption DEF TypeOK, CallerStates, CloserStates, Attempts, Numbered
  <1>2. Numbered'
    BY DEF Numbered, TypeOK
  <1>3. OneAttempt'
    BY DEF OneAttempt, Busy, TypeOK
  <1>4. Held'
    BY DEF Held, OneAttempt, Busy, TypeOK, Numbered
  <1>5. Counted'
    BY DEF Counted, Held, OneAttempt, OneCloser, Awaited, Busy, Active, TypeOK, Numbered
  <1>6. OneCloser'
    BY DEF OneCloser, Active, TypeOK
  <1>7. Awaited'
    BY DEF Awaited, OneCloser, OneAttempt, Held, Busy, Active, TypeOK
  <1> QED
    BY <1>1, <1>2, <1>3, <1>4, <1>5, <1>6, <1>7

\* Close closes the cached resource.
LEMMA CloseEndsStep ==
    ASSUME LazyOpenInv, NEW k \in Closers, CloseEnds(k)
    PROVE  LazyOpenInv'
  <1> USE AttemptNumbers DEF LazyOpenInv, CloseEnds, CloserGoto, Shut, flight
  <1>0. ready /\ value \in live /\ value \in Attempts
    BY DEF Awaited, Active, TypeOK
  <1>1. TypeOK'
    BY <1>0, LazyOpenAssumption DEF TypeOK, CallerStates, CloserStates, Attempts, Numbered
  <1>2. Numbered'
    BY DEF Numbered, TypeOK
  <1>3. OneAttempt'
    BY DEF OneAttempt, Busy, TypeOK
  <1>4. Held'
    BY <1>0 DEF Held, OneAttempt, Busy, TypeOK, Numbered
  <1>5. Counted'
    BY <1>0 DEF Counted, Held, OneAttempt, OneCloser, Awaited, Busy, Active, TypeOK, Numbered
  <1>6. OneCloser'
    BY DEF OneCloser, Active, TypeOK
  <1>7. Awaited'
    BY DEF Awaited, OneCloser, OneAttempt, Held, Busy, Active, TypeOK
  <1> QED
    BY <1>1, <1>2, <1>3, <1>4, <1>5, <1>6, <1>7

\* Every step of callers and closers keeps the invariant.
LEMMA NextLazyOpen == LazyOpenInv /\ [Next]_vars => LazyOpenInv'
  <1> SUFFICES ASSUME LazyOpenInv, [Next]_vars PROVE LazyOpenInv'
    OBVIOUS
  <1>1. CASE \E c \in Callers : Wait(c)
    BY <1>1, WaitStep
  <1>2. CASE \E c \in Callers : Attempt(c)
    BY <1>2, DoAttemptStep, OpenFailsStep, OpenSucceedsStep, CheckClosedStep, AttemptEndsStep DEF Attempt
  <1>3. CASE \E k \in Closers : Close(k)
    BY <1>3, CloseBeginsStep, PeekStep, PeekWokenStep, CloseEndsStep DEF Close
  <1>4. CASE UNCHANGED vars
    BY <1>4 DEF LazyOpenInv, vars, flight, resource, TypeOK, Numbered, OneAttempt, Held,
                Counted, OneCloser, Awaited, Busy, Active
  <1> QED
    BY <1>1, <1>2, <1>3, <1>4 DEF Next

\* However many goroutines publish and close at once, the bookkeeping of
\* SingleFlight, Publisher and Writer stays consistent with what is open.
THEOREM LazyOpenIsConsistent == Spec => []LazyOpenInv
  BY InitLazyOpen, NextLazyOpen, PTL DEF Spec

\* Concurrent first calls of Do share one resource.
THEOREM LazyOpenShares == Spec => []SharesOne
  <1>1. LazyOpenInv => SharesOne
    BY DEF LazyOpenInv, SharesOne, Held, OneAttempt, Busy
  <1> QED
    BY <1>1, LazyOpenIsConsistent, PTL

\* Open and Close may race in any way: no resource stays open behind them.
THEOREM LazyOpenLeaksNothing == Spec => []NoneLeaked
  <1>1. LazyOpenInv => NoneLeaked
    BY DEF LazyOpenInv, NoneLeaked, Held, OneAttempt, Awaited, Busy, Active
  <1> QED
    BY <1>1, LazyOpenIsConsistent, PTL

\* No resource is closed by the late caller and by Close, or by two Closes.
THEOREM LazyOpenClosesOnce == Spec => []ClosedAtMostOnce
  <1>1. LazyOpenInv => ClosedAtMostOnce
    BY DEF LazyOpenInv, Counted, ClosedAtMostOnce
  <1> QED
    BY <1>1, LazyOpenIsConsistent, PTL

-----------------------------------------------------------------------------
(* BigQueryStream implements LazyOpen.                                     *)

\* Streams NewManagedStream has yet to make, or managedOpener to return.
BeingOpened == {own[c] : c \in {d \in Callers : pc[d] = "opening"}}

\* During an attempt there is a stream exactly if the set-up is done; attempts
\* are numbered, and one caller at most runs one.
StreamInv ==
    /\ pc \in [Callers -> CallerStates]
    /\ own \in [Callers -> Attempts \union {None}]
    /\ opens \in Attempts \union {None}
    /\ setupDone \in [Attempts -> BOOLEAN]
    /\ live \subseteq Attempts
    /\ cpc \in [Closers -> CloserStates]
    /\ \A n \in live : n <= opens
    /\ \A n \in Attempts : n > opens => ~setupDone[n]
    /\ \A c \in Callers : Busy(c) => own[c] \in 1..opens /\ own[c] = call
    /\ \A c, d \in Callers : Busy(c) /\ Busy(d) => c = d
    /\ \A c \in Callers : pc[c] = "opening" => (own[c] \in live <=> setupDone[own[c]])
    /\ ready => \A c \in Callers : ~Busy(c)
    /\ \A k \in Closers : cpc[k] = "closing" => ready

\* A step outside the set-up.
LEMMA StreamIdle ==
  ASSUME StreamInv, UNCHANGED <<own, flight, setupDone>>, live' \subseteq live,
         \A n \in BeingOpened : n \in live => n \in live',
         pc' \in [Callers -> CallerStates],
         \A c \in Callers : /\ Busy(c)' <=> Busy(c)
                            /\ pc'[c] = "opening" <=> pc[c] = "opening",
         cpc' \in [Closers -> CloserStates],
         \A k \in Closers : cpc'[k] = "closing" => cpc[k] = "closing" \/ ready
  PROVE  StreamInv' /\ BeingOpened' = BeingOpened
<1>1. BeingOpened' = BeingOpened
  BY DEF BeingOpened
<1>2. UNCHANGED <<own, opens, call, ready, value, setupDone>>
  BY DEF flight
<1>3. \A c \in Callers : pc[c] = "opening" => own[c] \in BeingOpened
  BY DEF BeingOpened
<1> QED BY <1>1, <1>2, <1>3 DEF StreamInv

\* The waiting half of Do, and the goroutine's own steps.
LEMMA StreamWaits ==
  ASSUME StreamInv, NEW c \in Callers, Wait(c), UNCHANGED setup
  PROVE  StreamInv' /\ Lazy!Wait(c)
<1>1. /\ \E s \in CallerStates \ {"opening", "opened", "keep", "drop"} : Goto(c, s)
      /\ ~Busy(c) /\ UNCHANGED <<own, flight, closed, cpc, resource, setupDone>>
  BY DEF Wait, Open, DoReady, DoWait, DoWoken, DoGivesUp, Used, Busy, CallerStates, setup
<1>2. PICK s \in CallerStates \ {"opening", "opened", "keep", "drop"} : Goto(c, s)
  BY <1>1
<1>3. pc' \in [Callers -> CallerStates] /\ \A d \in Callers : pc'[d] = IF d = c THEN s ELSE pc[d]
  BY <1>2 DEF Goto, StreamInv
<1>4. \A d \in Callers : (Busy(d)' <=> Busy(d)) /\ (pc'[d] = "opening" <=> pc[d] = "opening")
  BY <1>1, <1>3 DEF Busy
<1>5. UNCHANGED <<own, flight, setupDone, live, cpc>>
  BY <1>1 DEF resource
<1>6. StreamInv' /\ BeingOpened' = BeingOpened
  BY <1>3, <1>4, <1>5, StreamIdle DEF StreamInv
<1>7. UNCHANGED <<live \ BeingOpened, closings>>
  BY <1>1, <1>6 DEF resource
<1> QED
  BY <1>6, <1>7
     DEF Wait, Open, DoReady, DoWait, DoWoken, DoGivesUp, Used, Goto, flight, resource, BeingOpened,
         Lazy!Wait, Lazy!Open, Lazy!DoReady, Lazy!DoWait, Lazy!DoWoken, Lazy!DoGivesUp, Lazy!Used,
         Lazy!Goto, Lazy!flight, Lazy!resource, Lazy!None, None

LEMMA StreamOutside ==
  ASSUME StreamInv, UNCHANGED <<vars, setupDone>>
  PROVE  StreamInv' /\ UNCHANGED Lazy!vars
<1>1. UNCHANGED <<pc, own, waits, opens, call, ready, value, closed, cpc, live, closings, setupDone>>
  BY DEF vars, flight, resource
<1>2. StreamInv'
  BY <1>1 DEF StreamInv, Busy
<1> QED BY <1>1, <1>2 DEF Lazy!vars, Lazy!flight, Lazy!resource

\* An attempt begins with a number that no stream has.
LEMMA StreamStarts ==
  ASSUME StreamInv, NEW c \in Callers, OpenerStarts(c)
  PROVE  StreamInv' /\ Lazy!DoAttempt(c)
<1>1. /\ DoAttempt(c) /\ UNCHANGED setupDone
  BY DEF OpenerStarts
<1>2. /\ pc[c] = "do" /\ ~ready /\ call = None /\ opens < MaxOpens
      /\ opens' = opens + 1 /\ call' = opens + 1 /\ own' = [own EXCEPT ![c] = opens + 1]
      /\ pc' = [pc EXCEPT ![c] = "opening"]
      /\ UNCHANGED <<waits, ready, value, closed, cpc, live, closings>>
  BY <1>1 DEF DoAttempt, Goto, resource
<1>3. /\ \A d \in Callers : pc'[d] = IF d = c THEN "opening" ELSE pc[d]
      /\ \A d \in Callers : own'[d] = IF d = c THEN opens + 1 ELSE own[d]
  BY <1>2 DEF StreamInv
<1>4. opens \in Nat /\ opens + 1 \in Attempts /\ opens + 1 \notin live /\ ~setupDone[opens + 1]
  BY <1>2, AttemptNumbers, LazyOpenAssumption DEF StreamInv, Attempts, None
<1>5. \A d \in Callers : ~Busy(d)
  BY <1>2 DEF StreamInv, None
<1>6. BeingOpened = {} /\ BeingOpened' = {opens + 1}
  BY <1>3, <1>5 DEF BeingOpened, Busy
<1>7. StreamInv'
  <2>1. /\ pc' \in [Callers -> CallerStates] /\ own' \in [Callers -> Attempts \union {None}]
        /\ opens' \in Attempts /\ opens' \in Nat
    BY <1>2, <1>4 DEF StreamInv, CallerStates
  <2>2. \A d \in Callers : Busy(d)' => d = c
    BY <1>3, <1>5 DEF Busy
  <2>3. \A n \in live : n <= opens'
    BY <1>2, <1>4, AttemptNumbers DEF StreamInv
  <2>4. \A n \in Attempts : n > opens' => ~setupDone[n]
    BY <1>2, <1>4, AttemptNumbers DEF StreamInv
  <2>5. own'[c] \in 1..opens' /\ own'[c] = call'
    BY <1>2, <1>3, <1>4
  <2> QED BY <1>1, <1>2, <1>3, <1>4, <2>1, <2>2, <2>3, <2>4, <2>5 DEF StreamInv
<1>8. UNCHANGED <<live \ BeingOpened, closings>>
  BY <1>2, <1>4, <1>6
<1> QED
  BY <1>2, <1>7, <1>8 DEF BeingOpened, Lazy!DoAttempt, Lazy!Goto, Lazy!resource, Lazy!None, None

\* What the caller in managedOpener may rely on.
LEMMA SettingUp ==
  ASSUME StreamInv, NEW c \in Callers, pc[c] = "opening"
  PROVE  /\ own[c] \in Attempts /\ own[c] = call /\ ~ready
         /\ BeingOpened = {own[c]}
         /\ \A d \in Callers : Busy(d) => d = c
<1>1. Busy(c) /\ \A d \in Callers : pc[d] = "opening" => Busy(d)
  BY DEF Busy
<1>2. \A d \in Callers : Busy(d) => d = c
  BY <1>1 DEF StreamInv
<1>3. BeingOpened = {own[c]}
  BY <1>1, <1>2 DEF BeingOpened
<1>4. own[c] \in 1..opens /\ opens \in Attempts \union {None} /\ own[c] = call /\ ~ready
  BY <1>1 DEF StreamInv
<1>5. own[c] \in Attempts
  BY <1>4, LazyOpenAssumption DEF Attempts, None
<1> QED BY <1>2, <1>3, <1>4, <1>5

\* A stream is there, but managedOpener has not returned it.
LEMMA StreamIsMade ==
  ASSUME StreamInv, NEW c \in Callers, SetupReturns(c)
  PROVE  StreamInv' /\ UNCHANGED Lazy!vars
<1>1. /\ pc[c] = "opening" /\ live' = live \union {own[c]}
      /\ setupDone' = [setupDone EXCEPT ![own[c]] = TRUE]
      /\ UNCHANGED <<pc, own, waits, opens, call, ready, value, closed, cpc, closings>>
  BY DEF SetupReturns, flight
<1>2. own[c] \in Attempts /\ BeingOpened = {own[c]} /\ \A d \in Callers : Busy(d) => d = c
  BY <1>1, SettingUp
<1>3. BeingOpened' = BeingOpened
  BY <1>1 DEF BeingOpened
<1>4. own[c] <= opens
  BY <1>1, <1>2, AttemptNumbers DEF StreamInv, Busy, None
<1>5. /\ setupDone' \in [Attempts -> BOOLEAN] /\ setupDone'[own[c]]
      /\ \A n \in Attempts : n # own[c] => setupDone'[n] = setupDone[n]
  BY <1>1, <1>2 DEF StreamInv
<1>6. \A n \in Attempts : n > opens => n # own[c]
  BY <1>2, <1>4, AttemptNumbers DEF StreamInv
<1>7. \A d \in Callers : pc[d] = "opening" => d = c
  BY <1>2 DEF Busy
<1>8. StreamInv'
  BY <1>1, <1>2, <1>4, <1>5, <1>6, <1>7 DEF StreamInv, Busy
<1>9. UNCHANGED (live \ BeingOpened)
  BY <1>1, <1>2, <1>3
<1> QED BY <1>1, <1>8, <1>9 DEF BeingOpened, Lazy!vars, Lazy!flight, Lazy!resource

\* managedOpener returns an error: no stream is left of the attempt.
LEMMA StreamIsNotMade ==
  ASSUME StreamInv, NEW c \in Callers, SetupFails(c) \/ SetupAbandoned(c)
  PROVE  StreamInv' /\ Lazy!OpenFails(c)
<1>1. /\ pc[c] = "opening" /\ call' = None /\ pc' = [pc EXCEPT ![c] = "idle"]
      /\ UNCHANGED <<own, waits, opens, ready, value, closed, cpc, closings>>
      /\ \/ ~setupDone[own[c]] /\ live' = live /\ setupDone' = [setupDone EXCEPT ![own[c]] = TRUE]
         \/ live' = live \ {own[c]} /\ setupDone' = setupDone
  BY DEF SetupFails, SetupAbandoned, OpenFails, Goto, resource, setup
<1>2. own[c] \in Attempts /\ BeingOpened = {own[c]} /\ \A d \in Callers : Busy(d) => d = c
  BY <1>1, SettingUp
<1>3. live' = live \ {own[c]}
  BY <1>1 DEF StreamInv
<1>4. /\ pc' \in [Callers -> CallerStates]
      /\ \A d \in Callers : pc'[d] = IF d = c THEN "idle" ELSE pc[d]
  BY <1>1 DEF StreamInv, CallerStates
<1>5. \A d \in Callers : ~Busy(d)' /\ pc'[d] # "opening"
  BY <1>2, <1>4 DEF Busy
<1>6. BeingOpened' = {}
  BY <1>5 DEF BeingOpened
<1>7. own[c] <= opens
  BY <1>1 DEF StreamInv, Busy
<1>8. /\ setupDone' \in [Attempts -> BOOLEAN]
      /\ \A n \in Attempts : n > opens => ~setupDone'[n]
  <2>1. \A n \in Attempts : n > opens => n # own[c]
    BY <1>2, <1>7, AttemptNumbers DEF StreamInv
  <2> QED BY <1>1, <1>2, <2>1 DEF StreamInv
<1>9. StreamInv'
  BY <1>1, <1>3, <1>4, <1>5, <1>8 DEF StreamInv
<1>10. UNCHANGED <<live \ BeingOpened, closings>>
  BY <1>1, <1>2, <1>3, <1>6
<1> QED
  BY <1>1, <1>9, <1>10 DEF BeingOpened, Lazy!OpenFails, Lazy!Goto, Lazy!resource, Lazy!None, None

\* managedOpener returns the stream.
LEMMA StreamIsKept ==
  ASSUME StreamInv, NEW c \in Callers, SetupKept(c)
  PROVE  StreamInv' /\ Lazy!OpenSucceeds(c)
<1>1. /\ pc[c] = "opening" /\ setupDone[own[c]] /\ pc' = [pc EXCEPT ![c] = "opened"]
      /\ UNCHANGED <<own, waits, opens, call, ready, value, closed, cpc, live, closings, setupDone>>
  BY DEF SetupKept, Goto, flight, resource, setup
<1>2. own[c] \in Attempts /\ BeingOpened = {own[c]} /\ \A d \in Callers : Busy(d) => d = c
  BY <1>1, SettingUp
<1>3. own[c] \in live
  BY <1>1 DEF StreamInv
<1>4. /\ pc' \in [Callers -> CallerStates]
      /\ \A d \in Callers : pc'[d] = IF d = c THEN "opened" ELSE pc[d]
  BY <1>1 DEF StreamInv, CallerStates
<1>5. \A d \in Callers : (Busy(d)' <=> Busy(d)) /\ pc'[d] # "opening"
  BY <1>1, <1>2, <1>4 DEF Busy
<1>6. BeingOpened' = {}
  BY <1>5 DEF BeingOpened
<1>7. StreamInv'
  BY <1>1, <1>4, <1>5 DEF StreamInv
<1>8. (live \ BeingOpened)' = (live \ BeingOpened) \union {own[c]}
  BY <1>1, <1>2, <1>3, <1>6
<1> QED
  BY <1>1, <1>7, <1>8 DEF BeingOpened, Lazy!OpenSucceeds, Lazy!Goto, Lazy!flight

\* The appender is closed by the late caller, or the attempt goes on.
LEMMA StreamIsChecked ==
  ASSUME StreamInv, NEW c \in Callers, AppenderCloses(CheckClosed(c), own[c])
  PROVE  StreamInv' /\ Lazy!CheckClosed(c)
<1>1. /\ pc[c] = "opened"
      /\ \/ closed /\ pc' = [pc EXCEPT ![c] = "drop"] /\ Shut(own[c])
         \/ ~closed /\ pc' = [pc EXCEPT ![c] = "keep"] /\ UNCHANGED <<live, closings>>
      /\ UNCHANGED <<own, waits, opens, call, ready, value, closed, cpc, setupDone>>
  BY DEF AppenderCloses, CheckClosed, Goto, flight, resource
<1>2. PICK s \in {"drop", "keep"} : pc' = [pc EXCEPT ![c] = s]
  BY <1>1
<1>3. pc' \in [Callers -> CallerStates] /\ \A d \in Callers : pc'[d] = IF d = c THEN s ELSE pc[d]
  BY <1>2 DEF StreamInv, CallerStates
<1>4. \A d \in Callers : (Busy(d)' <=> Busy(d)) /\ (pc'[d] = "opening" <=> pc[d] = "opening")
  BY <1>1, <1>3 DEF Busy
<1>5. live' \subseteq live /\ UNCHANGED <<own, flight, setupDone, cpc>>
  BY <1>1 DEF Shut, flight
<1>6. BeingOpened = {}
  BY <1>1 DEF BeingOpened, StreamInv, Busy
<1>7. StreamInv' /\ BeingOpened' = BeingOpened
  BY <1>3, <1>4, <1>5, <1>6, StreamIdle DEF StreamInv
<1>8. (live \ BeingOpened)' = live' /\ live \ BeingOpened = live
  BY <1>6, <1>7
<1> QED
  BY <1>1, <1>7, <1>8
     DEF Shut, BeingOpened, Lazy!CheckClosed, Lazy!Shut, Lazy!Goto, Lazy!flight, Lazy!resource

\* SingleFlight.attempt's deferred part.
LEMMA StreamAttemptEnds ==
  ASSUME StreamInv, NEW c \in Callers, AttemptEnds(c), UNCHANGED setup
  PROVE  StreamInv' /\ Lazy!AttemptEnds(c)
<1>1. /\ \/ pc[c] = "keep" /\ ready' = TRUE /\ value' = own[c] /\ pc' = [pc EXCEPT ![c] = "using"]
         \/ pc[c] = "drop" /\ pc' = [pc EXCEPT ![c] = "idle"] /\ UNCHANGED <<ready, value>>
      /\ call' = None
      /\ UNCHANGED <<own, waits, opens, closed, cpc, live, closings, setupDone>>
  BY DEF AttemptEnds, Goto, resource, setup
<1>2. PICK s \in {"using", "idle"} : pc' = [pc EXCEPT ![c] = s]
  BY <1>1
<1>3. pc' \in [Callers -> CallerStates] /\ \A d \in Callers : pc'[d] = IF d = c THEN s ELSE pc[d]
  BY <1>2 DEF StreamInv, CallerStates
<1>4. \A d \in Callers : Busy(d) => d = c
  BY <1>1 DEF StreamInv, Busy
<1>5. /\ \A d \in Callers : ~Busy(d)' /\ pc'[d] # "opening"
      /\ \A d \in Callers : pc[d] # "opening"
  BY <1>1, <1>3, <1>4 DEF Busy
<1>6. BeingOpened' = {} /\ BeingOpened = {}
  BY <1>5 DEF BeingOpened
<1>7. \A k \in Closers : cpc[k] = "closing" => ready'
  BY <1>1 DEF StreamInv
<1>8. StreamInv'
  BY <1>1, <1>3, <1>5, <1>7 DEF StreamInv
<1>9. UNCHANGED <<live \ BeingOpened, closings>>
  BY <1>1, <1>6
<1> QED
  BY <1>1, <1>8, <1>9 DEF BeingOpened, Lazy!AttemptEnds, Lazy!Goto, Lazy!resource, Lazy!None, None

\* Close before it closes anything.
LEMMA StreamCloseWaits ==
  ASSUME StreamInv, NEW k \in Closers, CloseBegins(k) \/ Peek(k) \/ PeekWoken(k), UNCHANGED setup
  PROVE  StreamInv' /\ Lazy!Close(k)
<1>1. /\ UNCHANGED <<pc, own, opens, call, ready, value, live, closings, setupDone>>
      /\ \E s \in CloserStates : CloserGoto(k, s) /\ (s = "closing" => ready)
  BY DEF CloseBegins, Peek, PeekWoken, CloserStates, flight, resource, setup
<1>2. PICK s \in CloserStates : CloserGoto(k, s) /\ (s = "closing" => ready)
  BY <1>1
<1>3. cpc' \in [Closers -> CloserStates] /\ \A j \in Closers : cpc'[j] = IF j = k THEN s ELSE cpc[j]
  BY <1>2 DEF CloserGoto, StreamInv
<1>4. UNCHANGED flight /\ pc' \in [Callers -> CallerStates]
  BY <1>1 DEF flight, StreamInv
<1>5. \A d \in Callers : (Busy(d)' <=> Busy(d)) /\ (pc'[d] = "opening" <=> pc[d] = "opening")
  BY <1>1 DEF Busy
<1>6. StreamInv' /\ BeingOpened' = BeingOpened
  BY <1>1, <1>2, <1>3, <1>4, <1>5, StreamIdle
<1>7. UNCHANGED <<live \ BeingOpened, closings>>
  BY <1>1, <1>6
<1> QED
  BY <1>6, <1>7
     DEF CloseBegins, Peek, PeekWoken, CloserGoto, flight, BeingOpened, None, Lazy!Close,
         Lazy!CloseBegins, Lazy!Peek, Lazy!PeekWoken, Lazy!CloserGoto, Lazy!flight, Lazy!resource, Lazy!None

\* Close closes the cached stream; none is being set up then.
LEMMA StreamCloseEnds ==
  ASSUME StreamInv, NEW k \in Closers, AppenderCloses(CloseEnds(k), value)
  PROVE  StreamInv' /\ Lazy!CloseEnds(k)
<1>1. /\ cpc[k] = "closing" /\ Shut(value) /\ cpc' = [cpc EXCEPT ![k] = "done"]
      /\ UNCHANGED <<pc, own, waits, flight, closed, setupDone>>
  BY DEF AppenderCloses, CloseEnds, CloserGoto
<1>2. ready /\ \A c \in Callers : ~Busy(c)
  BY <1>1 DEF StreamInv
<1>3. BeingOpened = {}
  BY <1>2 DEF BeingOpened, Busy
<1>4. live' = live \ {value} /\ pc' \in [Callers -> CallerStates] /\ cpc' \in [Closers -> CloserStates]
  BY <1>1 DEF Shut, StreamInv, CloserStates
<1>5. \A d \in Callers : (Busy(d)' <=> Busy(d)) /\ (pc'[d] = "opening" <=> pc[d] = "opening")
  BY <1>1 DEF Busy
<1>6. StreamInv' /\ BeingOpened' = BeingOpened
  BY <1>1, <1>2, <1>3, <1>4, <1>5, StreamIdle
<1>7. (live \ BeingOpened)' = live' /\ live \ BeingOpened = live
  BY <1>3, <1>6
<1> QED
  BY <1>1, <1>6, <1>7 DEF Shut, flight, BeingOpened, Lazy!CloseEnds, Lazy!Shut, Lazy!CloserGoto, Lazy!flight

\* The managed stream of the BigQuery Writer is a lazily opened resource:
\* whatever the order of the goroutine, the write's context and
\* NewManagedStream, it takes the steps of LazyOpen, whose theorems then hold
\* of the streams managedOpener has returned.
THEOREM StreamIsLazilyOpened == StreamSpec => ImplementsLazyOpen
<1>1. StreamInit => StreamInv /\ Lazy!Init
  <2> SUFFICES ASSUME StreamInit PROVE StreamInv /\ Lazy!Init
    OBVIOUS
  <2>1. StreamInv
    BY LazyOpenAssumption
       DEF StreamInit, Init, StreamInv, Busy, CallerStates, CloserStates, Attempts, None
  <2>2. live \ BeingOpened = {}
    BY DEF StreamInit, Init
  <2> QED BY <2>1, <2>2 DEF StreamInit, Init, BeingOpened, Lazy!Init, Lazy!None, None, Lazy!Attempts, Attempts
<1>2. StreamInv /\ [StreamNext]_allVars => StreamInv' /\ [Lazy!Next]_Lazy!vars
  <2> SUFFICES ASSUME StreamInv, [StreamNext]_allVars PROVE StreamInv' /\ [Lazy!Next]_Lazy!vars
    OBVIOUS
  <2>1. ASSUME NEW c \in Callers, Caller(c)
        PROVE  StreamInv' /\ [Lazy!Next]_Lazy!vars
    <3>1. StreamInv' /\ (Lazy!Wait(c) \/ Lazy!Attempt(c) \/ UNCHANGED Lazy!vars)
      BY <2>1, StreamWaits, StreamStarts, StreamIsMade, StreamIsNotMade, StreamIsKept, StreamIsChecked,
         StreamAttemptEnds DEF Caller, Lazy!Attempt
    <3> QED BY <3>1 DEF Lazy!Next
  <2>2. ASSUME NEW k \in Closers, Closer(k)
        PROVE  StreamInv' /\ [Lazy!Next]_Lazy!vars
    <3>1. StreamInv' /\ Lazy!Close(k)
      BY <2>2, StreamCloseWaits, StreamCloseEnds DEF Closer, Lazy!Close
    <3> QED BY <3>1 DEF Lazy!Next
  <2>3. ASSUME NEW n \in Attempts,
               ContextEnds(n) \/ WatcherSelects(n) \/ WatcherSelectsContext(n) \/ WatcherCancels(n)
        PROVE  StreamInv' /\ [Lazy!Next]_Lazy!vars
    BY <2>3, StreamOutside DEF ContextEnds, WatcherSelects, WatcherSelectsContext, WatcherCancels
  <2>4. CASE UNCHANGED allVars
    BY <2>4, StreamOutside DEF allVars, setup
  <2> QED BY <2>1, <2>2, <2>3, <2>4 DEF StreamNext
<1> QED BY <1>1, <1>2, PTL DEF StreamSpec, ImplementsLazyOpen, Lazy!Spec
=============================================================================

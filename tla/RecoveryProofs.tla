--------------------------- MODULE RecoveryProofs ---------------------------
(***************************************************************************)
(* Proofs about Recovery: incremental scans overlook no failed delivery,   *)
(* and a pending GUID is left alone within grace, for any GUIDs and any    *)
(* intervals, where GitHub lists an attempt within the overlap.            *)
(***************************************************************************)
EXTENDS Recovery, WellFoundedInduction, TLAPS

\* What the overlap is for.  Without it an attempt that is listed late falls
\* between two windows.
ListedWithinOverlap == ListDelay <= Overlap

\* GitHub's side: a 2xx is remembered, attempts are listed in time, old ones gone.
GitHubOK ==
    \A n \in DOMAIN attempts :
        /\ attempts[n].status = "ok" => attempts[n].guid \in accepted
        /\ attempts[n].status = "open" => attempts[n].age <= ListDelay
        /\ attempts[n].age < OldAge

\* The last listing is no younger than the scan going on.
ClocksOK ==
    /\ scanned => scanNow <= lastScan
    /\ phase # "redeliver" => due = {}

\* What the next window leaves out is remembered, by its newest attempt.
Remembered ==
    ListedWithinOverlap /\ scanned => \A n \in DOMAIN attempts :
        LET a == attempts[n]
        IN  a.guid \notin accepted /\ a.age > lastScan + Overlap /\ a.age <= lastScan + Lookback =>
                a.guid \in DOMAIN pending /\ pending[a.guid].latest <= a.age

\* The newest attempt of a pending GUID is one that GitHub has on record, unless
\* it is older than anything a scan looks at.
PendingIsOnRecord ==
    \A g \in DOMAIN pending :
        \/ pending[g].latest = OldAge
        \/ \E n \in DOMAIN attempts : /\ attempts[n].guid = g /\ attempts[n].status \in Recorded
                                      /\ attempts[n].age = pending[g].latest

\* The entry knows when it was asked for last, and what is due is past grace.
AskedIsKnown ==
    /\ \A g \in DOMAIN asked : g \in DOMAIN pending /\ pending[g].requested = asked[g]
    /\ \A g \in due : pending[g].requested >= scanNow + Grace

RecoveryInv ==
    /\ RecoveryTypeOK
    /\ GitHubOK
    /\ ClocksOK
    /\ Remembered
    /\ PendingIsOnRecord
    /\ AskedIsKnown

-----------------------------------------------------------------------------
(* Ages and listings.                                                      *)

LEMMA OlderAge ==
  ASSUME NEW age \in Ages
  PROVE  /\ Older(age) \in Ages /\ age <= Older(age) /\ Older(age) <= age + 1
         /\ age < OldAge => Older(age) = age + 1
         /\ age = OldAge => Older(age) = OldAge
BY RecoveryAssumption DEF Older, Ages, OldAge

LEMMA OlderNever == Older(Never) = Never
BY RecoveryAssumption DEF Older, Never, OldAge

LEMMA LeastNatural ==
  ASSUME NEW S, S \subseteq Nat, S # {}
  PROVE  \E n \in S : \A m \in S : n <= m
<1> DEFINE R == {ss \in Nat \X Nat : ss[1] < ss[2]}
<1>1. IsWellFoundedOn(R, Nat)
  BY NatLessThanWellFounded DEF OpToRel
<1>2. PICK n \in S : \A m \in S : <<m, n>> \notin R
  <2> HIDE DEF R
  <2> QED BY <1>1, WFMin
<1>3. ASSUME NEW m \in S PROVE n <= m
  <2>1. m \in Nat /\ n \in Nat /\ <<m, n>> \notin R
    BY <1>2
  <2>2. ~(m < n)
    BY <2>1
  <2> QED BY <2>1, <2>2
<1> QED BY <1>3

\* The newest of some attempts is one of them and no older than any.
LEMMA LatestIsNewest ==
  ASSUME NEW A, A # {}, \A a \in A : a.age \in Nat
  PROVE  LatestAt(A) \in {a.age : a \in A} /\ \A a \in A : LatestAt(A) <= a.age
<1> DEFINE S == {a.age : a \in A}
<1>1. S \subseteq Nat /\ S # {}
  OBVIOUS
<1>2. \E age \in S : \A m \in S : age <= m
  <2> HIDE DEF S
  <2> QED BY <1>1, LeastNatural
<1>3. \E age \in S : \A a \in A : age <= a.age
  BY <1>2
<1> QED BY <1>3 DEF LatestAt

LEMMA LatestIsUnique ==
  ASSUME NEW A, \A a \in A : a.age \in Nat, NEW age \in {a.age : a \in A}, \A a \in A : age <= a.age
  PROVE  age = LatestAt(A)
<1>1. LatestAt(A) \in {a.age : a \in A} /\ \A a \in A : LatestAt(A) <= a.age
  BY LatestIsNewest
<1>2. age <= LatestAt(A) /\ LatestAt(A) <= age /\ age \in Nat /\ LatestAt(A) \in Nat
  BY <1>1
<1> QED BY <1>2

LEMMA ListedIsAttempt ==
  ASSUME NEW g, NEW window, NEW a \in Listed(g, window)
  PROVE  \E n \in DOMAIN attempts : a = attempts[n] /\ attempts[n].guid = g
BY DEF Listed, AttemptsOf

LEMMA MergedEntries ==
  ASSUME NEW window
  PROVE  /\ DOMAIN Merged(window) \subseteq Guids
         /\ \A g \in DOMAIN Merged(window) :
               /\ Listed(g, window) = {} => g \in DOMAIN pending /\ Merged(window)[g] = pending[g]
               /\ Listed(g, window) # {} =>
                     Merged(window)[g] = [latest |-> LatestAt(Listed(g, window)),
                                          requested |-> IF g \in DOMAIN pending
                                                        THEN pending[g].requested ELSE Never]
BY DEF Merged

\* merge keeps what nobody has accepted: an entry it lists, or one it has.
LEMMA MergedKeeps ==
  ASSUME NEW window, NEW g \in Guids, ~Succeeded(Listed(g, window))
  PROVE  /\ (Listed(g, window) # {} /\ LatestAt(Listed(g, window)) <= scanNow + Lookback) =>
               g \in DOMAIN Merged(window)
         /\ (Listed(g, window) = {} /\ g \in DOMAIN pending /\ pending[g].latest <= scanNow + Lookback) =>
               g \in DOMAIN Merged(window)
BY DEF Merged

\* The heart of it: one listing, whatever came before.
LEMMA ListingFinds ==
  ASSUME RecoveryInv, ListedWithinOverlap, phase = "list",
         NEW g \in Guids \ accepted, OnRecord(g) # {}
  PROVE  /\ g \in DOMAIN Merged(ListWindow)
         /\ Merged(ListWindow)[g].latest = LatestAt(OnRecord(g))
<1> DEFINE W == ListWindow
           L == Listed(g, W)
           R == OnRecord(g)
<1> USE RecoveryAssumption
<1>1. /\ scanNow \in Nat /\ lastScan \in Nat /\ (scanned => scanNow <= lastScan)
      /\ OldAge \in Nat /\ scanNow + Lookback < OldAge
  BY DEF RecoveryInv, RecoveryTypeOK, ClocksOK, Ages, OldAge
<1>2. /\ W \in Nat /\ W <= scanNow + Lookback
      /\ W < scanNow + Lookback => scanned /\ W = lastScan + Overlap
  BY <1>1 DEF ListWindow
<1>3. R = {a \in AttemptsOf(g) : a.status \in Recorded /\ a.age <= scanNow + Lookback}
  BY DEF OnRecord, Listed
<1>4. \A a \in AttemptsOf(g) : a.age \in Nat /\ a.guid = g /\ a.status # "ok"
  BY DEF AttemptsOf, RecoveryInv, RecoveryTypeOK, GitHubOK, Ages
<1>5. L = {a \in AttemptsOf(g) : a.status \in Recorded /\ a.age <= W}
  BY DEF Listed
<1> HIDE DEF W, L, R
<1>6. ~Succeeded(L) /\ \A a \in L \union R : a.age \in Nat
  BY <1>3, <1>4, <1>5 DEF Succeeded
<1>7. L = {a \in R : a.age <= W}
  BY <1>1, <1>2, <1>3, <1>4, <1>5
<1>8. LatestAt(R) \in {a.age : a \in R} /\ \A a \in R : LatestAt(R) <= a.age
  <2>1. R # {}
    BY DEF R
  <2> QED BY <1>6, <2>1, LatestIsNewest
<1>9. LatestAt(R) \in Nat /\ LatestAt(R) <= scanNow + Lookback
  BY <1>3, <1>6, <1>8
<1>10. CASE L # {}
  <2>1. LatestAt(R) <= W
    BY <1>2, <1>6, <1>7, <1>8, <1>9, <1>10
  <2>2. LatestAt(R) \in {a.age : a \in L} /\ \A a \in L : LatestAt(R) <= a.age
    BY <1>7, <1>8, <2>1
  <2>3. LatestAt(L) = LatestAt(R)
    BY <1>6, <2>2, LatestIsUnique
  <2>4. g \in DOMAIN Merged(W)
    BY <1>6, <1>9, <1>10, <2>3, MergedKeeps DEF L
  <2>5. Merged(W)[g].latest = LatestAt(L)
    BY <1>10, <2>4, MergedEntries DEF L
  <2> QED BY <2>3, <2>4, <2>5 DEF W, R
<1>11. CASE L = {}
  <2>1. PICK b \in R : b.age = LatestAt(R)
    BY <1>8
  <2>2. PICK n \in DOMAIN attempts : attempts[n] = b /\ b.guid = g
    BY <1>3, <2>1 DEF AttemptsOf
  <2>3. W < b.age /\ b.age <= scanNow + Lookback /\ b.age \in Nat
    BY <1>2, <1>6, <1>7, <1>9, <1>11, <2>1
  <2>4. scanned /\ W = lastScan + Overlap
    BY <1>1, <1>2, <2>3
  <2>5. b.age > lastScan + Overlap /\ b.age <= lastScan + Lookback
    BY <1>1, <2>3, <2>4
  <2>6. g \in DOMAIN pending /\ pending[g].latest <= b.age
    BY <2>2, <2>4, <2>5 DEF RecoveryInv, Remembered
  <2>7. pending[g].latest \in Nat /\ pending[g].latest # OldAge
    BY <1>1, <2>3, <2>6 DEF RecoveryInv, RecoveryTypeOK, PendingInfo, Ages
  <2>8. PICK m \in DOMAIN attempts : /\ attempts[m].guid = g /\ attempts[m].status \in Recorded
                                     /\ attempts[m].age = pending[g].latest
    BY <2>6, <2>7 DEF RecoveryInv, PendingIsOnRecord
  <2>9. attempts[m] \in R
    BY <1>1, <1>3, <2>3, <2>6, <2>7, <2>8 DEF AttemptsOf
  <2>10. pending[g].latest = LatestAt(R)
    BY <1>8, <1>9, <2>1, <2>6, <2>7, <2>8, <2>9
  <2>11. g \in DOMAIN Merged(W)
    BY <1>6, <1>9, <1>11, <2>6, <2>10, MergedKeeps DEF L
  <2>12. Merged(W)[g] = pending[g]
    BY <1>11, <2>11, MergedEntries DEF L
  <2> QED BY <2>10, <2>11, <2>12 DEF W, R
<1> QED BY <1>10, <1>11
-----------------------------------------------------------------------------
(* Steps.                                                                  *)

LEMMA ScanBounds ==
  ASSUME RecoveryInv
  PROVE  /\ scanNow \in Nat /\ lastScan \in Nat /\ OldAge \in Nat /\ Never = OldAge + 1
         /\ scanNow <= ScanTime /\ lastScan <= OldAge /\ 0 \in Ages /\ 0 \in 0..ScanTime
         /\ scanNow \in Ages /\ Lookback + Grace + ScanTime < OldAge
BY RecoveryAssumption DEF RecoveryInv, RecoveryTypeOK, Ages, OldAge, Never

\* Steps of a scan that change neither what GitHub nor what the target knows.
LEMMA ScanMovesOn ==
  ASSUME RecoveryInv, UNCHANGED <<attempts, accepted, scanned, lastScan, pending, asked>>,
         hook' \in BOOLEAN, degraded' \in BOOLEAN, failed' \in BOOLEAN, calm' \in BOOLEAN,
         phase' \in {"idle", "discover", "list", "redeliver"}, due' \subseteq due,
         budget' \in 0..MaxPerScan, phase' # "redeliver" => due' = {},
         scanNow' = scanNow \/ (scanNow' = 0 /\ due' = {})
  PROVE  RecoveryInv'
<1>1. RecoveryTypeOK'
  BY ScanBounds DEF RecoveryInv, RecoveryTypeOK
<1>2. GitHubOK' /\ Remembered' /\ PendingIsOnRecord'
  BY DEF RecoveryInv, GitHubOK, Remembered, PendingIsOnRecord
<1>3. ClocksOK'
  BY ScanBounds DEF RecoveryInv, ClocksOK
<1>4. AskedIsKnown'
  BY DEF RecoveryInv, AskedIsKnown
<1> QED BY <1>1, <1>2, <1>3, <1>4 DEF RecoveryInv

LEMMA QuietKeeps ==
  ASSUME RecoveryInv,
         \/ BeginScan \/ DiscoverHookID \/ ScanFails \/ RedeliverLimited \/ RedeliverDone
         \/ \E g \in Guids : RedeliverError(g)
  PROVE  RecoveryInv'
<1> USE DEF github, target, scan, history
<1>0. /\ hook \in BOOLEAN /\ degraded \in BOOLEAN /\ failed \in BOOLEAN /\ calm \in BOOLEAN
      /\ budget \in 0..MaxPerScan /\ (phase # "redeliver" => due = {})
      /\ 0 \in 0..MaxPerScan
  BY RecoveryAssumption DEF RecoveryInv, RecoveryTypeOK, ClocksOK
<1>1. CASE BeginScan
  BY <1>0, <1>1, ScanMovesOn DEF BeginScan
<1>2. CASE DiscoverHookID
  BY <1>0, <1>2, ScanMovesOn DEF DiscoverHookID
<1>3. CASE ScanFails
  BY <1>0, <1>3, ScanMovesOn DEF ScanFails, Finish
<1>4. CASE RedeliverLimited
  BY <1>0, <1>4, ScanMovesOn DEF RedeliverLimited, Finish
<1>5. CASE RedeliverDone
  BY <1>0, <1>5, ScanMovesOn DEF RedeliverDone, Finish
<1>6. ASSUME NEW g \in Guids, RedeliverError(g) PROVE RecoveryInv'
  <2>1. phase = "redeliver" /\ budget > 0 /\ budget' \in 0..MaxPerScan
    BY <1>0, <1>6, RecoveryAssumption DEF RedeliverError, NextDue
  <2>2. calm' \in BOOLEAN
    BY <1>6 DEF RedeliverError
  <2> QED BY <1>0, <1>6, <2>1, <2>2, ScanMovesOn DEF RedeliverError
<1> QED BY <1>1, <1>2, <1>3, <1>4, <1>5, <1>6

LEMMA DeliverKeeps ==
  ASSUME RecoveryInv, NEW g \in Guids, Deliver(g)
  PROVE  RecoveryInv'
<1> DEFINE new == [guid |-> g, age |-> 0, status |-> "open"]
<1>1. PICK n \in 1..MaxAttempts \ DOMAIN attempts :
         attempts' = [m \in DOMAIN attempts \union {n} |-> IF m = n THEN new ELSE attempts[m]]
  BY DEF Deliver
<1>2. /\ UNCHANGED <<accepted, hook, scanned, lastScan, pending, degraded>>
      /\ UNCHANGED <<phase, scanNow, due, budget, failed, asked, calm>>
  BY DEF Deliver, target, scan, history
<1>3. /\ DOMAIN attempts' = DOMAIN attempts \union {n} /\ attempts'[n] = new
      /\ \A m \in DOMAIN attempts : attempts'[m] = attempts[m]
  BY <1>1
<1>4. new.guid = g /\ new.age = 0 /\ new.status = "open"
      /\ new \in [guid : Guids, age : Ages, status : Recorded \union {"open"}]
  BY ScanBounds
<1> HIDE DEF new
<1>5. RecoveryTypeOK'
  <2>1. \A m \in DOMAIN attempts' :
           attempts'[m] \in [guid : Guids, age : Ages, status : Recorded \union {"open"}]
    BY <1>3, <1>4 DEF RecoveryInv, RecoveryTypeOK
  <2> QED BY <1>2, <2>1 DEF RecoveryInv, RecoveryTypeOK
<1>6. GitHubOK'
  BY <1>2, <1>3, <1>4, RecoveryAssumption DEF RecoveryInv, GitHubOK, OldAge
<1>7. Remembered'
  BY <1>2, <1>3, <1>4, ScanBounds, RecoveryAssumption DEF RecoveryInv, Remembered
<1>8. PendingIsOnRecord'
  BY <1>2, <1>3 DEF RecoveryInv, PendingIsOnRecord
<1>9. ClocksOK' /\ AskedIsKnown'
  BY <1>2 DEF RecoveryInv, ClocksOK, AskedIsKnown
<1> QED BY <1>5, <1>6, <1>7, <1>8, <1>9 DEF RecoveryInv

LEMMA RecordKeeps ==
  ASSUME RecoveryInv, NEW n, NEW status \in Recorded, Record(n, status)
  PROVE  RecoveryInv'
<1>1. /\ n \in DOMAIN attempts /\ attempts[n].status = "open"
      /\ attempts' = [attempts EXCEPT ![n].status = status]
      /\ accepted' = IF status = "ok" THEN accepted \union {attempts[n].guid} ELSE accepted
      /\ UNCHANGED <<hook, scanned, lastScan, pending, degraded>>
      /\ UNCHANGED <<phase, scanNow, due, budget, failed, asked, calm>>
  BY DEF Record, target, scan, history
<1>2. attempts[n] \in [guid : Guids, age : Ages, status : Recorded \union {"open"}]
  BY <1>1 DEF RecoveryInv, RecoveryTypeOK
<1>3. /\ DOMAIN attempts' = DOMAIN attempts
      /\ attempts'[n] = [attempts[n] EXCEPT !.status = status]
      /\ \A m \in DOMAIN attempts : m # n => attempts'[m] = attempts[m]
  BY <1>1
<1>4. /\ attempts'[n] \in [guid : Guids, age : Ages, status : Recorded \union {"open"}]
      /\ attempts'[n].guid = attempts[n].guid /\ attempts'[n].age = attempts[n].age
      /\ attempts'[n].status = status
  BY <1>2, <1>3
<1>5. \A m \in DOMAIN attempts :
         attempts'[m].guid = attempts[m].guid /\ attempts'[m].age = attempts[m].age
  BY <1>3, <1>4
<1>6. RecoveryTypeOK'
  <2>1. \A m \in DOMAIN attempts' :
           attempts'[m] \in [guid : Guids, age : Ages, status : Recorded \union {"open"}]
    BY <1>3, <1>4 DEF RecoveryInv, RecoveryTypeOK
  <2>2. accepted' \subseteq Guids
    BY <1>1, <1>2 DEF RecoveryInv, RecoveryTypeOK
  <2> QED BY <1>1, <2>1, <2>2 DEF RecoveryInv, RecoveryTypeOK
<1>7. accepted \subseteq accepted' /\ (status = "ok" => attempts[n].guid \in accepted')
  BY <1>1
<1>8. GitHubOK'
  <2> SUFFICES ASSUME NEW m \in DOMAIN attempts'
               PROVE  /\ attempts'[m].status = "ok" => attempts'[m].guid \in accepted'
                      /\ attempts'[m].status = "open" => attempts'[m].age <= ListDelay
                      /\ attempts'[m].age < OldAge
    BY DEF GitHubOK
  <2>1. CASE m = n
    BY <1>1, <1>3, <1>4, <1>7, <2>1 DEF RecoveryInv, GitHubOK, Recorded
  <2>2. CASE m # n
    BY <1>3, <1>7, <2>2 DEF RecoveryInv, GitHubOK
  <2> QED BY <2>1, <2>2
<1>9. Remembered'
  BY <1>1, <1>3, <1>5, <1>7 DEF RecoveryInv, Remembered
<1>10. PendingIsOnRecord'
  <2> SUFFICES ASSUME NEW g \in DOMAIN pending, pending[g].latest # OldAge
               PROVE  \E m \in DOMAIN attempts' : /\ attempts'[m].guid = g
                                                  /\ attempts'[m].status \in Recorded
                                                  /\ attempts'[m].age = pending[g].latest
    BY <1>1 DEF PendingIsOnRecord
  <2>1. PICK m \in DOMAIN attempts : /\ attempts[m].guid = g /\ attempts[m].status \in Recorded
                                     /\ attempts[m].age = pending[g].latest
    BY DEF RecoveryInv, PendingIsOnRecord
  <2>2. m # n
    BY <1>1, <2>1 DEF Recorded
  <2> QED BY <1>3, <2>1, <2>2
<1>11. ClocksOK' /\ AskedIsKnown'
  BY <1>1 DEF RecoveryInv, ClocksOK, AskedIsKnown
<1> QED BY <1>6, <1>8, <1>9, <1>10, <1>11 DEF RecoveryInv

LEMMA TickKeeps ==
  ASSUME RecoveryInv, Tick
  PROVE  RecoveryInv'
<1> USE RecoveryAssumption
<1> DEFINE D == {m \in DOMAIN attempts : Older(attempts[m].age) < OldAge}
<1>1. /\ \A n \in DOMAIN attempts : attempts[n].status = "open" => attempts[n].age < ListDelay
      /\ phase # "idle" => scanNow < ScanTime
      /\ attempts' = [n \in D |-> [attempts[n] EXCEPT !.age = Older(@)]]
      /\ lastScan' = Older(lastScan)
      /\ pending' = [g \in DOMAIN pending |->
             [latest |-> Older(pending[g].latest), requested |-> Older(pending[g].requested)]]
      /\ scanNow' = IF phase = "idle" THEN 0 ELSE scanNow + 1
      /\ asked' = [g \in DOMAIN asked |-> Older(asked[g])]
      /\ calm' = (calm /\ phase = "idle" /\ scanned /\ lastScan < Interval)
      /\ UNCHANGED <<accepted, hook, scanned, degraded, phase, due, budget, failed>>
  BY DEF Tick
<1>2. \A n \in DOMAIN attempts :
         /\ attempts[n] \in [guid : Guids, age : Ages, status : Recorded \union {"open"}]
         /\ attempts[n].age \in Nat /\ attempts[n].age < OldAge
         /\ Older(attempts[n].age) = attempts[n].age + 1
  BY OlderAge DEF RecoveryInv, RecoveryTypeOK, GitHubOK, Ages
<1>3. DOMAIN attempts' = D /\ D \subseteq DOMAIN attempts
  BY <1>1
<1>4. ASSUME NEW n \in D
      PROVE  /\ attempts'[n].guid = attempts[n].guid /\ attempts'[n].status = attempts[n].status
             /\ attempts'[n].age = attempts[n].age + 1 /\ attempts[n].age + 1 < OldAge
             /\ attempts'[n] \in [guid : Guids, age : Ages, status : Recorded \union {"open"}]
  <2>1. attempts'[n] = [attempts[n] EXCEPT !.age = attempts[n].age + 1] /\ n \in DOMAIN attempts
    BY <1>1, <1>2
  <2>2. attempts[n].age + 1 < OldAge /\ attempts[n].age + 1 \in Ages
    BY <1>2 DEF Ages, OldAge
  <2> QED BY <1>2, <2>1, <2>2
<1> HIDE DEF D
<1>5. \A g \in DOMAIN pending :
         /\ pending[g].latest \in Ages /\ pending[g].requested \in Ages \union {Never}
         /\ pending[g].latest \in Nat
  BY DEF RecoveryInv, RecoveryTypeOK, PendingInfo, Ages
<1>6. /\ DOMAIN pending' = DOMAIN pending
      /\ \A g \in DOMAIN pending : /\ pending'[g].latest = Older(pending[g].latest)
                                   /\ pending'[g].requested = Older(pending[g].requested)
                                   /\ pending'[g] \in PendingInfo
  <2>1. \A g \in DOMAIN pending :
           Older(pending[g].latest) \in Ages /\ Older(pending[g].requested) \in Ages \union {Never}
    BY <1>5, OlderAge, OlderNever
  <2> QED BY <1>1, <2>1 DEF PendingInfo
<1>7. scanNow' \in 0..ScanTime /\ lastScan' \in Ages /\ (scanned' => scanNow' <= lastScan')
  <2>1. lastScan \in Ages /\ lastScan' \in Ages /\ lastScan' \in Nat
    BY <1>1, OlderAge DEF RecoveryInv, RecoveryTypeOK, Ages
  <2>2. scanNow' \in 0..ScanTime
    BY <1>1, ScanBounds
  <2>3. lastScan' = lastScan + 1 \/ lastScan' = OldAge
    BY <1>1, <2>1, OlderAge DEF Ages, OldAge
  <2>4. ASSUME scanned PROVE scanNow' <= lastScan'
    BY <1>1, <2>1, <2>2, <2>3, <2>4, ScanBounds DEF RecoveryInv, ClocksOK
  <2> QED BY <1>1, <2>1, <2>2, <2>4
<1>8. RecoveryTypeOK'
  <2>1. calm' \in BOOLEAN /\ DOMAIN asked' = DOMAIN asked
    BY <1>1
  <2>2. \A n \in DOMAIN attempts' :
           attempts'[n] \in [guid : Guids, age : Ages, status : Recorded \union {"open"}]
    BY <1>3, <1>4
  <2> QED BY <1>1, <1>6, <1>7, <2>1, <2>2 DEF RecoveryInv, RecoveryTypeOK
<1>9. GitHubOK'
  <2> SUFFICES ASSUME NEW n \in DOMAIN attempts'
               PROVE  /\ attempts'[n].status = "ok" => attempts'[n].guid \in accepted'
                      /\ attempts'[n].status = "open" => attempts'[n].age <= ListDelay
                      /\ attempts'[n].age < OldAge
    BY DEF GitHubOK
  <2> QED BY <1>1, <1>2, <1>3, <1>4 DEF RecoveryInv, GitHubOK
<1>10. ClocksOK'
  BY <1>1, <1>7 DEF RecoveryInv, ClocksOK
<1>11. Remembered'
  <2> SUFFICES ASSUME ListedWithinOverlap, scanned', NEW n \in DOMAIN attempts',
                      attempts'[n].guid \notin accepted',
                      attempts'[n].age > lastScan' + Overlap, attempts'[n].age <= lastScan' + Lookback
               PROVE  /\ attempts'[n].guid \in DOMAIN pending'
                      /\ pending'[attempts'[n].guid].latest <= attempts'[n].age
    BY DEF Remembered
  <2> DEFINE g == attempts[n].guid
  <2>1. /\ n \in DOMAIN attempts /\ scanned /\ g \notin accepted
        /\ attempts'[n].guid = g /\ attempts'[n].age = attempts[n].age + 1
        /\ attempts[n].age + 1 < OldAge /\ attempts[n].age \in Nat
    BY <1>1, <1>2, <1>3, <1>4
  <2>2. lastScan \in Nat /\ lastScan < OldAge /\ lastScan' = lastScan + 1
    <3>1. lastScan \in Ages /\ lastScan \in Nat /\ OldAge \in Nat /\ lastScan <= OldAge
      BY DEF RecoveryInv, RecoveryTypeOK, Ages, OldAge
    <3>2. lastScan' # OldAge
      BY <2>1, <3>1
    <3>3. lastScan < OldAge
      <4>1. lastScan = OldAge => Older(lastScan) = OldAge
        BY <3>1, OlderAge
      <4>2. lastScan' = Older(lastScan)
        BY <1>1
      <4>3. lastScan # OldAge
        BY <3>2, <4>1, <4>2
      <4> QED BY <3>1, <4>3
    <3> QED BY <1>1, <3>1, <3>3, OlderAge
  <2>3. attempts[n].age > lastScan + Overlap /\ attempts[n].age <= lastScan + Lookback
    BY <2>1, <2>2
  <2>4. g \in DOMAIN pending /\ pending[g].latest <= attempts[n].age
    BY <2>1, <2>3 DEF RecoveryInv, Remembered
  <2>5. pending'[g].latest <= pending[g].latest + 1 /\ pending[g].latest \in Nat
        /\ pending'[g].latest \in Nat
    BY <1>5, <1>6, <2>4, OlderAge DEF Ages
  <2> QED BY <1>6, <2>1, <2>4, <2>5
<1>12. PendingIsOnRecord'
  <2> SUFFICES ASSUME NEW g \in DOMAIN pending, pending'[g].latest # OldAge
               PROVE  \E m \in DOMAIN attempts' : /\ attempts'[m].guid = g
                                                  /\ attempts'[m].status \in Recorded
                                                  /\ attempts'[m].age = pending'[g].latest
    BY <1>6 DEF PendingIsOnRecord
  <2>1. pending[g].latest # OldAge
    BY <1>5, <1>6, OlderAge
  <2>2. PICK m \in DOMAIN attempts : /\ attempts[m].guid = g /\ attempts[m].status \in Recorded
                                     /\ attempts[m].age = pending[g].latest
    BY <2>1 DEF RecoveryInv, PendingIsOnRecord
  <2>3. pending'[g].latest = attempts[m].age + 1 /\ attempts[m].age + 1 < OldAge
    <3>1. pending'[g].latest = attempts[m].age + 1
      BY <1>2, <1>6, <2>2
    <3>2. OldAge \in Nat /\ attempts[m].age + 1 <= OldAge
      BY <1>2 DEF OldAge
    <3> QED BY <1>2, <3>1, <3>2
  <2>4. m \in D
    BY <1>2, <2>2, <2>3 DEF D
  <2> QED BY <1>3, <1>4, <2>2, <2>3, <2>4
<1>13. AskedIsKnown'
  <2>1. \A g \in DOMAIN asked' : g \in DOMAIN pending' /\ pending'[g].requested = asked'[g]
    BY <1>1, <1>6 DEF RecoveryInv, AskedIsKnown
  <2>2. ASSUME NEW g \in due PROVE pending'[g].requested >= scanNow' + Grace
    <3>1. /\ g \in DOMAIN pending /\ pending[g].requested >= scanNow + Grace
          /\ phase = "redeliver"
      BY DEF RecoveryInv, AskedIsKnown, RecoveryTypeOK, ClocksOK
    <3>2. scanNow' = scanNow + 1 /\ scanNow + 1 + Grace <= OldAge
      BY <1>1, <3>1, ScanBounds DEF OldAge
    <3>3. CASE pending[g].requested = Never
      BY <1>6, <3>1, <3>2, <3>3, OlderNever, ScanBounds
    <3>4. CASE pending[g].requested \in Ages
      <4>1. /\ pending[g].requested \in Nat /\ pending[g].requested <= OldAge
            /\ pending'[g].requested = Older(pending[g].requested)
        BY <1>6, <3>1, <3>4 DEF Ages
      <4>2. pending'[g].requested = pending[g].requested + 1 \/ pending'[g].requested = OldAge
        BY <3>4, <4>1, ScanBounds, OlderAge
      <4> QED BY <3>1, <3>2, <4>1, <4>2, ScanBounds
    <3> QED BY <1>5, <3>1, <3>3, <3>4
  <2> QED BY <1>1, <2>1, <2>2 DEF AskedIsKnown
<1> QED BY <1>8, <1>9, <1>10, <1>11, <1>12, <1>13 DEF RecoveryInv

LEMMA ListDeliveriesKeeps ==
  ASSUME RecoveryInv, ListDeliveries
  PROVE  RecoveryInv'
<1> DEFINE W == ListWindow
<1> USE RecoveryAssumption
<1>1. /\ phase = "list" /\ pending' = Merged(W) /\ scanned' = TRUE /\ lastScan' = scanNow
      /\ due' = Candidates(pending') /\ budget' = MaxPerScan /\ phase' = "redeliver"
      /\ asked' = [g \in DOMAIN asked \intersect DOMAIN pending' |-> asked[g]]
      /\ UNCHANGED <<attempts, accepted, hook, degraded, scanNow, failed, calm>>
  BY DEF ListDeliveries, github, Restrict
<1> HIDE DEF W
<1>2. \A n \in DOMAIN attempts :
         /\ attempts[n] \in [guid : Guids, age : Ages, status : Recorded \union {"open"}]
         /\ attempts[n].age \in Ages /\ attempts[n].age \in Nat
  BY DEF RecoveryInv, RecoveryTypeOK, Ages
<1>3. ASSUME NEW g, Listed(g, W) # {}
      PROVE  \E n \in DOMAIN attempts : /\ attempts[n].guid = g /\ attempts[n].status \in Recorded
                                        /\ attempts[n].age = LatestAt(Listed(g, W))
  <2>1. \A a \in Listed(g, W) : a.age \in Nat
    BY <1>2, ListedIsAttempt
  <2>2. PICK a \in Listed(g, W) : a.age = LatestAt(Listed(g, W))
    BY <1>3, <2>1, LatestIsNewest
  <2>3. a.status \in Recorded
    BY DEF Listed
  <2> QED BY <2>2, <2>3, ListedIsAttempt
<1>4. ASSUME NEW g \in DOMAIN pending'
      PROVE  /\ g \in Guids /\ pending'[g] \in PendingInfo
             /\ \/ g \in DOMAIN pending /\ pending'[g].requested = pending[g].requested
                \/ g \notin DOMAIN pending
             /\ \/ pending'[g].latest = OldAge
                \/ \E n \in DOMAIN attempts : /\ attempts[n].guid = g /\ attempts[n].status \in Recorded
                                              /\ attempts[n].age = pending'[g].latest
  <2>1. /\ g \in Guids
        /\ Listed(g, W) = {} => g \in DOMAIN pending /\ pending'[g] = pending[g]
        /\ Listed(g, W) # {} =>
              pending'[g] = [latest |-> LatestAt(Listed(g, W)),
                             requested |-> IF g \in DOMAIN pending
                                           THEN pending[g].requested ELSE Never]
    BY <1>1, MergedEntries
  <2>2. g \in DOMAIN pending => pending[g] \in PendingInfo
    BY DEF RecoveryInv, RecoveryTypeOK
  <2>3. CASE Listed(g, W) = {}
    BY <2>1, <2>2, <2>3 DEF RecoveryInv, PendingIsOnRecord
  <2>4. CASE Listed(g, W) # {}
    <3>1. PICK n \in DOMAIN attempts : /\ attempts[n].guid = g /\ attempts[n].status \in Recorded
                                       /\ attempts[n].age = LatestAt(Listed(g, W))
      BY <1>3, <2>4
    <3>2. LatestAt(Listed(g, W)) \in Ages
      BY <1>2, <3>1
    <3> QED BY <2>1, <2>2, <2>4, <3>1, <3>2 DEF PendingInfo
  <2> QED BY <2>3, <2>4
<1>5. due' \subseteq DOMAIN pending' /\ \A g \in due' : pending'[g].requested >= scanNow + Grace
  <2>1. due' = {g \in DOMAIN pending' :
                  /\ pending'[g].latest >= scanNow + Grace
                  /\ pending'[g].requested = Never \/ pending'[g].requested >= scanNow + Grace}
    BY <1>1 DEF Candidates
  <2>2. Never >= scanNow + Grace
    BY ScanBounds
  <2> QED BY <2>1, <2>2
<1>6. RecoveryTypeOK'
  <2>1. DOMAIN asked' \subseteq Guids /\ budget' \in 0..MaxPerScan /\ lastScan' \in Ages
    BY <1>1, ScanBounds DEF RecoveryInv, RecoveryTypeOK
  <2> QED BY <1>1, <1>4, <1>5, <2>1 DEF RecoveryInv, RecoveryTypeOK
<1>7. GitHubOK'
  BY <1>1 DEF RecoveryInv, GitHubOK
<1>8. ClocksOK'
  BY <1>1, ScanBounds DEF ClocksOK
<1>9. PendingIsOnRecord'
  BY <1>1, <1>4 DEF PendingIsOnRecord
<1>10. AskedIsKnown'
  <2>1. ASSUME NEW g \in DOMAIN asked'
        PROVE  g \in DOMAIN pending' /\ pending'[g].requested = asked'[g]
    <3>1. g \in DOMAIN asked /\ g \in DOMAIN pending' /\ asked'[g] = asked[g]
      BY <1>1
    <3> QED BY <1>4, <3>1 DEF RecoveryInv, AskedIsKnown
  <2> QED BY <1>1, <1>5, <2>1 DEF AskedIsKnown
<1>11. Remembered'
  <2> SUFFICES ASSUME ListedWithinOverlap, NEW n \in DOMAIN attempts,
                      attempts[n].guid \notin accepted,
                      attempts[n].age > scanNow + Overlap, attempts[n].age <= scanNow + Lookback
               PROVE  /\ attempts[n].guid \in DOMAIN pending'
                      /\ pending'[attempts[n].guid].latest <= attempts[n].age
    BY <1>1 DEF Remembered
  <2> DEFINE g == attempts[n].guid
  <2>1. g \in Guids \ accepted
    BY <1>2
  <2>2. attempts[n].status \in Recorded
    <3>1. attempts[n].status # "open"
      BY <1>2, ScanBounds DEF RecoveryInv, GitHubOK, ListedWithinOverlap
    <3> QED BY <1>2, <3>1
  <2>3. attempts[n] \in OnRecord(g)
    BY <2>2 DEF OnRecord, Listed, AttemptsOf
  <2>4. g \in DOMAIN pending' /\ pending'[g].latest = LatestAt(OnRecord(g))
    BY <1>1, <2>1, <2>3, ListingFinds DEF W
  <2>5. \A a \in OnRecord(g) : a.age \in Nat
    BY <1>2, ListedIsAttempt DEF OnRecord
  <2>6. LatestAt(OnRecord(g)) <= attempts[n].age
    BY <2>3, <2>5, LatestIsNewest
  <2> QED BY <2>4, <2>6
<1> QED BY <1>6, <1>7, <1>8, <1>9, <1>10, <1>11 DEF RecoveryInv

LEMMA RedeliverOkKeeps ==
  ASSUME RecoveryInv, NEW g \in Guids, RedeliverOk(g)
  PROVE  RecoveryInv'
<1>1. /\ phase = "redeliver" /\ budget > 0 /\ g \in due /\ due' = due \ {g} /\ budget' = budget - 1
      /\ pending' = [pending EXCEPT ![g].requested = scanNow]
      /\ asked' = [h \in DOMAIN asked \union {g} |-> IF h = g THEN scanNow ELSE asked[h]]
      /\ UNCHANGED <<attempts, accepted, hook, scanned, lastScan, degraded>>
      /\ UNCHANGED <<phase, scanNow, failed, calm>>
  BY DEF RedeliverOk, NextDue, github
<1>2. g \in DOMAIN pending /\ pending[g] \in PendingInfo
  BY <1>1 DEF RecoveryInv, RecoveryTypeOK
<1>3. /\ DOMAIN pending' = DOMAIN pending /\ \A h \in DOMAIN pending : h # g => pending'[h] = pending[h]
      /\ pending'[g] = [pending[g] EXCEPT !.requested = scanNow]
  BY <1>1, <1>2
<1>4. /\ pending'[g].latest = pending[g].latest /\ pending'[g].requested = scanNow
      /\ pending'[g] \in PendingInfo
  BY <1>2, <1>3, ScanBounds DEF PendingInfo
<1>5. \A h \in DOMAIN pending : pending'[h].latest = pending[h].latest
  BY <1>3, <1>4
<1>6. RecoveryTypeOK'
  <2>1. budget' \in 0..MaxPerScan /\ DOMAIN asked' \subseteq Guids /\ due' \subseteq DOMAIN pending'
    BY <1>1, <1>3, RecoveryAssumption DEF RecoveryInv, RecoveryTypeOK
  <2> QED BY <1>1, <1>3, <1>4, <2>1 DEF RecoveryInv, RecoveryTypeOK
<1>7. GitHubOK' /\ ClocksOK'
  BY <1>1 DEF RecoveryInv, GitHubOK, ClocksOK
<1>8. Remembered' /\ PendingIsOnRecord'
  BY <1>1, <1>3, <1>5 DEF RecoveryInv, Remembered, PendingIsOnRecord
<1>9. AskedIsKnown'
  <2>1. \A h \in DOMAIN asked' : h \in DOMAIN pending' /\ pending'[h].requested = asked'[h]
    BY <1>1, <1>2, <1>3, <1>4 DEF RecoveryInv, AskedIsKnown
  <2>2. \A h \in due' : pending'[h].requested >= scanNow' + Grace
    BY <1>1, <1>3 DEF RecoveryInv, AskedIsKnown, RecoveryTypeOK
  <2> QED BY <2>1, <2>2 DEF AskedIsKnown
<1> QED BY <1>6, <1>7, <1>8, <1>9 DEF RecoveryInv

LEMMA RestartKeeps ==
  ASSUME RecoveryInv, Restart
  PROVE  RecoveryInv'
<1>1. /\ hook' \in BOOLEAN /\ scanned' = FALSE /\ lastScan' = OldAge /\ DOMAIN pending' = {}
      /\ DOMAIN asked' = {} /\ calm' = FALSE /\ degraded' = FALSE /\ phase' = "idle" /\ scanNow' = 0
      /\ due' = {} /\ budget' = 0 /\ failed' = FALSE /\ UNCHANGED <<attempts, accepted>>
  BY DEF Restart, Finish, github
<1>2. RecoveryTypeOK'
  <2>1. OldAge \in Ages /\ 0 \in 0..ScanTime /\ 0 \in 0..MaxPerScan
    BY RecoveryAssumption DEF Ages, OldAge
  <2> QED BY <1>1, <2>1 DEF RecoveryInv, RecoveryTypeOK
<1>3. GitHubOK'
  BY <1>1 DEF RecoveryInv, GitHubOK
<1>4. ClocksOK' /\ Remembered' /\ PendingIsOnRecord' /\ AskedIsKnown'
  BY <1>1 DEF ClocksOK, Remembered, PendingIsOnRecord, AskedIsKnown
<1> QED BY <1>2, <1>3, <1>4 DEF RecoveryInv

-----------------------------------------------------------------------------

LEMMA RecoveryInit == Init => RecoveryInv
<1> SUFFICES ASSUME Init PROVE RecoveryInv
  OBVIOUS
<1> USE DEF Init
<1>1. DOMAIN attempts = {} /\ DOMAIN pending = {} /\ DOMAIN asked = {}
  OBVIOUS
<1>2. RecoveryTypeOK
  <2>1. OldAge \in Ages /\ 0 \in 0..ScanTime /\ 0 \in 0..MaxPerScan
    BY RecoveryAssumption DEF Ages, OldAge
  <2> QED BY <1>1, <2>1 DEF RecoveryTypeOK
<1>3. GitHubOK /\ ClocksOK /\ Remembered /\ PendingIsOnRecord /\ AskedIsKnown
  BY <1>1 DEF GitHubOK, ClocksOK, Remembered, PendingIsOnRecord, AskedIsKnown
<1> QED BY <1>2, <1>3 DEF RecoveryInv

LEMMA RecoveryStep == RecoveryInv /\ [Next]_vars => RecoveryInv'
<1> SUFFICES ASSUME RecoveryInv, [Next]_vars PROVE RecoveryInv'
  OBVIOUS
<1>1. CASE \E g \in Guids : Deliver(g)
  BY <1>1, DeliverKeeps
<1>2. CASE \E g \in Guids : RedeliverOk(g)
  BY <1>2, RedeliverOkKeeps
<1>3. CASE \E n \in 1..MaxAttempts, status \in Recorded : Record(n, status)
  BY <1>3, RecordKeeps
<1>4. CASE Tick
  BY <1>4, TickKeeps
<1>5. CASE ListDeliveries
  BY <1>5, ListDeliveriesKeeps
<1>6. CASE Restart
  BY <1>6, RestartKeeps
<1>7. CASE \/ BeginScan \/ DiscoverHookID \/ ScanFails \/ RedeliverLimited \/ RedeliverDone
           \/ \E g \in Guids : RedeliverError(g)
  BY <1>7, QuietKeeps
<1>8. CASE UNCHANGED vars
  <2>1. /\ UNCHANGED <<attempts, accepted, scanned, lastScan, pending, asked>>
        /\ UNCHANGED <<hook, degraded, failed, calm, phase, due, budget, scanNow>>
    BY <1>8 DEF vars, github, target, scan, history
  <2> QED BY <2>1, ScanMovesOn DEF RecoveryInv, RecoveryTypeOK, ClocksOK
<1> QED BY <1>1, <1>2, <1>3, <1>4, <1>5, <1>6, <1>7, <1>8 DEF Next

\* The state of the loop is what it seems: the memory of the target covers what
\* the next window leaves out, what it knows of a GUID is on record at GitHub,
\* and what is due is past grace.
THEOREM RecoveryIsConsistent == Spec => []RecoveryInv
<1> QED BY RecoveryInit, RecoveryStep, PTL DEF Spec

\* Only a listing starts the redeliveries.
LEMMA ListingIsListDeliveries ==
  ASSUME [Next]_vars, Listing
  PROVE  ListDeliveries
<1>1. phase = "list" /\ phase' = "redeliver"
  BY DEF Listing
<1>2. ~UNCHANGED vars
  BY <1>1 DEF vars, scan
<1>3. /\ \A g \in Guids : ~Deliver(g) /\ ~RedeliverOk(g) /\ ~RedeliverError(g)
      /\ \A n, status : ~Record(n, status)
      /\ ~Tick
  BY <1>1 DEF Deliver, RedeliverOk, RedeliverError, NextDue, Record, Tick, scan
<1>4. ~BeginScan /\ ~DiscoverHookID /\ ~ScanFails /\ ~RedeliverLimited /\ ~RedeliverDone /\ ~Restart
  BY <1>1 DEF BeginScan, DiscoverHookID, ScanFails, RedeliverLimited, RedeliverDone, Restart, Finish
<1> QED BY <1>2, <1>3, <1>4 DEF Next

\* Incremental scans overlook nothing, for any GUIDs and any options, if GitHub
\* lists an attempt within the overlap: after every listing, each GUID without a
\* 2xx that has an attempt inside the lookback is pending, with its newest
\* attempt, whatever scans failed or were cut short before.
THEOREM ScansOverlookNothing == ListedWithinOverlap => (Spec => NothingOverlooked)
<1> SUFFICES ASSUME ListedWithinOverlap PROVE Spec => NothingOverlooked
  OBVIOUS
<1>1. RecoveryInv /\ [Next]_vars =>
         [Listing => \A g \in Guids \ accepted :
             OnRecord(g) # {} => /\ g \in DOMAIN pending'
                                 /\ pending'[g].latest = LatestAt(OnRecord(g))]_vars
  <2> SUFFICES ASSUME RecoveryInv, [Next]_vars, Listing,
                      NEW g \in Guids \ accepted, OnRecord(g) # {}
               PROVE  /\ g \in DOMAIN pending'
                      /\ pending'[g].latest = LatestAt(OnRecord(g))
    OBVIOUS
  <2>1. phase = "list" /\ pending' = Merged(ListWindow)
    BY ListingIsListDeliveries DEF ListDeliveries
  <2> QED BY <2>1, ListingFinds
<1> QED BY RecoveryIsConsistent, <1>1, PTL DEF Spec, NothingOverlooked

\* A pending GUID is left alone within grace of the last request, for any GUIDs
\* and any options.
THEOREM PendingIsLeftAlone == Spec => LeftAloneWithinGrace
<1>1. RecoveryInv => \A g \in DOMAIN asked : RedeliverOk(g) => asked[g] >= scanNow + Grace
  BY DEF RecoveryInv, AskedIsKnown, RedeliverOk, NextDue
<1>2. RecoveryInv /\ [Next]_vars =>
         [\A g \in DOMAIN asked : RedeliverOk(g) => asked[g] >= scanNow + Grace]_vars
  BY <1>1
<1> QED BY RecoveryIsConsistent, <1>2, PTL DEF Spec, LeftAloneWithinGrace
=============================================================================

------------------------------ MODULE Recovery ------------------------------
(***************************************************************************)
(* The recovery loop for one target: scans of the GitHub deliveries API,   *)
(* the in-memory pending set they maintain, and the redeliveries they ask  *)
(* for.  ScanAll holds scanMu, so the scans of a target never overlap;     *)
(* targets share nothing else.                                             *)
(*                                                                         *)
(* Time is discrete and every instant is stored as its age: Tick makes     *)
(* everything one older, and ages stop at OldAge, where no comparison of   *)
(* the code tells them apart any more.                                     *)
(***************************************************************************)
EXTENDS Naturals, Functions

CONSTANTS Guids,         \* delivery GUIDs
          Lookback, Overlap, Grace, Interval, MaxPerScan,   \* Options
          ListDelay,     \* GitHub: how long an attempt may stay unlisted
          ScanTime,      \* bound: how long one scan may take
          MaxAttempts,   \* bound: attempts GitHub keeps at a time
          Refused        \* GUIDs GitHub refuses to redeliver

ASSUME RecoveryAssumption ==
    /\ {Lookback, Interval, MaxPerScan} \subseteq Nat \ {0}
    /\ {Overlap, Grace, ListDelay, ScanTime, MaxAttempts} \subseteq Nat
    /\ Refused \subseteq Guids

VARIABLES attempts,   \* GitHub: delivery id -> the attempt, its GUID, age and status
          accepted,   \* history: GUIDs that ever got a 2xx
          hook,       \* targetState: HookID is known
          scanned,    \* targetState: a listing has succeeded
          lastScan,   \* targetState: age of lastScan
          pending,    \* targetState: GUID -> pendingInfo, as ages
          degraded,   \* targetState: a reason is set
          phase,      \* where the scan is: idle, discover, list, redeliver
          scanNow,    \* age of the scan's now
          due,        \* redeliver: candidates not yet asked for
          budget,     \* redeliver: requests left under MaxPerScan
          failed,     \* redeliver: firstErr is set
          asked,      \* history: pending GUID -> age of now of the last scan asking
          calm        \* history: no restart, scans were on time and the API
                      \* answered, but for the requests it refuses

github == <<attempts, accepted>>
target == <<hook, scanned, lastScan, pending, degraded>>
scan == <<phase, scanNow, due, budget, failed>>
history == <<asked, calm>>
vars == <<github, target, scan, history>>

OldAge == Lookback + Grace + ScanTime + 1
Ages == 0..OldAge
Never == OldAge + 1     \* the zero time: before every other

Older(age) == IF age < OldAge THEN age + 1 ELSE age

\* A recorded attempt got a 2xx, or anything else: a 4xx, a 503, no answer.
Recorded == {"ok", "failed"}

PendingInfo == [latest : Ages, requested : Ages \union {Never}]

Init ==
    /\ attempts = <<>>
    /\ accepted = {}
    /\ hook \in BOOLEAN
    /\ scanned = FALSE
    /\ lastScan = OldAge
    /\ pending = <<>>
    /\ degraded = FALSE
    /\ phase = "idle"
    /\ scanNow = 0
    /\ due = {}
    /\ budget = 0
    /\ failed = FALSE
    /\ asked = <<>>
    /\ calm = TRUE

-----------------------------------------------------------------------------
(* GitHub.                                                                 *)

AttemptsOf(g) == {attempts[n] : n \in {m \in DOMAIN attempts : attempts[m].guid = g}}

\* An attempt starts, with an id of its own: the first one, a redelivery the
\* loop asked for, or one that somebody asks for by hand.
Deliver(g) ==
    /\ \E n \in 1..MaxAttempts \ DOMAIN attempts :
          /\ 1..(n - 1) \subseteq DOMAIN attempts
          /\ attempts' = [m \in DOMAIN attempts \union {n} |->
                            IF m = n THEN [guid |-> g, age |-> 0, status |-> "open"] ELSE attempts[m]]
    /\ UNCHANGED <<accepted, target, scan, history>>

\* The attempt ends and is listed from now on.
Record(n, status) ==
    /\ n \in DOMAIN attempts
    /\ attempts[n].status = "open"
    /\ attempts' = [attempts EXCEPT ![n].status = status]
    /\ accepted' = IF status = "ok" THEN accepted \union {attempts[n].guid} ELSE accepted
    /\ UNCHANGED <<target, scan, history>>

\* Time passes: attempts are recorded within ListDelay and kept for at least
\* the longest lookback; a scan ends within ScanTime.
Tick ==
    /\ \A n \in DOMAIN attempts : attempts[n].status = "open" => attempts[n].age < ListDelay
    /\ phase # "idle" => scanNow < ScanTime
    /\ attempts' = [n \in {m \in DOMAIN attempts : Older(attempts[m].age) < OldAge} |->
                       [attempts[n] EXCEPT !.age = Older(@)]]
    /\ lastScan' = Older(lastScan)
    /\ pending' = [g \in DOMAIN pending |->
           [latest |-> Older(pending[g].latest), requested |-> Older(pending[g].requested)]]
    /\ scanNow' = IF phase = "idle" THEN 0 ELSE scanNow + 1
    /\ asked' = [g \in DOMAIN asked |-> Older(asked[g])]
    /\ calm' = (calm /\ phase = "idle" /\ scanned /\ lastScan < Interval)
    /\ UNCHANGED <<accepted, hook, scanned, degraded, phase, due, budget, failed>>

-----------------------------------------------------------------------------
(* Loop.scan.                                                              *)

BeginScan ==
    /\ phase = "idle"
    /\ phase' = IF hook THEN "list" ELSE "discover"
    /\ scanNow' = 0
    /\ UNCHANGED <<github, target, due, budget, failed, history>>

\* Loop.finish
Finish(reason) ==
    /\ degraded' = reason
    /\ phase' = "idle"
    /\ scanNow' = 0
    /\ due' = {}
    /\ budget' = 0
    /\ failed' = FALSE

DiscoverHookID ==
    /\ phase = "discover"
    /\ hook' = TRUE
    /\ phase' = "list"
    /\ UNCHANGED <<github, scanned, lastScan, pending, degraded, scanNow, due, budget, failed, history>>

\* Mutant of ListWindow: scans are incremental without the overlap.
ListWindowNoOverlap ==
    IF scanned /\ lastScan < scanNow + Lookback THEN lastScan ELSE scanNow + Lookback

\* The age of since: the lookback, or the last scan minus the overlap if later.
ListWindow ==
    IF scanned /\ lastScan + Overlap < scanNow + Lookback
    THEN lastScan + Overlap ELSE scanNow + Lookback

\* What ListDeliveries returns for a GUID.
Listed(g, window) == {a \in AttemptsOf(g) : a.status \in Recorded /\ a.age <= window}

Succeeded(A) == \E a \in A : a.status = "ok"

\* group: the age of the newest attempt listed.
LatestAt(A) == CHOOSE age \in {a.age : a \in A} : \A a \in A : age <= a.age

\* Mutant of Merged: a refresh starts a new entry.
MergedAfresh(window) ==
    LET L(g) == Listed(g, window)
        entry(g) == IF L(g) = {} THEN pending[g]
                    ELSE [latest |-> LatestAt(L(g)), requested |-> Never]
    IN  [g \in {h \in Guids : /\ h \in DOMAIN pending \/ L(h) # {}
                              /\ ~Succeeded(L(h))
                              /\ entry(h).latest <= scanNow + Lookback} |-> entry(g)]

\* Loop.merge: a 2xx removes the GUID, any other attempt enters or refreshes
\* it, and what is older than the lookback is given up.
Merged(window) ==
    LET L(g) == Listed(g, window)
        entry(g) == IF L(g) = {} THEN pending[g]
                    ELSE [latest |-> LatestAt(L(g)),
                          requested |-> IF g \in DOMAIN pending
                                        THEN pending[g].requested ELSE Never]
    IN  [g \in {h \in Guids : /\ h \in DOMAIN pending \/ L(h) # {}
                              /\ ~Succeeded(L(h))
                              /\ entry(h).latest <= scanNow + Lookback} |-> entry(g)]

\* Past grace, and not asked for within grace.
Candidates(p) ==
    {g \in DOMAIN p : /\ p[g].latest >= scanNow + Grace
                      /\ p[g].requested = Never \/ p[g].requested >= scanNow + Grace}

ListDeliveries ==
    /\ phase = "list"
    /\ pending' = Merged(ListWindow)
    /\ scanned' = TRUE
    /\ lastScan' = scanNow
    /\ due' = Candidates(pending')
    /\ budget' = MaxPerScan
    /\ phase' = "redeliver"
    /\ asked' = Restrict(asked, DOMAIN asked \intersect DOMAIN pending')
    /\ UNCHANGED <<github, hook, degraded, scanNow, failed, calm>>

\* Discovery or the listing fails: nothing but the outcome is recorded.
ScanFails ==
    /\ phase \in {"discover", "list"}
    /\ Finish(TRUE)
    /\ calm' = FALSE
    /\ UNCHANGED <<github, hook, scanned, lastScan, pending, asked>>

\* Mutant of Before: oldest attempt first, whatever was asked for already.
BeforeByAge(g, h) == pending[g].latest > pending[h].latest

\* The order of the requests: never asked for, then least recently asked for,
\* then oldest attempt.
Before(g, h) ==
    \/ pending[g].requested > pending[h].requested
    \/ pending[g].requested = pending[h].requested /\ pending[g].latest > pending[h].latest

NextDue(g) ==
    /\ phase = "redeliver"
    /\ budget > 0
    /\ g \in due
    /\ \A h \in due : ~Before(h, g)

\* Redeliver succeeds: the request is remembered at the scan's now.
RedeliverOk(g) ==
    /\ NextDue(g)
    /\ g \notin Refused
    /\ due' = due \ {g}
    /\ budget' = budget - 1
    /\ pending' = [pending EXCEPT ![g].requested = scanNow]
    /\ asked' = [h \in DOMAIN asked \union {g} |-> IF h = g THEN scanNow ELSE asked[h]]
    /\ UNCHANGED <<github, hook, scanned, lastScan, degraded, phase, scanNow, failed, calm>>

\* Redeliver fails, or its answer is lost: noted, and the next one is tried.
RedeliverError(g) ==
    /\ NextDue(g)
    /\ due' = due \ {g}
    /\ budget' = budget - 1
    /\ failed' = TRUE
    /\ calm' = (calm /\ g \in Refused)
    /\ UNCHANGED <<github, target, phase, scanNow, asked>>

\* A rate limit ends the scan.
RedeliverLimited ==
    /\ phase = "redeliver"
    /\ due # {} /\ budget > 0
    /\ Finish(TRUE)
    /\ calm' = FALSE
    /\ UNCHANGED <<github, hook, scanned, lastScan, pending, asked>>

RedeliverDone ==
    /\ phase = "redeliver"
    /\ due = {} \/ budget = 0
    /\ Finish(failed)
    /\ UNCHANGED <<github, hook, scanned, lastScan, pending, history>>

\* The process stops or crashes, in a scan or between two, and starts again:
\* New builds an empty target, with the hook id pinned or not.
Restart ==
    /\ hook' \in BOOLEAN
    /\ scanned' = FALSE
    /\ lastScan' = OldAge
    /\ pending' = <<>>
    /\ asked' = <<>>
    /\ calm' = FALSE
    /\ Finish(FALSE)
    /\ UNCHANGED github

-----------------------------------------------------------------------------
Next ==
    \/ \E g \in Guids : Deliver(g) \/ RedeliverOk(g) \/ RedeliverError(g)
    \/ \E n \in 1..MaxAttempts, status \in Recorded : Record(n, status)
    \/ Tick
    \/ BeginScan \/ DiscoverHookID \/ ListDeliveries \/ ScanFails
    \/ RedeliverLimited \/ RedeliverDone
    \/ Restart

Spec == Init /\ [][Next]_vars

-----------------------------------------------------------------------------
(* Properties.                                                             *)

RecoveryTypeOK ==
    /\ \A n \in DOMAIN attempts :
          attempts[n] \in [guid : Guids, age : Ages, status : Recorded \union {"open"}]
    /\ accepted \subseteq Guids
    /\ hook \in BOOLEAN /\ scanned \in BOOLEAN /\ degraded \in BOOLEAN
    /\ failed \in BOOLEAN /\ calm \in BOOLEAN
    /\ lastScan \in Ages /\ scanNow \in 0..ScanTime
    /\ DOMAIN pending \subseteq Guids
    /\ \A g \in DOMAIN pending : pending[g] \in PendingInfo
    /\ phase \in {"idle", "discover", "list", "redeliver"}
    /\ due \subseteq DOMAIN pending
    /\ budget \in 0..MaxPerScan
    /\ DOMAIN asked \subseteq Guids

Listing == phase = "list" /\ phase' = "redeliver"

\* What GitHub has on record of a GUID inside the lookback of this scan.
OnRecord(g) == Listed(g, scanNow + Lookback)

\* Although later scans are incremental, no failed delivery is overlooked: when
\* a listing has been merged, every GUID with an attempt on record inside the
\* lookback that never got a 2xx is pending, and with its newest attempt;
\* also when attempts are listed late and when scans failed in between.
NothingOverlooked ==
    [][Listing => \A g \in Guids \ accepted :
          OnRecord(g) # {} => /\ g \in DOMAIN pending'
                              /\ pending'[g].latest = LatestAt(OnRecord(g))]_vars

\* A running loop does not ask for a GUID again within grace of its last
\* request, however often the entry is refreshed in between, by any attempt and
\* after failed scans, as long as the GUID stays pending.
LeftAloneWithinGrace ==
    [][\A g \in DOMAIN asked : RedeliverOk(g) => asked[g] >= scanNow + Grace]_vars

\* max_per_scan bounds the load on GitHub and starves nobody: with a working
\* API and room for everyone within the lookback, no GUID that GitHub would
\* redeliver is given up without having been asked for.
AskedBeforeGivenUp ==
    [][Listing /\ calm => \A g \in DOMAIN pending \ (DOMAIN pending' \union Refused) :
          pending[g].requested = Never => Succeeded(OnRecord(g))]_vars
=============================================================================

--------------------------- MODULE DeliveryProofs ---------------------------
(***************************************************************************)
(* Delivery for any number of sinks, ids, goroutines and messages: the     *)
(* inductive invariant DeliveryInv, what follows from it, and the          *)
(* refinement of AtLeastOnce.                                              *)
(***************************************************************************)
EXTENDS Delivery, FiniteSetTheorems, TLAPS

\* The initial state satisfies the inductive invariant.
LEMMA InitInv == Init => DeliveryInv
<1> SUFFICES ASSUME Init PROVE DeliveryInv
    OBVIOUS
<1> USE StreamAssumption DEF Init, StreamInit, Seqs, NoConsumer
<1>1. TypeOK
  <2>1. StreamTypeOK
    BY DEF StreamTypeOK
  <2>2. slot \in [Sinks -> [Seqs -> [Slots -> Progress]]]
    BY DEF NoWork, Progress
  <2>3. cst \in [Sinks -> [Seqs -> AckState]]
    BY DEF AckState
  <2>4. /\ cursor \in [Sinks -> 0..NoConsumer]
        /\ origin \in [Sinks -> 0..NoConsumer]
        /\ stalled \in [Sinks -> SUBSET Uuids]
        /\ handled \in [Sinks -> SUBSET Seqs]
    OBVIOUS
  <2> QED BY <2>1, <2>2, <2>3, <2>4 DEF TypeOK
<1>2. WorkIsCovered /\ CursorInRange /\ AckingWasHandled
  BY DEF WorkIsCovered, CursorInRange, AckingWasHandled, NoWork
<1>3. AckedWasHandled /\ NothingSkipped
  BY DEF AckedWasHandled, NothingSkipped, Settled, Retained
<1> QED BY <1>1, <1>2, <1>3 DEF DeliveryInv

\* No step changes the log except by appending to it within the bound.
LEMMA StreamStepGrows ==
  ASSUME TypeOK, StreamStep
  PROVE  /\ StreamTypeOK'
         /\ Len(log) <= Len(log')
         /\ first <= first'
         /\ \A i \in 1..Len(log) : log'[i] = log[i]
<1> USE StreamAssumption DEF TypeOK, StreamTypeOK, streamVars
<1>1. ASSUME NEW u \in Uuids, Store(u)
      PROVE  /\ StreamTypeOK'
             /\ Len(log) <= Len(log')
             /\ first <= first'
             /\ \A i \in 1..Len(log) : log'[i] = log[i]
  <2>1. CASE UNCHANGED streamVars
    BY <2>1
  <2>2. CASE /\ Len(log) < MaxLog
             /\ log' = Append(log, u)
             /\ recent' = recent \union {u}
             /\ UNCHANGED first
    <3>1. log' \in Seq(Uuids) /\ Len(log') = Len(log) + 1
      BY <2>2
    <3>2. \A i \in 1..Len(log) : log'[i] = log[i]
      BY <2>2
    <3> QED BY <2>2, <3>1, <3>2
  <2> QED BY <1>1, <2>1, <2>2 DEF Store
<1>2. CASE ForgetId
  BY <1>2 DEF ForgetId
<1>3. CASE Expire
  BY <1>3 DEF Expire
<1> QED BY <1>1, <1>2, <1>3 DEF StreamStep, StreamNext

\* Moving one goroutine keeps the table of goroutines well typed.
LEMMA SlotType ==
  ASSUME slot \in [Sinks -> [Seqs -> [Slots -> Progress]]],
         NEW s \in Sinks, NEW i \in Seqs, NEW k \in Slots, NEW v \in Progress
  PROVE  [slot EXCEPT ![s][i][k] = v] \in [Sinks -> [Seqs -> [Slots -> Progress]]]
<1>1. [slot[s][i] EXCEPT ![k] = v] \in [Slots -> Progress]
  OBVIOUS
<1>2. [slot[s] EXCEPT ![i] = [slot[s][i] EXCEPT ![k] = v]] \in [Seqs -> [Slots -> Progress]]
  BY <1>1
<1> QED BY <1>2

\* So does moving one message in the broker's ack states.
LEMMA AckStateType ==
  ASSUME cst \in [Sinks -> [Seqs -> AckState]],
         NEW s \in Sinks, NEW i \in Seqs, NEW v \in AckState
  PROVE  [cst EXCEPT ![s][i] = v] \in [Sinks -> [Seqs -> AckState]]
<1>1. [cst[s] EXCEPT ![i] = v] \in [Seqs -> AckState]
  OBVIOUS
<1> QED BY <1>1

\* Every step keeps the type invariant.
LEMMA NextType == ASSUME TypeOK, [Next]_vars PROVE TypeOK'
<1> USE StreamAssumption, DeliveryAssumption DEF TypeOK
<1>1. CASE StreamStep
  <2>1. StreamTypeOK'
    BY <1>1, StreamStepGrows
  <2> QED BY <1>1, <2>1 DEF StreamStep, brokerVars, processVars
<1> USE DEF StreamTypeOK, streamVars, brokerVars, processVars
<1>2. ASSUME NEW S \in SUBSET Sinks, Start(S) PROVE TypeOK'
  <2>1. \A s \in Sinks : SubscribeAt(s) \in 0..NoConsumer
    BY DEF SubscribeAt, NoConsumer
  <2> QED BY <1>2, <2>1 DEF Start
<1>3. ASSUME NEW s \in Sinks, NEW u \in Uuids, ToggleFault(s, u) PROVE TypeOK'
  BY <1>3 DEF ToggleFault
<1>4. ASSUME NEW s \in Sinks, NEW i \in Seqs, Message(s, i) PROVE TypeOK'
  <2>a. /\ [cst EXCEPT ![s][i] = "due"] \in [Sinks -> [Seqs -> AckState]]
        /\ [cst EXCEPT ![s][i] = "pending"] \in [Sinks -> [Seqs -> AckState]]
        /\ [cst EXCEPT ![s][i] = "acked"] \in [Sinks -> [Seqs -> AckState]]
        /\ [cst EXCEPT ![s][i] = "delayed"] \in [Sinks -> [Seqs -> AckState]]
        /\ [cst EXCEPT ![s][i] = IF @ = "pending" THEN "due" ELSE @]
              \in [Sinks -> [Seqs -> AckState]]
        /\ [cst EXCEPT ![s][i] = IF @ = "pending" THEN "delayed" ELSE @]
              \in [Sinks -> [Seqs -> AckState]]
    BY <1>4, AckStateType DEF AckState
  <2>b. \A k \in Slots : \A v \in Progress :
          [slot EXCEPT ![s][i][k] = v] \in [Sinks -> [Seqs -> [Slots -> Progress]]]
    BY <1>4, SlotType
  <2>1. CASE AckWaitEnds(s, i)
    BY <2>1, <2>a, <1>4 DEF AckWaitEnds
  <2>2. CASE NakDelayEnds(s, i)
    BY <2>2, <2>a, <1>4 DEF NakDelayEnds
  <2>3. CASE Fetch(s, i)
    <3>1. cursor' \in [Sinks -> 0..NoConsumer]
      BY <2>3, <1>4 DEF Fetch, Seqs, NoConsumer
    <3>2. slot' \in [Sinks -> [Seqs -> [Slots -> Progress]]]
      <4>1. CASE UNCHANGED slot
        BY <4>1 DEF TypeOK
      <4>2. ASSUME NEW k \in Slots, slot' = [slot EXCEPT ![s][i][k] = "held"]
            PROVE  slot' \in [Sinks -> [Seqs -> [Slots -> Progress]]]
        BY <2>b, <4>2 DEF Progress
      <4> QED BY <2>3, <4>1, <4>2 DEF Fetch
    <3> QED BY <2>3, <2>a, <3>1, <3>2, <1>4 DEF Fetch
  <2>4. ASSUME NEW k \in Slots, Goroutine(s, i, k) PROVE TypeOK'
    <3>0. \A v \in Progress :
             [slot EXCEPT ![s][i][k] = v] \in [Sinks -> [Seqs -> [Slots -> Progress]]]
      BY <2>b, <2>4
    <3>1. CASE HandOver(s, i, k) \/ AwaitLost(s, i, k) \/ AwaitAbandons(s, i, k)
      <4>1. slot' \in [Sinks -> [Seqs -> [Slots -> Progress]]]
        BY <3>0, <3>1 DEF HandOver, AwaitLost, AwaitAbandons, Progress
      <4> QED BY <3>1, <4>1 DEF HandOver, AwaitLost, AwaitAbandons
    <3>2. CASE DeliverEnded(s, i, k) \/ AwaitAcked(s, i, k) \/ AwaitNacked(s, i, k)
      <4>1. slot' \in [Sinks -> [Seqs -> [Slots -> Progress]]]
        BY <3>0, <3>2 DEF DeliverEnded, AwaitAcked, AwaitNacked, Progress
      <4>2. cst' \in [Sinks -> [Seqs -> AckState]]
        BY <2>a, <3>2 DEF DeliverEnded, AwaitAcked, AwaitNacked
      <4> QED BY <3>2, <4>1, <4>2 DEF DeliverEnded, AwaitAcked, AwaitNacked
    <3>3. CASE HandleOk(s, i, k) \/ HandlePermanent(s, i, k) \/ HandleError(s, i, k)
      <4>1. slot' \in [Sinks -> [Seqs -> [Slots -> Progress]]]
        <5>1. slot'= [slot EXCEPT ![s][i][k] = "acking"] \/
              slot'= [slot EXCEPT ![s][i][k] = "nacking"] \/
              slot'= [slot EXCEPT ![s][i][k] = "free"]
          BY <3>3 DEF HandleOk, HandlePermanent, HandleError, Returned
        <5> QED BY <5>1, <3>0 DEF Progress
      <4>2. stalled' \in [Sinks -> SUBSET Uuids]
        <5>1. CASE HandleOk(s, i, k)
          BY <5>1 DEF HandleOk, Clear
        <5>2. CASE HandlePermanent(s, i, k)
          <6>1. log[i] \in Uuids
            BY <5>2 DEF HandlePermanent
          <6>2. stalled[s] \union {log[i]} \in SUBSET Uuids /\ stalled[s] \in SUBSET Uuids
            BY <6>1
          <6>3. \/ stalled' = [stalled EXCEPT ![s] = stalled[s] \union {log[i]}]
                \/ stalled' = [stalled EXCEPT ![s] = stalled[s]]
            BY <5>2 DEF HandlePermanent, Record
          <6> QED BY <6>2, <6>3
        <5>3. CASE HandleError(s, i, k)
          BY <5>3 DEF HandleError
        <5> QED BY <3>3, <5>1, <5>2, <5>3
      <4>3. handled' \in [Sinks -> SUBSET Seqs]
        <5>1. handled[s] \union {i} \in SUBSET Seqs
          BY <1>4
        <5> QED BY <3>3, <5>1 DEF HandleOk, HandlePermanent, HandleError
      <4> QED BY <3>3, <4>1, <4>2, <4>3 DEF HandleOk, HandlePermanent, HandleError
    <3> QED BY <2>4, <3>1, <3>2, <3>3 DEF Goroutine
  <2> QED BY <1>4, <2>1, <2>2, <2>3, <2>4 DEF Message
<1>5. CASE BeginClose
  BY <1>5 DEF BeginClose
<1>6. CASE Stop \/ Crash
  <2>1. NoWork \in [Sinks -> [Seqs -> [Slots -> Progress]]]
    BY DEF NoWork, Progress
  <2> QED BY <1>6, <2>1 DEF Stop, Crash, ProcessEnds
<1>7. CASE UNCHANGED vars
  BY <1>7 DEF vars
<1> QED BY <1>1, <1>2, <1>3, <1>4, <1>5, <1>6, <1>7 DEF Next

\* Every step keeps broker and process state on covered messages: a message is
\* fetched only after the cursor, or because it was fetched before, and the
\* origin of a consumer changes only when it is created, without any state.
LEMMA NextCovered == ASSUME DeliveryInv, [Next]_vars PROVE WorkIsCovered'
<1> SUFFICES ASSUME NEW t \in Sinks, NEW j \in Seqs,
                    (cst[t][j] # "none" \/ \E k \in Slots : slot[t][j][k] # "free")'
             PROVE  (origin[t] < j /\ j <= cursor[t] /\ j <= Len(log))'
  BY DEF WorkIsCovered
<1> USE StreamAssumption DEF streamVars, brokerVars, processVars
<1> DEFINE Covered == origin[t] < j /\ j <= cursor[t] /\ j <= Len(log)
<1>0. /\ (cst[t][j] # "none" \/ \E k \in Slots : slot[t][j][k] # "free") => Covered
      /\ origin[t] \in Nat /\ cursor[t] \in Nat /\ Len(log) \in Nat /\ j \in Nat
  BY DEF DeliveryInv, WorkIsCovered, TypeOK, StreamTypeOK, Seqs, NoConsumer
<1>1. CASE StreamStep
  <2>1. Len(log) <= Len(log') /\ Len(log') \in Nat
    BY <1>1, StreamStepGrows DEF DeliveryInv, StreamTypeOK
  <2> QED BY <1>0, <1>1, <2>1 DEF StreamStep
<1>2. ASSUME NEW S \in SUBSET Sinks, Start(S) PROVE Covered'
  <2>1. Covered
    BY <1>0, <1>2 DEF Start
  <2>2. cursor[t] # NoConsumer
    <3>1. \/ cursor[t] = NoConsumer /\ origin[t] = NoConsumer
          \/ cursor[t] <= Len(log)
      BY DEF DeliveryInv, CursorInRange
    <3>2. Len(log) <= MaxLog /\ j <= MaxLog
      BY DEF DeliveryInv, TypeOK, StreamTypeOK, Seqs
    <3> QED BY <1>0, <2>1, <3>1, <3>2 DEF NoConsumer
  <2>3. origin'[t] = origin[t] /\ cursor'[t] = cursor[t]
    BY <1>2, <2>2 DEF Start, SubscribeAt
  <2> QED BY <2>1, <2>3, <1>2 DEF Start
<1>3. ASSUME NEW s \in Sinks, NEW u \in Uuids, ToggleFault(s, u)
      PROVE  Covered'
  BY <1>0, <1>3 DEF ToggleFault
<1>4. ASSUME NEW s \in Sinks, NEW i \in Seqs, Message(s, i)
      PROVE  Covered'
  <2>1. CASE Fetch(s, i)
    <3>0. /\ UNCHANGED <<log, origin>>
          /\ cursor'[t] \in Nat /\ cursor[t] <= cursor'[t]
          /\ s = t => i <= cursor'[t]
      BY <1>0, <2>1 DEF Fetch, DeliveryInv, TypeOK, Seqs
    <3>1. CASE s = t /\ i = j
      <4>1. CASE i \in Due(s)
        BY <1>0, <3>0, <3>1, <4>1 DEF Due
      <4>2. CASE i \in Retained /\ cursor[s] < i
        <5>1. i <= Len(log)
          BY <4>2 DEF Retained, DeliveryInv, TypeOK, StreamTypeOK
        <5>2. origin[s] <= cursor[s]
          BY DEF DeliveryInv, CursorInRange, TypeOK, NoConsumer
        <5> QED BY <1>0, <3>0, <3>1, <4>2, <5>1, <5>2 DEF DeliveryInv, TypeOK, NoConsumer
      <4> QED BY <2>1, <4>1, <4>2 DEF Fetch, Offered
    <3>2. CASE ~(s = t /\ i = j)
      <4>1. cst'[t][j] = cst[t][j] /\ slot'[t][j] = slot[t][j]
        BY <2>1, <3>2 DEF Fetch, DeliveryInv, TypeOK
      <4> QED BY <1>0, <3>0, <4>1
    <3> QED BY <3>1, <3>2
  <2>2. CASE AckWaitEnds(s, i) \/ NakDelayEnds(s, i)
    <3>0. UNCHANGED <<log, cursor, origin>>
      BY <2>2 DEF AckWaitEnds, NakDelayEnds
    <3>1. cst[t][j] # "none" \/ \E k \in Slots : slot[t][j][k] # "free"
      <4>1. CASE s = t /\ i = j
        BY <2>2, <4>1 DEF AckWaitEnds, NakDelayEnds
      <4>2. CASE ~(s = t /\ i = j)
        <5>1. cst'[t][j] = cst[t][j] /\ slot' = slot
          BY <2>2, <4>2 DEF AckWaitEnds, NakDelayEnds, DeliveryInv, TypeOK
        <5> QED BY <5>1
      <4> QED BY <4>1, <4>2
    <3> QED BY <1>0, <3>0, <3>1
  <2>3. ASSUME NEW k \in Slots, Goroutine(s, i, k)
        PROVE  Covered'
    <3>0. UNCHANGED <<log, cursor, origin>>
      BY <2>3 DEF Goroutine, HandOver, DeliverEnded, AwaitAcked, AwaitNacked,
         AwaitLost, AwaitAbandons, HandleOk, HandlePermanent, HandleError
    <3>1. slot[s][i][k] # "free"
      BY <2>3 DEF Goroutine, HandOver, DeliverEnded, AwaitAcked, AwaitNacked,
         AwaitLost, AwaitAbandons, HandleOk, HandlePermanent, HandleError, AtWork
    <3>2. CASE s = t /\ i = j
      BY <1>0, <3>0, <3>1, <3>2
    <3>3. CASE ~(s = t /\ i = j)
      <4>1. cst'[t][j] = cst[t][j]
        BY <2>3, <3>3 DEF Goroutine, HandOver, DeliverEnded, AwaitAcked, AwaitNacked,
           AwaitLost, AwaitAbandons, HandleOk, HandlePermanent, HandleError,
           DeliveryInv, TypeOK
      <4>2. slot'[t][j] = slot[t][j]
        BY <2>3, <3>3 DEF Goroutine, HandOver, DeliverEnded, AwaitAcked, AwaitNacked,
           AwaitLost, AwaitAbandons, HandleOk, HandlePermanent, HandleError, Returned,
           DeliveryInv, TypeOK
      <4> QED BY <1>0, <3>0, <4>1, <4>2
    <3> QED BY <3>2, <3>3
  <2> QED BY <1>4, <2>1, <2>2, <2>3 DEF Message
<1>5. CASE BeginClose
  BY <1>0, <1>5 DEF BeginClose
<1>6. CASE Stop \/ Crash
  BY <1>0, <1>6 DEF Stop, Crash, ProcessEnds, NoWork
<1>7. CASE UNCHANGED vars
  BY <1>0, <1>7 DEF vars
<1> QED BY <1>1, <1>2, <1>3, <1>4, <1>5, <1>6, <1>7 DEF Next

\* Only the stream, a start and a fetch move the log, a cursor or an origin.
LEMMA WhoMovesCursors ==
  ASSUME [Next]_vars
  PROVE  \/ StreamStep
         \/ \E S \in SUBSET Sinks : Start(S)
         \/ \E s \in Sinks, i \in Seqs : Fetch(s, i)
         \/ UNCHANGED <<streamVars, cursor, origin>>
<1> USE DEF streamVars, brokerVars, processVars
<1>1. ASSUME NEW s \in Sinks, NEW i \in Seqs, Message(s, i), ~Fetch(s, i)
      PROVE  UNCHANGED <<streamVars, cursor, origin>>
  <2>1. ASSUME NEW k \in Slots, Goroutine(s, i, k)
        PROVE  UNCHANGED <<streamVars, cursor, origin>>
    BY <2>1 DEF Goroutine, HandOver, DeliverEnded, AwaitAcked, AwaitNacked, AwaitLost,
       AwaitAbandons, HandleOk, HandlePermanent, HandleError
  <2> QED BY <1>1, <2>1 DEF Message, AckWaitEnds, NakDelayEnds
<1>2. ASSUME NEW s \in Sinks, NEW u \in Uuids, ToggleFault(s, u)
      PROVE  UNCHANGED <<streamVars, cursor, origin>>
  BY <1>2 DEF ToggleFault
<1>3. BeginClose \/ Stop \/ Crash => UNCHANGED <<streamVars, cursor, origin>>
  BY DEF BeginClose, Stop, Crash, ProcessEnds
<1>4. UNCHANGED vars => UNCHANGED <<streamVars, cursor, origin>>
  BY DEF vars
<1> QED BY <1>1, <1>2, <1>3, <1>4 DEF Next

\* Every step keeps each cursor between its origin and the end of the stream.
LEMMA NextCursor == ASSUME DeliveryInv, [Next]_vars PROVE CursorInRange'
<1> SUFFICES ASSUME NEW t \in Sinks
             PROVE  (\/ cursor[t] = NoConsumer /\ origin[t] = NoConsumer
                     \/ origin[t] <= cursor[t] /\ cursor[t] <= Len(log))'
  BY DEF CursorInRange
<1> USE StreamAssumption DEF streamVars, brokerVars, processVars, NoConsumer
<1>0. /\ \/ cursor[t] = NoConsumer /\ origin[t] = NoConsumer
         \/ origin[t] <= cursor[t] /\ cursor[t] <= Len(log)
      /\ cursor[t] \in Nat /\ origin[t] \in Nat
      /\ Len(log) \in Nat /\ Len(log) <= MaxLog
      /\ cursor \in [Sinks -> 0..NoConsumer]
  BY DEF DeliveryInv, CursorInRange, TypeOK, StreamTypeOK
<1>1. CASE StreamStep
  <2>1. Len(log) <= Len(log') /\ Len(log') \in Nat
    BY <1>1, StreamStepGrows DEF DeliveryInv, StreamTypeOK
  <2> QED BY <1>0, <1>1, <2>1 DEF StreamStep
<1>2. ASSUME NEW S \in SUBSET Sinks, Start(S)
      PROVE  (\/ cursor[t] = NoConsumer /\ origin[t] = NoConsumer
              \/ origin[t] <= cursor[t] /\ cursor[t] <= Len(log))'
  <2>1. log' = log
    BY <1>2 DEF Start
  <2>2. CASE t \in S /\ cursor[t] = NoConsumer
    BY <1>0, <1>2, <2>1, <2>2 DEF Start, SubscribeAt
  <2>3. CASE ~(t \in S /\ cursor[t] = NoConsumer)
    <3>1. cursor'[t] = cursor[t] /\ origin'[t] = origin[t]
      BY <1>2, <2>3 DEF Start, SubscribeAt
    <3> QED BY <1>0, <2>1, <3>1
  <2> QED BY <2>2, <2>3
<1>3. ASSUME NEW s \in Sinks, NEW i \in Seqs, Fetch(s, i)
      PROVE  (\/ cursor[t] = NoConsumer /\ origin[t] = NoConsumer
              \/ origin[t] <= cursor[t] /\ cursor[t] <= Len(log))'
  <2>1. i \in Retained /\ i <= Len(log)
    BY <1>3 DEF Fetch, Offered, Due, Retained, DeliveryInv, TypeOK, StreamTypeOK
  <2>2. UNCHANGED <<log, origin>> /\ i \in Nat
    BY <1>3 DEF Fetch, Seqs
  <2>3. cursor'[t] = cursor[t] \/ (cursor'[t] = i /\ cursor[t] < i)
    BY <1>0, <1>3 DEF Fetch
  <2> QED BY <1>0, <2>1, <2>2, <2>3
<1>4. CASE UNCHANGED <<log, cursor, origin>>
  BY <1>0, <1>4
<1> QED BY <1>1, <1>2, <1>3, <1>4, WhoMovesCursors

\* Every step keeps acks, under way or settled, behind a Process that accepted
\* or skipped the message.
LEMMA NextHandled ==
  ASSUME DeliveryInv, [Next]_vars
  PROVE  AckingWasHandled' /\ AckedWasHandled' /\ (\A s \in Sinks : handled[s] \subseteq handled'[s])
<1> USE DEF streamVars, brokerVars, processVars, TypeOK
<1>0. /\ TypeOK
      /\ \A s \in Sinks, i \in Seqs, k \in Slots : slot[s][i][k] = "acking" => i \in handled[s]
      /\ \A s \in Sinks, i \in Seqs : cst[s][i] = "acked" => i \in handled[s]
  BY DEF DeliveryInv, AckingWasHandled, AckedWasHandled, Settled
<1> DEFINE Good == /\ \A s \in Sinks, i \in Seqs, k \in Slots :
                        slot'[s][i][k] = "acking" => i \in handled'[s]
                   /\ \A s \in Sinks, i \in Seqs : cst'[s][i] = "acked" => i \in handled'[s]
                   /\ \A s \in Sinks : handled[s] \subseteq handled'[s]
<1>1. SUFFICES Good
  BY DEF AckingWasHandled, AckedWasHandled, Settled
<1>2. CASE UNCHANGED <<slot, cst, handled>>
  BY <1>0, <1>2
<1>3. CASE Stop \/ Crash
  BY <1>0, <1>3 DEF Stop, Crash, ProcessEnds, NoWork
<1> DEFINE NoNewAck == /\ \A s \in Sinks, i \in Seqs, k \in Slots :
                            slot'[s][i][k] = "acking" => slot[s][i][k] = "acking"
                       /\ \A s \in Sinks, i \in Seqs :
                            cst'[s][i] = "acked" => cst[s][i] = "acked"
                       /\ handled' = handled
<1>a. NoNewAck => Good
  BY <1>0
<1>4. ASSUME NEW s \in Sinks, NEW i \in Seqs, Message(s, i) PROVE Good
  <2>1. CASE AckWaitEnds(s, i)
    BY <1>0, <1>a, <2>1 DEF AckWaitEnds
  <2>2. CASE NakDelayEnds(s, i)
    BY <1>0, <1>a, <2>2 DEF NakDelayEnds
  <2>3. CASE Fetch(s, i)
    <3>1. \A t \in Sinks, j \in Seqs : cst'[t][j] = "acked" => cst[t][j] = "acked"
      BY <1>0, <2>3 DEF Fetch
    <3>2. CASE UNCHANGED slot
      BY <1>a, <2>3, <3>1, <3>2 DEF Fetch
    <3>3. ASSUME NEW k \in Slots, slot' = [slot EXCEPT ![s][i][k] = "held"]
          PROVE  Good
      BY <1>0, <1>a, <2>3, <3>1, <3>3 DEF Fetch
    <3> QED BY <2>3, <3>2, <3>3 DEF Fetch
  <2>4. ASSUME NEW k \in Slots, Goroutine(s, i, k) PROVE Good
    <3>0. CASE HandOver(s, i, k)
      BY <1>0, <1>a, <3>0 DEF HandOver
    <3>1. CASE AwaitLost(s, i, k)
      BY <1>0, <1>a, <3>1 DEF AwaitLost
    <3>2. CASE AwaitAbandons(s, i, k)
      BY <1>0, <1>a, <3>2 DEF AwaitAbandons
    <3>3. CASE DeliverEnded(s, i, k)
      <4>1. \A t \in Sinks, j \in Seqs : cst'[t][j] = "acked" => cst[t][j] = "acked"
        <5>1. CASE UNCHANGED cst
          BY <5>1
        <5>2. CASE cst' = [cst EXCEPT ![s][i] = IF @ = "pending" THEN "due" ELSE @]
          BY <1>0, <5>2
        <5> QED BY <3>3, <5>1, <5>2 DEF DeliverEnded
      <4> QED BY <1>0, <1>a, <3>3, <4>1 DEF DeliverEnded
    <3>b. CASE AwaitNacked(s, i, k)
      BY <1>0, <1>a, <3>b DEF AwaitNacked
    <3>4. CASE AwaitAcked(s, i, k)
      <4>1. i \in handled[s]
        BY <1>0, <3>4 DEF AwaitAcked
      <4> QED BY <1>0, <3>4, <4>1 DEF AwaitAcked
    <3>5. CASE HandleOk(s, i, k)
      <4>1. i \in handled'[s] /\ \A t \in Sinks : handled[t] \subseteq handled'[t]
        BY <1>0, <3>5 DEF HandleOk
      <4>2. \A t \in Sinks, j \in Seqs, l \in Slots :
              slot'[t][j][l] = "acking" => slot[t][j][l] = "acking" \/ (t = s /\ j = i)
        BY <1>0, <3>5 DEF HandleOk, Returned
      <4>3. cst' = cst
        BY <3>5 DEF HandleOk
      <4> QED BY <1>0, <4>1, <4>2, <4>3
    <3>6. CASE HandlePermanent(s, i, k)
      BY <1>0, <1>a, <3>6 DEF HandlePermanent, Returned
    <3>7. CASE HandleError(s, i, k)
      BY <1>0, <1>a, <3>7 DEF HandleError, Returned
    <3> QED BY <2>4, <3>0, <3>1, <3>2, <3>3, <3>b, <3>4, <3>5, <3>6, <3>7 DEF Goroutine
  <2> QED BY <1>4, <2>1, <2>2, <2>3, <2>4 DEF Message
<1>5. ASSUME NEW S \in SUBSET Sinks, Start(S) PROVE Good
  BY <1>0, <1>5 DEF Start
<1>6. ASSUME NEW s \in Sinks, NEW u \in Uuids, ToggleFault(s, u) PROVE Good
  BY <1>0, <1>6 DEF ToggleFault
<1>7. StreamStep \/ BeginClose \/ UNCHANGED vars => UNCHANGED <<slot, cst, handled>>
  BY DEF StreamStep, BeginClose, vars
<1> QED BY <1>2, <1>3, <1>4, <1>5, <1>6, <1>7 DEF Next

\* Every step keeps all unsettled messages after the origin offered: the stream
\* grows beyond every cursor, a fetch takes the next message after the cursor,
\* and the ack state of a fetched message never returns to "none".
LEMMA NextSkipsNothing == ASSUME DeliveryInv, [Next]_vars PROVE NothingSkipped'
<1> USE StreamAssumption DEF streamVars, brokerVars, processVars, NoConsumer
<1> DEFINE Open(x) == x \in {"pending", "delayed", "due"}
<1> SUFFICES ASSUME NEW t \in Sinks, NEW j \in Retained', (origin[t] < j)', cst'[t][j] # "acked"
             PROVE  (cursor[t] < j)' \/ Open(cst'[t][j])
  BY NextType DEF NothingSkipped, Settled, Unacked, Retained, DeliveryInv, TypeOK, StreamTypeOK, Seqs
<1>0. /\ TypeOK /\ TypeOK'
      /\ cursor[t] \in Nat /\ origin[t] \in Nat /\ cursor'[t] \in Nat
      /\ Len(log) \in Nat /\ Len(log) <= MaxLog /\ j \in Seqs /\ j \in Nat
      /\ first' <= j /\ j <= Len(log')
  <2>1. TypeOK /\ TypeOK'
    BY NextType DEF DeliveryInv
  <2>2. /\ cursor[t] \in Nat /\ origin[t] \in Nat /\ cursor'[t] \in Nat
        /\ Len(log) \in Nat /\ Len(log) <= MaxLog
    BY <2>1 DEF TypeOK, StreamTypeOK
  <2>3. /\ first' \in Nat \ {0} /\ Len(log') \in Nat /\ Len(log') <= MaxLog
    BY <2>1 DEF TypeOK, StreamTypeOK
  <2>4. j \in Nat /\ first' <= j /\ j <= Len(log')
    BY <2>3 DEF Retained
  <2> QED BY <2>1, <2>2, <2>3, <2>4 DEF Seqs
<1>b. first <= first' /\ first \in Nat /\ first' \in Nat
  <2>1. StreamStep \/ UNCHANGED first
    BY WhoMovesCursors DEF Start, Fetch
  <2> QED BY <1>0, <2>1, StreamStepGrows DEF TypeOK, StreamTypeOK
<1>c. \/ cursor[t] = NoConsumer /\ origin[t] = NoConsumer
      \/ origin[t] <= cursor[t] /\ cursor[t] <= Len(log)
  BY DEF DeliveryInv, CursorInRange
<1>d. ASSUME j <= Len(log), origin[t] < j, cst[t][j] # "acked"
      PROVE  cursor[t] < j \/ Open(cst[t][j])
  <2>1. j \in Retained /\ j \notin Settled(t)
    BY <1>0, <1>b, <1>d DEF Retained, Settled
  <2> QED BY <1>d, <2>1 DEF DeliveryInv, NothingSkipped, Unacked
<1>1. CASE StreamStep
  <2>1. UNCHANGED <<cursor, origin, cst>>
    BY <1>1 DEF StreamStep
  <2>2. CASE j <= Len(log)
    BY <1>d, <2>1, <2>2
  <2>3. CASE j > Len(log)
    BY <1>0, <1>c, <2>1, <2>3 DEF Seqs
  <2> QED BY <1>0, <2>2, <2>3
<1>2. ASSUME NEW S \in SUBSET Sinks, Start(S) PROVE (cursor[t] < j)' \/ Open(cst'[t][j])
  <2>1. UNCHANGED <<log, cst>>
    BY <1>2 DEF Start
  <2>2. CASE t \in S /\ cursor[t] = NoConsumer
    <3>1. cursor'[t] = origin'[t]
      BY <1>2, <2>2 DEF Start
    <3> QED BY <3>1
  <2>3. CASE ~(t \in S /\ cursor[t] = NoConsumer)
    <3>1. cursor'[t] = cursor[t] /\ origin'[t] = origin[t]
      BY <1>2, <2>3 DEF Start, SubscribeAt
    <3> QED BY <1>0, <1>d, <2>1, <3>1
  <2> QED BY <2>2, <2>3
<1>3. ASSUME NEW s \in Sinks, NEW i \in Seqs, Fetch(s, i)
      PROVE  (cursor[t] < j)' \/ Open(cst'[t][j])
  <2>1. UNCHANGED <<log, first, origin>>
    BY <1>3 DEF Fetch
  <2>2. CASE s = t /\ i = j
    BY <1>0, <1>3, <2>2 DEF Fetch, TypeOK
  <2>3. CASE ~(s = t /\ i = j)
    <3>1. cst'[t][j] = cst[t][j]
      BY <1>0, <1>3, <2>3 DEF Fetch, TypeOK
    <3>2. CASE Open(cst[t][j])
      BY <3>1, <3>2
    <3>3. CASE cursor[t] < j
      <4>1. CASE cursor'[t] = cursor[t]
        BY <3>3, <4>1
      <4>2. CASE s = t /\ cursor'[t] = i /\ cursor[t] < i
        <5>1. CASE i \in Due(s)
          <6>1. i <= cursor[s]
            BY <5>1 DEF Due, DeliveryInv, WorkIsCovered
          <6> QED BY <1>0, <4>2, <6>1 DEF Seqs
        <5>2. CASE \A l \in Retained : cursor[s] < l => i <= l
          <6>1. j \in Retained
            BY <1>0, <2>1 DEF Retained
          <6> QED BY <1>0, <2>3, <3>3, <4>2, <5>2, <6>1 DEF Seqs
        <5> QED BY <1>3, <5>1, <5>2 DEF Fetch, Offered
      <4> QED BY <1>0, <1>3, <4>1, <4>2 DEF Fetch, TypeOK
    <3> QED BY <1>0, <1>d, <2>1, <3>1, <3>2, <3>3
  <2> QED BY <2>2, <2>3
<1>4. ASSUME UNCHANGED <<streamVars, cursor, origin>>,
             cst[t][j] = "acked" => cst'[t][j] = "acked",
             Open(cst[t][j]) /\ cst'[t][j] # "acked" => Open(cst'[t][j])
      PROVE  (cursor[t] < j)' \/ Open(cst'[t][j])
  BY <1>0, <1>4, <1>d
<1>5. ASSUME NEW s \in Sinks, NEW i \in Seqs, Message(s, i), ~Fetch(s, i)
      PROVE  (cursor[t] < j)' \/ Open(cst'[t][j])
  <2>1. CASE AckWaitEnds(s, i)
    BY <1>0, <1>4, <2>1 DEF AckWaitEnds, TypeOK
  <2>2. CASE NakDelayEnds(s, i)
    BY <1>0, <1>4, <2>2 DEF NakDelayEnds, TypeOK
  <2>3. ASSUME NEW k \in Slots, Goroutine(s, i, k)
        PROVE  (cursor[t] < j)' \/ Open(cst'[t][j])
    <3>1. CASE DeliverEnded(s, i, k)
      BY <1>0, <1>4, <3>1 DEF DeliverEnded, TypeOK
    <3>2. CASE AwaitAcked(s, i, k)
      BY <1>0, <1>4, <3>2 DEF AwaitAcked, TypeOK
    <3>3. CASE AwaitNacked(s, i, k)
      BY <1>0, <1>4, <3>3 DEF AwaitNacked, TypeOK
    <3>4. CASE UNCHANGED <<streamVars, brokerVars>>
      BY <1>4, <3>4
    <3> QED BY <2>3, <3>1, <3>2, <3>3, <3>4 DEF Goroutine, HandOver, AwaitLost,
         AwaitAbandons, HandleOk, HandlePermanent, HandleError
  <2> QED BY <1>5, <2>1, <2>2, <2>3 DEF Message
<1>6. ASSUME NEW s \in Sinks, NEW u \in Uuids, ToggleFault(s, u)
      PROVE  (cursor[t] < j)' \/ Open(cst'[t][j])
  BY <1>4, <1>6 DEF ToggleFault
<1>7. CASE BeginClose \/ Stop \/ Crash \/ UNCHANGED vars
  <2>1. UNCHANGED <<streamVars, brokerVars>>
    BY <1>7 DEF BeginClose, Stop, Crash, ProcessEnds, vars
  <2> QED BY <1>4, <2>1
<1> QED BY <1>1, <1>2, <1>3, <1>5, <1>6, <1>7 DEF Next

-----------------------------------------------------------------------------
\* DeliveryInv is an invariant of Delivery: what the broker and the process
\* hold is always consistent, for any number of sinks, messages and goroutines.
THEOREM DeliveryIsConsistent == Spec => []DeliveryInv
<1>1. DeliveryInv /\ [Next]_vars => DeliveryInv'
  <2> SUFFICES ASSUME DeliveryInv, [Next]_vars PROVE DeliveryInv'
    OBVIOUS
  <2>1. TypeOK'
    BY NextType DEF DeliveryInv
  <2>2. WorkIsCovered' /\ CursorInRange'
    BY NextCovered, NextCursor
  <2>3. AckingWasHandled' /\ AckedWasHandled' /\ NothingSkipped'
    BY NextHandled, NextSkipsNothing
  <2> QED BY <2>1, <2>2, <2>3 DEF DeliveryInv
<1> QED BY InitInv, <1>1, PTL DEF Spec

\* Every variable keeps its type.
THEOREM DeliveryTypeCorrect == Spec => []TypeOK
<1>1. DeliveryInv => TypeOK
  BY DEF DeliveryInv
<1> QED BY DeliveryIsConsistent, <1>1, PTL

\* The broker never settles a message that the sink has not accepted or
\* skipped, whatever is lost, overruns, stops or crashes.
THEOREM NeverAckedUnhandled == Spec => []AckedWasHandled
<1>1. DeliveryInv => AckedWasHandled
  BY DEF DeliveryInv
<1> QED BY DeliveryIsConsistent, <1>1, PTL

\* No retained message after a consumer's origin is ever passed over.
THEOREM NeverSkipped == Spec => []NothingSkipped
<1>1. DeliveryInv => NothingSkipped
  BY DEF DeliveryInv
<1> QED BY DeliveryIsConsistent, <1>1, PTL

-----------------------------------------------------------------------------
(* The refinement of AtLeastOnce.                                          *)

\* A step that leaves the acked messages alone, in terms of the contract.
LEMMA SameSettled ==
  ASSUME TypeOK, TypeOK', \A s \in Sinks, i \in Seqs : cst'[s][i] = "acked" <=> cst[s][i] = "acked"
  PROVE  [s \in Sinks |-> Settled(s)]' = [s \in Sinks |-> Settled(s)]
<1>1. \A s \in Sinks : Settled(s)' = Settled(s)
  BY DEF Settled
<1> QED BY <1>1

\* Every step is a step of the contract or changes nothing it speaks of.
LEMMA StepKeepsPromise ==
  ASSUME DeliveryInv, DeliveryInv', [Next]_vars
  PROVE  [Promise!Next]_<<Promise!streamVars, Promise!contractVars>>
<1> DEFINE settled == [s \in Sinks |-> Settled(s)]
<1> USE DEF streamVars, brokerVars, processVars, Promise!streamVars, Promise!contractVars
<1>0. TypeOK /\ TypeOK'
  BY DEF DeliveryInv
<1>a. ASSUME UNCHANGED <<streamVars, origin, handled>>,
             \A s \in Sinks, i \in Seqs : cst'[s][i] = "acked" <=> cst[s][i] = "acked"
      PROVE  UNCHANGED <<Promise!streamVars, Promise!contractVars>>
  BY <1>0, <1>a, SameSettled
<1>1. CASE StreamStep
  <2>1. settled' = settled
    BY <1>0, <1>1, SameSettled DEF StreamStep
  <2>2. Promise!StreamNext
    BY <1>1 DEF StreamStep, StreamNext, Store, ForgetId, Expire,
       Promise!StreamNext, Promise!Store, Promise!ForgetId, Promise!Expire
  <2> QED BY <1>1, <2>1, <2>2 DEF StreamStep, Promise!Next
<1>2. ASSUME NEW S \in SUBSET Sinks, Start(S) PROVE Promise!Next
  <2> DEFINE T == {s \in S : cursor[s] = NoConsumer}
  <2>1. settled' = settled
    BY <1>0, <1>2, SameSettled DEF Start
  <2>2. \A s \in T : origin[s] = Promise!Unsubscribed
    BY <1>0, StreamAssumption DEF DeliveryInv, CursorInRange, TypeOK, StreamTypeOK,
       NoConsumer, Promise!Unsubscribed
  <2>3. origin' = [s \in Sinks |-> IF s \notin T THEN origin[s]
                                   ELSE IF StartFrom[s] = "earliest" THEN 0 ELSE Len(log)]
    BY <1>2 DEF Start, SubscribeAt
  <2>4. Promise!Subscribe(T)
    BY <1>2, <2>1, <2>2, <2>3 DEF Start, Promise!Subscribe
  <2> QED BY <2>4 DEF Promise!Next
<1>3. ASSUME NEW s \in Sinks, NEW i \in Seqs, Message(s, i)
      PROVE  [Promise!Next]_<<Promise!streamVars, Promise!contractVars>>
  <2>1. CASE AckWaitEnds(s, i)
    BY <1>0, <1>a, <2>1 DEF AckWaitEnds, TypeOK
  <2>2. CASE NakDelayEnds(s, i)
    BY <1>0, <1>a, <2>2 DEF NakDelayEnds, TypeOK
  <2>3. CASE Fetch(s, i)
    <3>1. cst[s][i] # "acked"
      <4>1. CASE i \in Due(s)
        BY <4>1 DEF Due
      <4>2. CASE cursor[s] < i
        <5>1. cst[s][i] # "none" => i <= cursor[s]
          BY DEF DeliveryInv, WorkIsCovered
        <5>2. cursor[s] \in Nat /\ i \in Nat
          BY <1>0 DEF TypeOK, Seqs
        <5> QED BY <4>2, <5>1, <5>2
      <4> QED BY <2>3, <4>1, <4>2 DEF Fetch, Offered
    <3>2. \A t \in Sinks, j \in Seqs : cst'[t][j] = "acked" <=> cst[t][j] = "acked"
      BY <1>0, <2>3, <3>1 DEF Fetch, TypeOK
    <3>3. UNCHANGED <<streamVars, origin, handled>>
      BY <2>3 DEF Fetch
    <3> QED BY <1>a, <3>2, <3>3
  <2>4. ASSUME NEW k \in Slots, Goroutine(s, i, k)
        PROVE  [Promise!Next]_<<Promise!streamVars, Promise!contractVars>>
    <3>1. CASE DeliverEnded(s, i, k)
      <4>1. \A t \in Sinks, j \in Seqs : cst'[t][j] = "acked" <=> cst[t][j] = "acked"
        <5>1. CASE UNCHANGED cst
          BY <5>1
        <5>2. CASE cst' = [cst EXCEPT ![s][i] = IF @ = "pending" THEN "due" ELSE @]
          BY <1>0, <5>2 DEF TypeOK
        <5> QED BY <3>1, <5>1, <5>2 DEF DeliverEnded
      <4>2. UNCHANGED <<streamVars, origin, handled>>
        BY <3>1 DEF DeliverEnded
      <4> QED BY <1>a, <4>1, <4>2
    <3>2. CASE AwaitNacked(s, i, k)
      BY <1>0, <1>a, <3>2 DEF AwaitNacked, TypeOK
    <3>3. CASE AwaitAcked(s, i, k)
      <4>1. i \in handled[s]
        BY <3>3 DEF AwaitAcked, DeliveryInv, AckingWasHandled
      <4>2. \A t \in Sinks : Settled(t)' = IF t = s THEN Settled(t) \union {i} ELSE Settled(t)
        BY <1>0, <3>3 DEF AwaitAcked, Settled, TypeOK
      <4>3. settled' = [settled EXCEPT ![s] = @ \union {i}]
        BY <4>2
      <4>4. Promise!Settle(s, i)
        BY <3>3, <4>1, <4>3 DEF AwaitAcked, Promise!Settle
      <4>5. i \in Promise!Seqs
        BY DEF Seqs, Promise!Seqs
      <4> QED BY <4>4, <4>5 DEF Promise!Next
    <3>4. CASE HandleOk(s, i, k)
      <4>1. slot[s][i][k] # "free"
        BY <3>4 DEF HandleOk, AtWork
      <4>2. origin[s] < i /\ i <= Len(log)
        BY <4>1 DEF DeliveryInv, WorkIsCovered
      <4>3. i \in Promise!Covered(s)
        BY <1>0, <4>2 DEF Promise!Covered, TypeOK, StreamTypeOK, Seqs
      <4>4. settled' = settled
        BY <1>0, <3>4, SameSettled DEF HandleOk
      <4>5. Promise!Handle(s, i) /\ i \in Promise!Seqs
        BY <3>4, <4>3, <4>4 DEF HandleOk, Promise!Handle, Seqs, Promise!Seqs
      <4> QED BY <4>5 DEF Promise!Next
    <3>5. CASE UNCHANGED <<streamVars, brokerVars, handled>>
      BY <1>a, <3>5
    <3> QED BY <2>4, <3>1, <3>2, <3>3, <3>4, <3>5 DEF Goroutine, HandOver, AwaitLost,
         AwaitAbandons, HandlePermanent, HandleError
  <2> QED BY <1>3, <2>1, <2>2, <2>3, <2>4 DEF Message
<1>4. ASSUME NEW s \in Sinks, NEW u \in Uuids, ToggleFault(s, u)
      PROVE  UNCHANGED <<Promise!streamVars, Promise!contractVars>>
  BY <1>a, <1>4 DEF ToggleFault
<1>5. CASE BeginClose \/ Stop \/ Crash \/ UNCHANGED vars
  <2>1. UNCHANGED <<streamVars, brokerVars, handled>>
    BY <1>5 DEF BeginClose, Stop, Crash, ProcessEnds, vars
  <2> QED BY <1>a, <2>1
<1> QED BY <1>1, <1>2, <1>3, <1>4, <1>5 DEF Next

\* The pull loops, goroutines, lost acks, overruns, shutdowns and crashes of
\* Delivery together implement the at-least-once contract.
THEOREM DeliveryKeepsPromise == Spec => KeepsPromise
<1>1. Init => Promise!Init
  <2> SUFFICES ASSUME Init PROVE Promise!Init
    OBVIOUS
  <2>1. [s \in Sinks |-> Settled(s)] = [s \in Sinks |-> {}]
    BY DEF Init, Settled
  <2> QED BY <2>1 DEF Init, StreamInit, NoConsumer, Promise!Init, Promise!StreamInit,
             Promise!Unsubscribed
<1>2. DeliveryInv /\ DeliveryInv' /\ [Next]_vars
        => [Promise!Next]_<<Promise!streamVars, Promise!contractVars>>
  BY StepKeepsPromise
<1> QED BY <1>1, <1>2, DeliveryIsConsistent, PTL DEF Spec, KeepsPromise, Promise!Spec

-----------------------------------------------------------------------------
(* The bound on the stalled set.                                           *)

StalledInv ==
    \A s \in Sinks : IsFiniteSet(stalled[s]) /\ Cardinality(stalled[s]) <= MaxStalled

\* Recording, clearing and restarting keep the stalled set within its bound.
LEMMA NextStalled ==
  ASSUME TypeOK, StalledInv, [Next]_vars PROVE StalledInv'
<1> USE DeliveryAssumption DEF streamVars, brokerVars, processVars
<1>0. stalled \in [Sinks -> SUBSET Uuids]
  BY DEF TypeOK
<1>1. CASE UNCHANGED stalled
  BY <1>1 DEF StalledInv
<1>2. CASE Stop \/ Crash
  BY <1>2, FS_EmptySet DEF Stop, Crash, ProcessEnds, StalledInv
<1>3. ASSUME NEW s \in Sinks, NEW i \in Seqs, NEW k \in Slots, HandleOk(s, i, k)
      PROVE  StalledInv'
  <2>1. /\ IsFiniteSet(stalled[s] \ {log[i]})
        /\ Cardinality(stalled[s] \ {log[i]}) <= MaxStalled
    <3>1. IsFiniteSet(stalled[s]) /\ Cardinality(stalled[s]) <= MaxStalled
      BY DEF StalledInv
    <3>2. stalled[s] \ {log[i]} \subseteq stalled[s]
      OBVIOUS
    <3>3. IsFiniteSet(stalled[s] \ {log[i]})
          /\ Cardinality(stalled[s] \ {log[i]}) <= Cardinality(stalled[s])
      BY <3>1, <3>2, FS_Subset
    <3> QED BY <3>1, <3>3, FS_CardinalityType
  <2>2. stalled' = [stalled EXCEPT ![s] = stalled[s] \ {log[i]}]
    BY <1>3 DEF HandleOk, Clear
  <2> QED BY <1>0, <2>1, <2>2 DEF StalledInv
<1>4. ASSUME NEW s \in Sinks, NEW i \in Seqs, NEW k \in Slots, HandlePermanent(s, i, k)
      PROVE  StalledInv'
  <2>1. CASE log[i] \notin stalled[s] /\ Cardinality(stalled[s]) < MaxStalled
    <3>1. IsFiniteSet(stalled[s]) /\ Cardinality(stalled[s]) \in Nat
      BY FS_CardinalityType DEF StalledInv
    <3>2. /\ IsFiniteSet(stalled[s] \union {log[i]})
          /\ Cardinality(stalled[s] \union {log[i]}) <= MaxStalled
      <4> DEFINE T == stalled[s]
      <4>1. /\ IsFiniteSet(T \union {log[i]})
            /\ Cardinality(T \union {log[i]}) = Cardinality(T) + 1
        <5> HIDE DEF T
        <5> QED BY <2>1, <3>1, FS_AddElement DEF T
      <4> QED BY <2>1, <3>1, <4>1
    <3>3. stalled' = [stalled EXCEPT ![s] = stalled[s] \union {log[i]}]
      BY <1>4, <2>1 DEF HandlePermanent, Record
    <3> QED BY <1>0, <3>2, <3>3 DEF StalledInv
  <2>2. CASE ~(log[i] \notin stalled[s] /\ Cardinality(stalled[s]) < MaxStalled)
    <3>1. stalled'[s] = stalled[s]
      BY <1>0, <1>4, <2>2 DEF HandlePermanent, Record
    <3>2. \A t \in Sinks : stalled'[t] = stalled[t]
      BY <1>0, <1>4, <3>1 DEF HandlePermanent, Record
    <3> QED BY <3>2 DEF StalledInv
  <2> QED BY <2>1, <2>2
<1>5. ASSUME NEW s \in Sinks, NEW i \in Seqs, Message(s, i),
             \A k \in Slots : ~HandleOk(s, i, k) /\ ~HandlePermanent(s, i, k)
      PROVE  UNCHANGED stalled
  BY <1>5 DEF Message, AckWaitEnds, NakDelayEnds, Fetch, Goroutine, HandOver, DeliverEnded,
     AwaitAcked, AwaitNacked, AwaitLost, AwaitAbandons, HandleError
<1>6. ASSUME NEW s \in Sinks, NEW u \in Uuids, ToggleFault(s, u) PROVE UNCHANGED stalled
  BY <1>6 DEF ToggleFault
<1>7. ASSUME NEW S \in SUBSET Sinks, Start(S) PROVE UNCHANGED stalled
  BY <1>7 DEF Start
<1>8. StreamStep \/ BeginClose \/ UNCHANGED vars => UNCHANGED stalled
  BY DEF StreamStep, BeginClose, vars
<1> QED BY <1>1, <1>2, <1>3, <1>4, <1>5, <1>6, <1>7, <1>8 DEF Next

\* The stalled set never outgrows maxStalledEntries, whatever fails.
THEOREM StalledStaysBounded == Spec => []StalledBounded
<1>1. Init => StalledInv
  BY DeliveryAssumption, FS_EmptySet DEF Init, StalledInv
<1>2. TypeOK /\ StalledInv /\ [Next]_vars => StalledInv'
  BY NextStalled
<1>3. StalledInv => StalledBounded
  BY DEF StalledInv, StalledBounded
<1> QED BY <1>1, <1>2, <1>3, DeliveryTypeCorrect, PTL DEF Spec

-----------------------------------------------------------------------------
(* One attempt at a time, and what a stalled entry stands for.             *)

\* While Process keeps its deadline, whoever works on a message is alone with
\* it, and the broker waits for the answer: it takes a message back only when
\* its ack wait ends, after the work, and offers nothing it still waits for.
SoleWorker ==
    \A s \in Sinks \ Overrun, i \in Seqs, k \in Slots :
        slot[s][i][k] # "free" => /\ cst[s][i] = "pending"
                                  /\ \A l \in Slots \ {k} : slot[s][i][l] = "free"

\* The message j is a copy of u that s still owes, and no ack of it is on its way.
Owes(s, u, j) ==
    /\ log[j] = u
    /\ cst[s][j] # "acked"
    /\ \A k \in Slots : slot[s][j][k] # "acking"

StalledIsOwed ==
    \A s \in Sinks \ Overrun : \A u \in stalled[s] : \E j \in DOMAIN log : Owes(s, u, j)

\* A step of one goroutine: nothing of another message changes.
LEMMA GoroutineIsLocal ==
  ASSUME TypeOK, NEW s \in Sinks, NEW i \in Seqs, NEW k \in Slots, Goroutine(s, i, k)
  PROVE  /\ UNCHANGED <<streamVars, cursor, origin>>
         /\ slot[s][i][k] # "free"
         /\ \A t \in Sinks, j \in Seqs : ~(t = s /\ j = i) =>
               cst'[t][j] = cst[t][j] /\ slot'[t][j] = slot[t][j]
         /\ \A l \in Slots \ {k} : slot'[s][i][l] = slot[s][i][l]
<1> USE DEF streamVars, brokerVars, TypeOK
<1>1. CASE HandOver(s, i, k)
  BY <1>1 DEF HandOver
<1>2. CASE DeliverEnded(s, i, k)
  BY <1>2 DEF DeliverEnded
<1>3. CASE AwaitAcked(s, i, k)
  BY <1>3 DEF AwaitAcked
<1>4. CASE AwaitNacked(s, i, k)
  BY <1>4 DEF AwaitNacked
<1>5. CASE AwaitLost(s, i, k)
  BY <1>5 DEF AwaitLost
<1>6. CASE AwaitAbandons(s, i, k)
  BY <1>6 DEF AwaitAbandons
<1>7. CASE HandleOk(s, i, k)
  BY <1>7 DEF HandleOk, AtWork, Returned
<1>8. CASE HandlePermanent(s, i, k)
  BY <1>8 DEF HandlePermanent, AtWork, Returned
<1>9. CASE HandleError(s, i, k)
  BY <1>9 DEF HandleError, AtWork, Returned
<1> QED BY <1>1, <1>2, <1>3, <1>4, <1>5, <1>6, <1>7, <1>8, <1>9 DEF Goroutine

\* A goroutine that goes on working leaves the broker's state alone.
LEMMA WorkerLeavesBroker ==
  ASSUME TypeOK, NEW s \in Sinks, NEW i \in Seqs, NEW k \in Slots, Goroutine(s, i, k),
         slot'[s][i][k] # "free"
  PROVE  cst' = cst
BY DEF Goroutine, HandOver, DeliverEnded, AwaitAcked, AwaitNacked, AwaitLost, AwaitAbandons,
   HandleOk, HandlePermanent, HandleError, brokerVars, TypeOK

\* What a pull offers is not waited for by the broker.
LEMMA OfferedIsIdle ==
  ASSUME DeliveryInv, NEW s \in Sinks, NEW i \in Seqs, Offered(s, i)
  PROVE  cst[s][i] \in {"none", "due"}
<1>1. CASE i \in Due(s)
  BY <1>1 DEF Due
<1>2. CASE cursor[s] < i
  <2>1. cst[s][i] # "none" => i <= cursor[s]
    BY DEF DeliveryInv, WorkIsCovered
  <2>2. cursor[s] \in Nat /\ i \in Nat
    BY DEF DeliveryInv, TypeOK, Seqs
  <2> QED BY <1>2, <2>1, <2>2
<1> QED BY <1>1, <1>2 DEF Offered

\* Every step keeps a worker alone with its message.
LEMMA NextSole == ASSUME DeliveryInv, SoleWorker, [Next]_vars PROVE SoleWorker'
<1> SUFFICES ASSUME NEW t \in Sinks \ Overrun, NEW j \in Seqs, NEW k \in Slots, slot'[t][j][k] # "free"
             PROVE  /\ cst'[t][j] = "pending"
                    /\ \A l \in Slots \ {k} : slot'[t][j][l] = "free"
  BY DEF SoleWorker
<1> USE DEF streamVars, brokerVars, processVars
<1>0. TypeOK /\ \A l \in Slots : slot[t][j][l] # "free" =>
                  cst[t][j] = "pending" /\ \A m \in Slots \ {l} : slot[t][j][m] = "free"
  BY DEF DeliveryInv, SoleWorker
<1>1. CASE cst'[t][j] = cst[t][j] /\ slot'[t][j] = slot[t][j]
  BY <1>0, <1>1
<1>2. ASSUME NEW s \in Sinks, NEW i \in Seqs, Message(s, i), s = t, i = j
      PROVE  /\ cst'[t][j] = "pending"
             /\ \A l \in Slots \ {k} : slot'[t][j][l] = "free"
  <2>1. CASE AckWaitEnds(s, i)
    BY <1>0, <1>2, <2>1 DEF AckWaitEnds
  <2>2. CASE NakDelayEnds(s, i)
    BY <1>0, <1>2, <2>2 DEF NakDelayEnds
  <2>3. CASE Fetch(s, i)
    <3>1. \A l \in Slots : slot[t][j][l] = "free"
      BY <1>0, <1>2, <2>3, OfferedIsIdle DEF Fetch
    <3>2. cst'[t][j] = "pending"
      BY <1>0, <1>2, <2>3 DEF Fetch, TypeOK
    <3>3. PICK g \in Slots : slot' = [slot EXCEPT ![s][i][g] = "held"]
      BY <1>2, <2>3, <3>1 DEF Fetch
    <3>4. \A l \in Slots \ {g} : slot'[t][j][l] = "free"
      BY <1>0, <1>2, <3>1, <3>3 DEF TypeOK
    <3> QED BY <3>2, <3>4
  <2>4. ASSUME NEW g \in Slots, Goroutine(s, i, g)
        PROVE  /\ cst'[t][j] = "pending"
               /\ \A l \in Slots \ {k} : slot'[t][j][l] = "free"
    <3>1. /\ slot[t][j][g] # "free"
          /\ \A l \in Slots \ {g} : slot'[t][j][l] = slot[t][j][l]
      BY <1>0, <1>2, <2>4, GoroutineIsLocal
    <3>2. /\ cst[t][j] = "pending"
          /\ \A l \in Slots \ {g} : slot'[t][j][l] = "free"
      BY <1>0, <3>1
    <3>3. k = g
      BY <3>2
    <3>4. cst' = cst
      BY <1>0, <1>2, <2>4, <3>3, WorkerLeavesBroker
    <3> QED BY <3>2, <3>3, <3>4
  <2> QED BY <1>2, <2>1, <2>2, <2>3, <2>4 DEF Message
<1>3. ASSUME NEW s \in Sinks, NEW i \in Seqs, Message(s, i), ~(s = t /\ i = j)
      PROVE  cst'[t][j] = cst[t][j] /\ slot'[t][j] = slot[t][j]
  <2>1. CASE AckWaitEnds(s, i)
    BY <1>0, <1>3, <2>1 DEF AckWaitEnds, TypeOK
  <2>2. CASE NakDelayEnds(s, i)
    BY <1>0, <1>3, <2>2 DEF NakDelayEnds, TypeOK
  <2>3. CASE Fetch(s, i)
    BY <1>0, <1>3, <2>3 DEF Fetch, TypeOK
  <2>4. ASSUME NEW g \in Slots, Goroutine(s, i, g)
        PROVE  cst'[t][j] = cst[t][j] /\ slot'[t][j] = slot[t][j]
    BY <1>0, <1>3, <2>4, GoroutineIsLocal
  <2> QED BY <1>3, <2>1, <2>2, <2>3, <2>4 DEF Message
<1>4. ASSUME NEW S \in SUBSET Sinks, Start(S)
      PROVE  cst'[t][j] = cst[t][j] /\ slot'[t][j] = slot[t][j]
  BY <1>4 DEF Start
<1>5. ASSUME NEW s \in Sinks, NEW u \in Uuids, ToggleFault(s, u)
      PROVE  cst'[t][j] = cst[t][j] /\ slot'[t][j] = slot[t][j]
  BY <1>5 DEF ToggleFault
<1>6. CASE StreamStep \/ BeginClose \/ UNCHANGED vars
  BY <1>1, <1>6 DEF StreamStep, BeginClose, vars
<1>7. CASE Stop \/ Crash
  BY <1>7 DEF Stop, Crash, ProcessEnds, NoWork
<1> QED BY <1>1, <1>2, <1>3, <1>4, <1>5, <1>6, <1>7 DEF Next

\* While Process keeps its deadline, a sink never works twice at once on one
\* message, for any number of goroutines, messages and sinks.
THEOREM NeverTwiceAtOnce == Spec => []OneAttemptAtATime
<1>1. Init => SoleWorker
  BY DEF Init, SoleWorker, NoWork
<1>2. DeliveryInv /\ SoleWorker /\ [Next]_vars => SoleWorker'
  BY NextSole
<1>3. SoleWorker => OneAttemptAtATime
  <2> SUFFICES ASSUME SoleWorker, NEW s \in Sinks \ Overrun, NEW i \in Seqs
               PROVE  Cardinality({k \in Slots : slot[s][i][k] # "free"}) <= 1
    BY DEF OneAttemptAtATime
  <2>1. CASE {k \in Slots : slot[s][i][k] # "free"} = {}
    BY <2>1, FS_EmptySet
  <2>2. ASSUME NEW k \in Slots, slot[s][i][k] # "free"
        PROVE  Cardinality({l \in Slots : slot[s][i][l] # "free"}) <= 1
    <3>1. {l \in Slots : slot[s][i][l] # "free"} = {k}
      BY <2>2 DEF SoleWorker
    <3>2. Cardinality({k}) = 1
      BY FS_Singleton
    <3> QED BY <3>1, <3>2
  <2> QED BY <2>1, <2>2
<1> QED BY <1>1, <1>2, <1>3, DeliveryIsConsistent, PTL DEF Spec

\* A step that neither settles j for s nor brings it closer leaves it owed.
LEMMA NextOwed ==
  ASSUME DeliveryInv, SoleWorker, StalledIsOwed, [Next]_vars PROVE StalledIsOwed'
<1> SUFFICES ASSUME NEW t \in Sinks \ Overrun, NEW u \in stalled'[t]
             PROVE  \E j \in DOMAIN log' : Owes(t, u, j)'
  BY DEF StalledIsOwed
<1> USE DEF streamVars, brokerVars, processVars
<1>0. /\ TypeOK /\ StreamTypeOK /\ DOMAIN log = 1..Len(log) /\ Len(log) \in Nat
      /\ \A j \in DOMAIN log : j \in Seqs
      /\ u \in stalled[t] => \E j \in DOMAIN log : Owes(t, u, j)
  BY StreamAssumption DEF DeliveryInv, TypeOK, StreamTypeOK, Seqs, StalledIsOwed
<1>1. ASSUME u \in stalled[t], UNCHANGED log,
             \A j \in DOMAIN log : Owes(t, u, j) =>
                /\ cst'[t][j] # "acked"
                /\ \A k \in Slots : slot'[t][j][k] # "acking"
      PROVE  \E j \in DOMAIN log' : Owes(t, u, j)'
  BY <1>0, <1>1 DEF Owes
<1>2. CASE StreamStep
  <2>1. u \in stalled[t] /\ UNCHANGED <<cst, slot>>
    BY <1>2 DEF StreamStep
  <2>2. PICK j \in DOMAIN log : Owes(t, u, j)
    BY <1>0, <2>1
  <2>3. /\ \A i \in 1..Len(log) : log'[i] = log[i]
        /\ DOMAIN log \subseteq DOMAIN log'
    BY <1>0, <1>2, StreamStepGrows DEF StreamTypeOK
  <2> QED BY <1>0, <2>1, <2>2, <2>3 DEF Owes
<1>3. ASSUME NEW s \in Sinks, NEW i \in Seqs, Message(s, i)
      PROVE  \E j \in DOMAIN log' : Owes(t, u, j)'
  <2>1. CASE AckWaitEnds(s, i)
    BY <1>0, <1>1, <2>1 DEF AckWaitEnds, TypeOK, Owes
  <2>2. CASE NakDelayEnds(s, i)
    BY <1>0, <1>1, <2>2 DEF NakDelayEnds, TypeOK, Owes
  <2>3. CASE Fetch(s, i)
    <3>1. u \in stalled[t] /\ UNCHANGED log
      BY <2>3 DEF Fetch
    <3>2. \A j \in Seqs : cst'[t][j] \in {cst[t][j], "pending"}
      BY <1>0, <1>3, <2>3 DEF Fetch, TypeOK
    <3>3. \A j \in Seqs, l \in Slots : slot'[t][j][l] \in {slot[t][j][l], "held"}
      <4>1. CASE UNCHANGED slot
        BY <4>1
      <4>2. ASSUME NEW g \in Slots, slot' = [slot EXCEPT ![s][i][g] = "held"]
            PROVE  \A j \in Seqs, l \in Slots : slot'[t][j][l] \in {slot[t][j][l], "held"}
        BY <1>0, <1>3, <4>2 DEF TypeOK
      <4> QED BY <2>3, <4>1, <4>2 DEF Fetch
    <3> QED BY <1>0, <1>1, <3>1, <3>2, <3>3 DEF Owes
  <2>4. ASSUME NEW g \in Slots, Goroutine(s, i, g)
        PROVE  \E j \in DOMAIN log' : Owes(t, u, j)'
    <3>0. /\ UNCHANGED log
          /\ slot[s][i][g] # "free"
          /\ \A j \in Seqs : ~(t = s /\ j = i) => cst'[t][j] = cst[t][j] /\ slot'[t][j] = slot[t][j]
          /\ \A l \in Slots \ {g} : slot'[s][i][l] = slot[s][i][l]
      BY <1>0, <2>4, GoroutineIsLocal
    <3>1. ASSUME UNCHANGED <<cst, stalled>>, slot'[s][i][g] # "acking"
          PROVE  \E j \in DOMAIN log' : Owes(t, u, j)'
      BY <1>0, <1>1, <3>0, <3>1 DEF Owes
    <3>2. CASE HandOver(s, i, g)
      BY <1>0, <3>1, <3>2 DEF HandOver, TypeOK
    <3>3. CASE DeliverEnded(s, i, g)
      BY <1>0, <1>1, <3>0, <3>3 DEF DeliverEnded, TypeOK, Owes
    <3>4. CASE AwaitAcked(s, i, g)
      BY <1>0, <1>1, <3>0, <3>4 DEF AwaitAcked, TypeOK, Owes
    <3>5. CASE AwaitNacked(s, i, g)
      BY <1>0, <1>1, <3>0, <3>5 DEF AwaitNacked, TypeOK, Owes
    <3>6. CASE AwaitLost(s, i, g)
      BY <1>0, <3>1, <3>6 DEF AwaitLost, TypeOK
    <3>7. CASE AwaitAbandons(s, i, g)
      BY <1>0, <3>1, <3>7 DEF AwaitAbandons, TypeOK
    <3>8. CASE HandleOk(s, i, g)
      <4>1. u \in stalled[t] /\ (s = t => u # log[i]) /\ UNCHANGED <<log, cst>>
        BY <1>0, <3>8 DEF HandleOk, Clear, TypeOK
      <4> QED BY <1>0, <1>1, <3>0, <4>1 DEF Owes
    <3>9. CASE HandlePermanent(s, i, g)
      <4>1. UNCHANGED <<log, cst>> /\ slot'[s][i][g] # "acking"
        BY <1>0, <3>9 DEF HandlePermanent, Returned, TypeOK
      <4>2. CASE u \in stalled[t]
        BY <1>0, <1>1, <3>0, <4>1, <4>2 DEF Owes
      <4>3. CASE u \notin stalled[t]
        <5>1. s = t /\ u = log[i]
          BY <1>0, <3>9, <4>3 DEF HandlePermanent, Record, TypeOK
        <5>2. i \in DOMAIN log
          BY <1>0, <3>0 DEF DeliveryInv, WorkIsCovered, Seqs
        <5>3. cst[t][i] = "pending" /\ \A l \in Slots \ {g} : slot[t][i][l] = "free"
          BY <3>0, <5>1 DEF SoleWorker
        <5> QED BY <3>0, <4>1, <5>1, <5>2, <5>3 DEF Owes
      <4> QED BY <4>2, <4>3
    <3>10. CASE HandleError(s, i, g)
      BY <1>0, <3>1, <3>10 DEF HandleError, Returned, TypeOK
    <3> QED BY <2>4, <3>2, <3>3, <3>4, <3>5, <3>6, <3>7, <3>8, <3>9, <3>10 DEF Goroutine
  <2> QED BY <1>3, <2>1, <2>2, <2>3, <2>4 DEF Message
<1>4. ASSUME UNCHANGED <<log, cst, slot, stalled>>
      PROVE  \E j \in DOMAIN log' : Owes(t, u, j)'
  BY <1>0, <1>1, <1>4 DEF Owes
<1>5. ASSUME NEW S \in SUBSET Sinks, Start(S) PROVE UNCHANGED <<log, cst, slot, stalled>>
  BY <1>5 DEF Start
<1>6. ASSUME NEW s \in Sinks, NEW v \in Uuids, ToggleFault(s, v)
      PROVE  UNCHANGED <<log, cst, slot, stalled>>
  BY <1>6 DEF ToggleFault
<1>7. BeginClose \/ UNCHANGED vars => UNCHANGED <<log, cst, slot, stalled>>
  BY DEF BeginClose, vars
<1>8. ~(Stop \/ Crash)
  BY <1>0 DEF Stop, Crash, ProcessEnds
<1> QED BY <1>2, <1>3, <1>4, <1>5, <1>6, <1>7, <1>8 DEF Next

\* While Process keeps its deadline, every entry of a stalled set names a
\* message the sink still owes: a success clears the entry before its ack can
\* settle the message (stalledSet.record, clear).
THEOREM StalledStaysUnsettled == Spec => []StalledIsUnsettled
<1>1. Init => SoleWorker /\ StalledIsOwed
  BY DEF Init, SoleWorker, StalledIsOwed, NoWork
<1>2. DeliveryInv /\ SoleWorker /\ StalledIsOwed /\ [Next]_vars => SoleWorker' /\ StalledIsOwed'
  BY NextSole, NextOwed
<1>3. StalledIsOwed => StalledIsUnsettled
  BY DEF StalledIsOwed, StalledIsUnsettled, Owes, Settled
<1> QED BY <1>1, <1>2, <1>3, DeliveryIsConsistent, PTL DEF Spec
=============================================================================

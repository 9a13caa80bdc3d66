---------------------------- MODULE AtLeastOnce ----------------------------
(***************************************************************************)
(* The contract of a durable bus with the sinks behind it: a subscription  *)
(* has one fixed origin, a message after it is settled only once the sink  *)
(* has handled it, what is settled stays settled, and nothing but age      *)
(* removes a message.                                                      *)
(***************************************************************************)
EXTENDS Stream

CONSTANTS Sinks, StartFrom

VARIABLES origin, handled, settled

contractVars == <<origin, handled, settled>>

Unsubscribed == MaxLog + 1

Init ==
    /\ StreamInit
    /\ origin = [s \in Sinks |-> Unsubscribed]
    /\ handled = [s \in Sinks |-> {}]
    /\ settled = [s \in Sinks |-> {}]

\* The messages a subscription covers.
Covered(s) == {i \in DOMAIN log : origin[s] < i}

Subscribe(S) ==
    /\ \A s \in S : origin[s] = Unsubscribed
    /\ origin' = [s \in Sinks |-> IF s \notin S THEN origin[s]
                                  ELSE IF StartFrom[s] = "earliest" THEN 0 ELSE Len(log)]
    /\ UNCHANGED <<streamVars, handled, settled>>

Handle(s, i) ==
    /\ i \in Covered(s)
    /\ handled' = [handled EXCEPT ![s] = @ \union {i}]
    /\ UNCHANGED <<streamVars, origin, settled>>

Settle(s, i) ==
    /\ i \in handled[s]
    /\ settled' = [settled EXCEPT ![s] = @ \union {i}]
    /\ UNCHANGED <<streamVars, origin, handled>>

Next ==
    \/ StreamNext /\ UNCHANGED contractVars
    \/ \E S \in SUBSET Sinks : Subscribe(S)
    \/ \E s \in Sinks, i \in Seqs : Handle(s, i) \/ Settle(s, i)

Spec == Init /\ [][Next]_<<streamVars, contractVars>>
=============================================================================

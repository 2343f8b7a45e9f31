----------------------------- MODULE FifoSlots -----------------------------
(***************************************************************************)
(* What a bounded capacity promises its callers: at most Limit of them     *)
(* hold a slot, at most QueueSize wait, a slot is never idle while someone *)
(* waits, a freed slot goes to the caller that has waited longest, and a   *)
(* caller is turned away only from a pool and a queue that are both full.  *)
(*                                                                         *)
(* The order of arrival is a relation: <<p, q>> \in ahead means that p     *)
(* joined the queue before q.                                              *)
(***************************************************************************)
EXTENDS Naturals, FiniteSets

CONSTANTS Task,       \* the callers
          Limit,      \* how many may hold a slot at once
          QueueSize   \* how many may wait

VARIABLES holders,    \* callers that own a slot
          queue,      \* callers that wait for one
          ahead,      \* the order in which the waiting callers arrived
          turnedAway  \* callers whose last call was answered queue_full

vars == <<holders, queue, ahead, turnedAway>>

Init ==
    /\ holders = {}
    /\ queue = {}
    /\ ahead = {}
    /\ turnedAway = {}

\* A free slot is taken at once, and only when nobody waits for it.
Admit(p) ==
    /\ p \notin holders \cup queue
    /\ queue = {}
    /\ Cardinality(holders) < Limit
    /\ holders' = holders \cup {p}
    /\ turnedAway' = turnedAway \ {p}
    /\ UNCHANGED <<queue, ahead>>

\* Callers wait only while every slot is taken.
Join(p) ==
    /\ p \notin holders \cup queue
    /\ Cardinality(holders) = Limit
    /\ Cardinality(queue) < QueueSize
    /\ queue' = queue \cup {p}
    /\ ahead' = ahead \cup (queue \X {p})
    /\ turnedAway' = turnedAway \ {p}
    /\ UNCHANGED holders

\* A caller is turned away, and nobody else notices.
TurnAway(p) ==
    /\ p \notin holders \cup queue
    /\ Cardinality(holders) = Limit
    /\ Cardinality(queue) >= QueueSize
    /\ turnedAway' = turnedAway \cup {p}
    /\ UNCHANGED <<holders, queue, ahead>>

\* A waiting caller gives up: nobody else's place changes.
Leave(p) ==
    /\ p \in queue
    /\ queue' = queue \ {p}
    /\ ahead' = {e \in ahead : p \notin {e[1], e[2]}}
    /\ UNCHANGED <<holders, turnedAway>>

\* A holder returns its slot and nobody waits.
Free(p) ==
    /\ p \in holders
    /\ queue = {}
    /\ holders' = holders \ {p}
    /\ UNCHANGED <<queue, ahead, turnedAway>>

\* A holder returns its slot and the longest-waiting caller q owns it at once.
HandOver(p, q) ==
    /\ p \in holders
    /\ q \in queue
    /\ \A r \in queue : <<r, q>> \notin ahead
    /\ holders' = (holders \ {p}) \cup {q}
    /\ queue' = queue \ {q}
    /\ ahead' = {e \in ahead : q \notin {e[1], e[2]}}
    /\ UNCHANGED turnedAway

Next ==
    \E p \in Task :
        \/ Admit(p)
        \/ Join(p)
        \/ TurnAway(p)
        \/ Leave(p)
        \/ Free(p)
        \/ \E q \in Task : HandOver(p, q)

Spec == Init /\ [][Next]_vars
=============================================================================

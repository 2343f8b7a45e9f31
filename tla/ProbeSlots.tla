----------------------------- MODULE ProbeSlots -----------------------------
(***************************************************************************)
(* agents/sql_agent/hypothesis_verifier.py: before SQL is written the      *)
(* candidate tables are probed with small queries.  A probe holds an "sql" *)
(* slot of the concurrency governor around its whole body, and every query *)
(* inside it asks the same governor for another one (QueryGateway.execute).*)
(* The governor is used through its abstract specification, FifoSlots.     *)
(*                                                                         *)
(* The database answers before any waiting time passes: a wait times out   *)
(* only when nothing else can move.  A table has at most one column here.  *)
(***************************************************************************)
EXTENDS Naturals, FiniteSets

CONSTANTS Turn,       \* questions being answered at the same time
          Table,      \* the candidate tables of each
          Existing,   \* the tables that exist
          Limit, QueueSize,
          MaxProbes   \* MAX_CONCURRENT_PROBES, per turn

VARIABLES holders, queue, ahead, turnedAway,
          stage,      \* where each probe is
          profile     \* TableProfile.exists and ColumnProfile.exists

Probe == Turn \X Table
Outer(p) == <<"outer", p>>
Inner(p) == <<"inner", p>>
Slots == INSTANCE FifoSlots WITH Task <- {"outer", "inner"} \X Probe

slotVars == <<holders, queue, ahead, turnedAway>>
probeVars == <<slotVars, stage, profile>>

ProbeInit ==
    /\ Slots!Init
    /\ stage = [p \in Probe |-> "new"]
    /\ profile = [p \in Probe |-> [table |-> "unknown", column |-> "unknown"]]

\* Leaving acquire(): the slot goes to whoever has waited longest.
GiveBack(task) == Slots!Free(task) \/ \E q \in queue : Slots!HandOver(task, q)

\* Entering acquire(): a slot, a place in the queue, or CapacityExceededError.
Enter(task, p, next, profiled) ==
    /\ Slots!Admit(task) \/ Slots!Join(task)
    /\ stage' = [stage EXCEPT ![p] = next]
    /\ profile' = profiled

Running(t) == {p \in Probe : p[1] = t /\ stage[p] \notin {"new", "done", "refused"}}

\* The semaphore of verify_hypotheses.
MayStart(p) == stage[p] = "new" /\ Cardinality(Running(p[1])) < MaxProbes

\* probe_table: the outer slot.  A refusal propagates through gather.
StartProbe(p) ==
    /\ MayStart(p)
    /\ \/ Enter(Outer(p), p, "admission", profile)
       \/ /\ Slots!TurnAway(Outer(p))
          /\ stage' = [stage EXCEPT ![p] = "refused"]
          /\ UNCHANGED profile

\* The query tool turns every refusal into a message that reads as a failure.
Missing(p, what) == [profile EXCEPT ![p][what] = "missing"]
Found(p, what) ==
    [profile EXCEPT ![p][what] = IF p[2] \in Existing THEN "exists" ELSE "missing"]

\* _probe_single_table, then _probe_column: the inner slot of a query.
QueryInside(p, from, next, what) ==
    /\ stage[p] = from /\ Outer(p) \in holders
    /\ \/ Enter(Inner(p), p, next, profile)
       \/ /\ Slots!TurnAway(Inner(p))
          /\ stage' = [stage EXCEPT ![p] = "leave"] /\ profile' = Missing(p, what)

CountRows(p) == QueryInside(p, "admission", "table", "table")
SampleColumn(p) == QueryInside(p, "columns", "column", "column")

Answered(p) ==
    /\ Inner(p) \in holders /\ GiveBack(Inner(p))
    /\ \/ /\ stage[p] = "table" /\ profile' = Found(p, "table")
          /\ stage' = [stage EXCEPT ![p] =
                IF p[2] \in Existing THEN "columns" ELSE "leave"]
       \/ /\ stage[p] = "column" /\ profile' = Found(p, "column")
          /\ stage' = [stage EXCEPT ![p] = "leave"]

EndProbe(p) ==
    /\ stage[p] = "leave" /\ GiveBack(Outer(p))
    /\ stage' = [stage EXCEPT ![p] = "done"]
    /\ UNCHANGED profile

Stuck ==
    \A p \in Probe :
        /\ ~MayStart(p) /\ Inner(p) \notin holders
        /\ stage[p] \notin {"columns", "leave"}
        /\ stage[p] = "admission" => Outer(p) \notin holders

\* The wait of acquire() times out.
WaitTimeout(p) ==
    /\ Stuck
    /\ \/ /\ Slots!Leave(Outer(p))
          /\ stage' = [stage EXCEPT ![p] = "refused"] /\ UNCHANGED profile
       \/ /\ Slots!Leave(Inner(p))
          /\ stage' = [stage EXCEPT ![p] = "leave"] /\ profile' = Missing(p, stage[p])

ProbeNext ==
    \E p \in Probe :
        StartProbe(p) \/ CountRows(p) \/ SampleColumn(p) \/ Answered(p) \/ EndProbe(p) \/ WaitTimeout(p)

ProbeSpec == ProbeInit /\ [][ProbeNext]_probeVars

\* What the report says of a table or a column it calls missing: that it does
\* not exist.  No wait for capacity may be taken for an answer of the database.
MissingMeansMissing ==
    \A p \in Probe : p[2] \in Existing =>
        profile[p].table # "missing" /\ profile[p].column # "missing"
=============================================================================

------------------------ MODULE PlanExecutionProofs ------------------------
(***************************************************************************)
(* The route budget holds for every plan, every set of statements and      *)
(* every limit: ExecutionInv is an invariant of PlanExecution.             *)
(***************************************************************************)
EXTENDS PlanExecution, TLAPS

-----------------------------------------------------------------------------
(* The methods of the ledger.                                              *)

\* halt keeps a ledger well-formed and its accounts unchanged.
LEMMA HaltKeeps ==
    ASSUME NEW b, LedgerOK(b), NEW reason \in Reasons
    PROVE  /\ LedgerOK(Halt(b, reason))
           /\ ~Active(Halt(b, reason))
           /\ Halt(b, reason).used = b.used
           /\ Halt(b, reason).seen = b.seen
BY BudgetAssumption DEF Halt, LedgerOK, Ledgers, Active, Reasons

\* _increment never passes the limit, and charges exactly one counter.
LEMMA IncrementKeeps ==
    ASSUME NEW b, LedgerOK(b), NEW c \in Counters, NEW reason \in Reasons
    PROVE  /\ LedgerOK(Increment(b, c, reason))
           /\ Increment(b, c, reason).seen = b.seen
           /\ \A d \in Counters \ {c} : Increment(b, c, reason).used[d] = b.used[d]
           /\ Active(Increment(b, c, reason))
                => Active(b) /\ Increment(b, c, reason).used[c] = b.used[c] + 1
           /\ ~Active(Increment(b, c, reason))
                => Increment(b, c, reason).used[c] = b.used[c]
<1>1. CASE Active(b) /\ b.used[c] >= Limits[c]
  BY <1>1, HaltKeeps DEF Increment
<1>2. CASE ~Active(b)
  BY <1>2 DEF Increment
<1>3. CASE Active(b) /\ ~(b.used[c] >= Limits[c])
  BY <1>3, BudgetAssumption DEF Increment, LedgerOK, Ledgers, Active
<1>4. QED BY <1>1, <1>2, <1>3

\* The loop breaker: a statement counted on an active ledger either leaves it
\* active below max_same_sql, or stops it.
LEMMA CountSqlKeeps ==
    ASSUME NEW b, LedgerOK(b), Active(b), NEW f \in Fingerprint
    PROVE  /\ LedgerOK(CountSql(b, f))
           /\ CountSql(b, f).used = b.used
           /\ CountSql(b, f).seen = [b.seen EXCEPT ![f] = @ + 1]
<1> DEFINE c == [b EXCEPT !.seen[f] = @ + 1]
<1>1. /\ c \in Ledgers /\ c.used = b.used /\ c.retries = b.retries /\ Active(c)
      /\ c.seen = [b.seen EXCEPT ![f] = @ + 1]
  BY DEF LedgerOK, Ledgers, Active
<1>2. \A g \in Fingerprint : c.seen[g] <= MaxSameSql
  BY <1>1, BudgetAssumption DEF LedgerOK, Ledgers, Active
<1>3. CASE c.seen[f] >= MaxSameSql
  <2>1. CountSql(b, f) = [c EXCEPT !.stop = "repeated_sql"]
    BY <1>1, <1>3 DEF CountSql, Halt, Active
  <2> HIDE DEF c
  <2> QED BY <2>1, <1>1, <1>2, BudgetAssumption DEF LedgerOK, Ledgers, Active, Reasons
<1>4. CASE ~(c.seen[f] >= MaxSameSql)
  <2>1. CountSql(b, f) = c
    BY <1>4 DEF CountSql
  <2>2. \A g \in Fingerprint : c.seen[g] < MaxSameSql
    BY <1>1, <1>4, BudgetAssumption DEF LedgerOK, Ledgers, Active
  <2> HIDE DEF c
  <2> QED BY <2>1, <2>2, <1>1, <1>2, BudgetAssumption DEF LedgerOK, Ledgers, Active
<1>5. QED BY <1>3, <1>4

\* record_sql_candidate: active afterwards means the statement was counted.
LEMMA RecordSqlCandidateKeeps ==
    ASSUME NEW b, LedgerOK(b), NEW f \in Fingerprint
    PROVE  LET d == RecordSqlCandidate(b, f)
           IN  /\ LedgerOK(d)
               /\ d.used["model_calls"] = b.used["model_calls"]
               /\ d.seen = b.seen \/ d.seen = [b.seen EXCEPT ![f] = @ + 1]
               /\ Active(d) => d.seen = [b.seen EXCEPT ![f] = @ + 1]
<1> DEFINE c == Increment(b, "sql_candidates", "sql_candidate_budget_exhausted")
<1>1. /\ LedgerOK(c) /\ c.seen = b.seen
      /\ c.used["model_calls"] = b.used["model_calls"]
  BY IncrementKeeps DEF Counters, Reasons
<1>2. CASE Active(c)
  <2>1. RecordSqlCandidate(b, f) = CountSql(c, f)
    BY <1>2 DEF RecordSqlCandidate
  <2> HIDE DEF c
  <2> QED BY <2>1, <1>1, <1>2, CountSqlKeeps
<1>3. CASE ~Active(c)
  <2>1. RecordSqlCandidate(b, f) = c
    BY <1>3 DEF RecordSqlCandidate
  <2> HIDE DEF c
  <2> QED BY <2>1, <1>1, <1>3
<1>4. QED BY <1>2, <1>3

\* observe_join_hops never records more hops than the route allows.
LEMMA ObserveJoinHopsKeeps ==
    ASSUME NEW b, LedgerOK(b), NEW hops \in Nat
    PROVE  LET d == ObserveJoinHops(b, hops)
           IN  /\ LedgerOK(d)
               /\ d.used["model_calls"] = b.used["model_calls"]
               /\ d.seen = b.seen
               /\ Active(d) => Active(b)
<1>1. CASE ~Active(b)
  BY <1>1 DEF ObserveJoinHops
<1>2. CASE Active(b) /\ hops > Limits["join_hops"]
  BY <1>2, HaltKeeps DEF ObserveJoinHops, Reasons
<1>3. CASE Active(b) /\ ~(hops > Limits["join_hops"])
  BY <1>3, BudgetAssumption DEF ObserveJoinHops, LedgerOK, Ledgers, Active, Counters
<1>4. QED BY <1>1, <1>2, <1>3

\* The charges between prepare and execute: if they leave the ledger active
\* the statement is counted, below max_same_sql.
LEMMA AdmitKeeps ==
    ASSUME NEW b, LedgerOK(b), NEW f \in Fingerprint, NEW hops \in Nat
    PROVE  LET d == Admit(b, f, hops)
           IN  /\ LedgerOK(d)
               /\ d.used["model_calls"] = b.used["model_calls"]
               /\ d.seen = b.seen \/ d.seen = [b.seen EXCEPT ![f] = @ + 1]
               /\ Active(d) => d.seen = [b.seen EXCEPT ![f] = @ + 1]
<1> DEFINE c == RecordSqlCandidate(b, f)
           e == ObserveJoinHops(c, hops)
<1>1. /\ LedgerOK(c) /\ c.used["model_calls"] = b.used["model_calls"]
      /\ c.seen = b.seen \/ c.seen = [b.seen EXCEPT ![f] = @ + 1]
      /\ Active(c) => c.seen = [b.seen EXCEPT ![f] = @ + 1]
  BY RecordSqlCandidateKeeps
<1> HIDE DEF c
<1>2. /\ LedgerOK(e) /\ e.used["model_calls"] = c.used["model_calls"]
      /\ e.seen = c.seen
      /\ Active(e) => Active(c)
  BY <1>1, ObserveJoinHopsKeeps
<1>3. Admit(b, f, hops) = BeginSqlExecution(e)
  BY DEF Admit, c, e
<1> HIDE DEF e
<1>4. LET d == BeginSqlExecution(e)
      IN  /\ LedgerOK(d) /\ d.used["model_calls"] = e.used["model_calls"]
          /\ d.seen = e.seen
          /\ Active(d) => Active(e)
  BY <1>2, IncrementKeeps DEF BeginSqlExecution, Counters, Reasons
<1>5. QED BY <1>1, <1>2, <1>3, <1>4

\* record_provider_retries stops the ledger when the retries are too many.
LEMMA RecordProviderRetriesKeeps ==
    ASSUME NEW b, LedgerOK(b), NEW n \in Nat
    PROVE  LET d == RecordProviderRetries(b, n)
           IN  /\ LedgerOK(d)
               /\ d.used = b.used
               /\ d.seen = b.seen
<1> DEFINE c == [b EXCEPT !.retries = @ + n]
<1>0. /\ c \in Ledgers /\ c.used = b.used /\ c.seen = b.seen /\ c.stop = b.stop
      /\ c.retries = b.retries + n
  BY DEF LedgerOK, Ledgers
<1>1. CASE ~Active(b)
  BY <1>1 DEF RecordProviderRetries
<1>2. CASE Active(b) /\ c.retries > MaxRetries
  <2>1. RecordProviderRetries(b, n) =
            [c EXCEPT !.stop = "retryable_provider_error_budget_exhausted"]
    BY <1>2 DEF RecordProviderRetries, Halt, Active, LedgerOK, Ledgers
  <2> HIDE DEF c
  <2>2. QED BY <2>1, <1>0, <1>2, BudgetAssumption DEF LedgerOK, Ledgers, Active, Reasons
<1>3. CASE Active(b) /\ ~(c.retries > MaxRetries)
  <2>1. RecordProviderRetries(b, n) = c
    BY <1>3 DEF RecordProviderRetries
  <2> HIDE DEF c
  <2>2. QED BY <2>1, <1>0, <1>3, BudgetAssumption DEF LedgerOK, Ledgers, Active
<1>4. QED BY <1>1, <1>2, <1>3

\* record_error keeps the limits whichever of its breakers fires.
LEMMA RecordErrorKeeps ==
    ASSUME NEW b, LedgerOK(b), NEW t \in Taxonomy,
           NEW denied \in BOOLEAN, NEW retryable \in BOOLEAN
    PROVE  LET d == RecordError(b, t, denied, retryable)
           IN  /\ LedgerOK(d)
               /\ d.used = b.used
               /\ d.seen = b.seen
<1> DEFINE c == [b EXCEPT !.errors[t] = @ + 1]
           d == IF retryable THEN RecordProviderRetries(c, 1) ELSE c
<1>1. CASE ~Active(b)
  BY <1>1 DEF RecordError
<1>2. CASE Active(b)
  <2>1. LedgerOK(c) /\ c.used = b.used /\ c.seen = b.seen
    BY <1>2, BudgetAssumption DEF LedgerOK, Ledgers, Active
  <2>2. RecordError(b, t, denied, retryable) =
            IF denied THEN Halt(d, "policy_denied")
            ELSE IF c.errors[t] >= MaxSameError THEN Halt(d, "repeated_error")
            ELSE d
    BY <1>2 DEF RecordError
  <2> HIDE DEF c
  <2>3. LedgerOK(d) /\ d.used = b.used /\ d.seen = b.seen
    BY <2>1, RecordProviderRetriesKeeps
  <2> HIDE DEF d
  <2>4. QED BY <2>2, <2>3, HaltKeeps DEF Reasons
<1>3. QED BY <1>1, <1>2

-----------------------------------------------------------------------------

\* A run starts within its budget.
LEMMA InitInv == Init => ExecutionInv
<1> SUFFICES ASSUME Init PROVE ExecutionInv
  OBVIOUS
<1>1. TypeOK
  BY PlanAssumption DEF Init, TypeOK, ExecutionModes, Phases
<1>2. LedgerOK(NewLedger) /\ NewLedger.used["model_calls"] = 0 /\ Active(NewLedger)
      /\ \A f \in Fingerprint : NewLedger.seen[f] = 0
  BY BudgetAssumption DEF NewLedger, LedgerOK, Ledgers, Active, Counters
<1>3. QED
  BY <1>1, <1>2, BudgetAssumption
     DEF Init, ExecutionInv, BudgetRespected, SpentAsRecorded, NothingAfterStop

\* How a step that runs no statement and calls no model keeps the accounts:
\* the ledger is the one before, or one that spent no more.
LEMMA AccountsKept ==
    ASSUME ExecutionInv, LedgerOK(ledger'),
           ledger'.used["model_calls"] = ledger.used["model_calls"],
           \A f \in Fingerprint : ledger'.seen[f] >= ledger.seen[f],
           UNCHANGED <<ran, called>>
    PROVE  BudgetRespected' /\ SpentAsRecorded'
<1>1. \A f \in Fingerprint :
        /\ ran[f] \in Nat /\ ledger.seen[f] \in Nat /\ ledger'.seen[f] \in Nat
        /\ ran[f] <= ledger.seen[f] /\ ran[f] < MaxSameSql
  BY DEF ExecutionInv, TypeOK, BudgetRespected, LedgerOK, Ledgers, SpentAsRecorded
<1>2. \A f \in Fingerprint : ran[f] <= ledger'.seen[f] /\ ran[f] < MaxSameSql
  BY <1>1
<1>3. QED BY <1>2 DEF ExecutionInv, BudgetRespected, SpentAsRecorded

\* Stopping the ledger keeps the accounts.
LEMMA HaltAccounts ==
    ASSUME ExecutionInv, NEW r \in Reasons, ledger' = Halt(ledger, r),
           UNCHANGED <<ran, called>>
    PROVE  BudgetRespected' /\ SpentAsRecorded'
<1>1. LedgerOK(ledger) BY DEF ExecutionInv, BudgetRespected
<1>2. LedgerOK(ledger') /\ ledger'.used = ledger.used /\ ledger'.seen = ledger.seen
  BY <1>1, HaltKeeps
<1>3. \A f \in Fingerprint : ledger.seen[f] \in Nat
  BY <1>1 DEF LedgerOK, Ledgers
<1>4. QED BY <1>2, <1>3, AccountsKept

\* A failing step adds one receipt and ends the run.
LEMMA StepFailsKeeps ==
    ASSUME ExecutionInv, NEW s \in Step, NEW b, NEW outcome \in {"failed", "deadline_exceeded"},
           StepFails(s, b, outcome)
    PROVE  TypeOK' /\ NothingAfterStop' /\ UNCHANGED <<ran, called>> /\ ledger' = b
<1>1. receipts' \in Seq(Step \X {"succeeded", "failed"})
  BY DEF ExecutionInv, TypeOK, StepFails
<1>2. QED
  BY <1>1 DEF ExecutionInv, TypeOK, Phases, StepFails, NothingAfterStop

\* A step that ends in an error keeps the invariant.
LEMMA StepHaltsKeeps ==
    ASSUME ExecutionInv, NEW s \in Step, NEW r \in Reasons,
           NEW outcome \in {"failed", "deadline_exceeded"},
           StepFails(s, Halt(ledger, r), outcome)
    PROVE  ExecutionInv'
BY StepFailsKeeps, HaltAccounts DEF ExecutionInv

\* A succeeding step keeps the invariant.
LEMMA StepSucceedsKeeps ==
    ASSUME ExecutionInv, NEW s \in Step, StepSucceeds(s), phase # "end"
    PROVE  ExecutionInv'
<1>1. /\ receipts' \in Seq(Step \X {"succeeded", "failed"})
      /\ outputs' \in Seq(Step)
  BY DEF ExecutionInv, TypeOK, StepSucceeds
<1>2. TypeOK' /\ NothingAfterStop'
  BY <1>1 DEF ExecutionInv, TypeOK, Phases, StepSucceeds, NothingAfterStop, Active
<1>3. QED
  BY <1>2 DEF ExecutionInv, StepSucceeds, BudgetRespected, SpentAsRecorded

\* A stop keeps the invariant.
LEMMA StopKeeps ==
    ASSUME ExecutionInv, NEW r \in Reasons, Stop(r)
    PROVE  ExecutionInv'
<1>1. TypeOK' /\ NothingAfterStop'
  BY DEF ExecutionInv, TypeOK, Phases, Stop, execution, work, NothingAfterStop
<1>2. BudgetRespected' /\ SpentAsRecorded'
  BY HaltAccounts DEF Stop, execution, work
<1>3. QED BY <1>1, <1>2 DEF ExecutionInv

\* Preparing a fetch keeps the invariant: a statement that starts has been
\* counted, and not for the last time allowed.
LEMMA PrepareKeeps ==
    ASSUME ExecutionInv, NEW s \in Step, Prepare(s)
    PROVE  ExecutionInv'
<1>0. LedgerOK(ledger) BY DEF ExecutionInv, BudgetRespected
<1>1. CASE \E f \in Fingerprint, hops \in 0 .. MaxHops :
             /\ Active(Admit(ledger, f, hops))
             /\ ledger' = Admit(ledger, f, hops)
             /\ ran' = [ran EXCEPT ![f] = @ + 1]
             /\ phase' = "sql"
             /\ UNCHANGED <<plan, mode, todo, round, receipts, outputs, status, called>>
  <2>1. PICK f \in Fingerprint, hops \in 0 .. MaxHops :
             /\ Active(ledger')
             /\ ledger' = Admit(ledger, f, hops)
             /\ ran' = [ran EXCEPT ![f] = @ + 1]
             /\ phase' = "sql"
             /\ UNCHANGED <<plan, mode, todo, round, receipts, outputs, status, called>>
    BY Zenon, <1>1
  <2>2. /\ LedgerOK(ledger')
        /\ ledger'.used["model_calls"] = ledger.used["model_calls"]
        /\ ledger'.seen = [ledger.seen EXCEPT ![f] = @ + 1]
    BY <1>0, <2>1, AdmitKeeps, PlanAssumption
  <2>3. TypeOK' /\ NothingAfterStop'
    BY <2>1 DEF ExecutionInv, TypeOK, Phases, NothingAfterStop
  <2>4. \A g \in Fingerprint : ran'[g] <= ledger'.seen[g] /\ ran'[g] < MaxSameSql
    <3>1. /\ ran \in [Fingerprint -> Nat] /\ ledger.seen \in [Fingerprint -> Nat]
          /\ \A g \in Fingerprint : ran[g] <= ledger.seen[g] /\ ran[g] < MaxSameSql
      BY DEF ExecutionInv, TypeOK, BudgetRespected, LedgerOK, Ledgers, SpentAsRecorded
    <3>2. \A g \in Fingerprint : ledger'.seen[g] < MaxSameSql
      BY <2>1, <2>2 DEF LedgerOK
    <3>3. QED BY <2>1, <2>2, <3>1, <3>2, BudgetAssumption
  <2>5. QED
    BY <2>1, <2>2, <2>3, <2>4 DEF ExecutionInv, BudgetRespected, SpentAsRecorded
<1>2. ASSUME NEW f \in Fingerprint, NEW hops \in 0 .. MaxHops,
             StepFails(s, Admit(ledger, f, hops), "failed")
      PROVE  ExecutionInv'
  <2>1. TypeOK' /\ NothingAfterStop' /\ UNCHANGED <<ran, called>>
        /\ ledger' = Admit(ledger, f, hops)
    BY <1>2, StepFailsKeeps
  <2>2. /\ LedgerOK(ledger')
        /\ ledger'.used["model_calls"] = ledger.used["model_calls"]
        /\ ledger'.seen = ledger.seen \/ ledger'.seen = [ledger.seen EXCEPT ![f] = @ + 1]
    BY <1>0, <2>1, AdmitKeeps, PlanAssumption
  <2>3. \A g \in Fingerprint : ledger'.seen[g] >= ledger.seen[g]
    BY <1>0, <2>2 DEF LedgerOK, Ledgers
  <2>4. QED BY <2>1, <2>2, <2>3, AccountsKept DEF ExecutionInv
<1>3. ASSUME NEW t \in Taxonomy, StepFails(s, Halt(ledger, t), "failed")
      PROVE  ExecutionInv'
  BY <1>3, StepHaltsKeeps DEF Reasons
<1>4. QED BY <1>1, <1>2, <1>3 DEF Prepare

\* Beginning a model call keeps the invariant: it is counted before it is made.
LEMMA CallModelKeeps ==
    ASSUME ExecutionInv, CallModel
    PROVE  ExecutionInv'
<1>0. LedgerOK(ledger) BY DEF ExecutionInv, BudgetRespected
<1>1. CASE /\ Active(BeginModelCall(ledger))
           /\ ledger' = BeginModelCall(ledger)
           /\ called' = called + 1
           /\ phase' = "model"
           /\ UNCHANGED <<plan, mode, execution>>
  <2>1. /\ LedgerOK(ledger') /\ Active(ledger')
        /\ ledger'.seen = ledger.seen
        /\ ledger'.used["model_calls"] = ledger.used["model_calls"] + 1
    BY <1>0, <1>1, IncrementKeeps DEF BeginModelCall, Counters, Reasons
  <2>2. TypeOK' /\ NothingAfterStop'
    BY <1>1, <2>1 DEF ExecutionInv, TypeOK, Phases, execution, work, NothingAfterStop
  <2>3. BudgetRespected' /\ SpentAsRecorded'
    BY <1>1, <2>1 DEF ExecutionInv, BudgetRespected, SpentAsRecorded, execution, work
  <2>4. QED BY <2>2, <2>3 DEF ExecutionInv
<1>2. ASSUME NEW r \in {"model_call_budget_exhausted", "fast_model_call_blocked",
                        "deadline_reserve"}, Stop(r)
      PROVE  ExecutionInv'
  BY <1>2, StopKeeps DEF Reasons
<1>3. CASE phase' = "end" /\ UNCHANGED <<plan, mode, ledger, execution, called>>
  BY <1>3 DEF ExecutionInv, TypeOK, Phases, execution, work, NothingAfterStop,
              BudgetRespected, SpentAsRecorded
<1>4. QED BY <1>1, <1>2, <1>3 DEF CallModel

\* The outcome of a model call is recorded without touching what was spent.
LEMMA ModelReturnsKeeps ==
    ASSUME ExecutionInv, ModelReturns
    PROVE  ExecutionInv'
<1>0. LedgerOK(ledger) BY DEF ExecutionInv, BudgetRespected
<1> DEFINE Same == LedgerOK(ledger') /\ ledger'.used = ledger.used /\ ledger'.seen = ledger.seen
<1>1. ASSUME NEW n \in 0 .. MaxRetries + 1, ledger' = RecordProviderRetries(ledger, n)
      PROVE  Same
  BY <1>0, <1>1, RecordProviderRetriesKeeps, BudgetAssumption
<1>2. ASSUME NEW t \in Taxonomy, NEW denied \in BOOLEAN, NEW retryable \in BOOLEAN,
             ledger' = Halt(RecordError(ledger, t, denied, retryable), t)
      PROVE  Same
  BY <1>0, <1>2, RecordErrorKeeps, HaltKeeps DEF Reasons
<1>3. ASSUME NEW t \in Taxonomy, ledger' = Halt(ledger, t)
      PROVE  Same
  BY <1>0, <1>3, HaltKeeps DEF Reasons
<1>4. Same
  BY <1>1, <1>2, <1>3 DEF ModelReturns
<1>5. \A f \in Fingerprint : ledger'.seen[f] >= ledger.seen[f]
  BY <1>0, <1>4 DEF LedgerOK, Ledgers
<1>6. TypeOK' /\ NothingAfterStop'
  BY DEF ModelReturns, ExecutionInv, TypeOK, Phases, execution, work, NothingAfterStop
<1>7. BudgetRespected' /\ SpentAsRecorded'
  BY <1>4, <1>5, AccountsKept DEF ModelReturns, execution, work
<1>8. QED BY <1>6, <1>7 DEF ExecutionInv

\* Every step of a run keeps the invariant.
LEMMA NextInv == ExecutionInv /\ [Next]_vars => ExecutionInv'
<1> SUFFICES ASSUME ExecutionInv, [Next]_vars PROVE ExecutionInv'
  OBVIOUS
<1>1. CASE Compile
  <2>1. CASE phase' = "execute" /\ UNCHANGED <<plan, mode, ledger, execution, called>>
    BY <1>1, <2>1 DEF Compile, ExecutionInv, TypeOK, Phases, execution, work,
                      NothingAfterStop, BudgetRespected, SpentAsRecorded, Active
  <2>2. ASSUME NEW r \in {"execution_plan_compilation_failed", "execution_plan_denied"},
               Stop(r)
        PROVE  ExecutionInv'
    BY <2>2, StopKeeps DEF Reasons
  <2>3. QED BY <1>1, <2>1, <2>2 DEF Compile
<1>2. CASE BeginExecution
  <2>1. CASE UNCHANGED ledger /\ phase' = "steps"
             /\ round' = [s \in Step |-> Round(plan, s)]
             /\ UNCHANGED <<plan, mode, todo, receipts, outputs, status, ran, called>>
    BY <1>2, <2>1 DEF BeginExecution, ExecutionInv, TypeOK, Phases,
                      NothingAfterStop, BudgetRespected, SpentAsRecorded, Active
  <2>2. ASSUME NEW r \in {"execution_plan_mismatch", "deadline_reserve"},
               NEW outcome \in {"failed", "deadline_exceeded"},
               ledger' = Halt(ledger, r), status' = outcome, phase' = "end",
               UNCHANGED <<plan, mode, work, called>>
        PROVE  ExecutionInv'
    <3>1. TypeOK' /\ NothingAfterStop'
      BY <2>2 DEF ExecutionInv, TypeOK, Phases, work, NothingAfterStop
    <3>2. BudgetRespected' /\ SpentAsRecorded'
      BY <2>2, HaltAccounts DEF work, Reasons
    <3>3. QED BY <3>1, <3>2 DEF ExecutionInv
  <2>3. QED BY <1>2, <2>1, <2>2 DEF BeginExecution
<1>3. CASE Succeed
  BY <1>3 DEF Succeed, ExecutionInv, TypeOK, Phases, work, NothingAfterStop,
              BudgetRespected, SpentAsRecorded, Active
<1>4. CASE CallModel
  BY <1>4, CallModelKeeps
<1>5. CASE ModelReturns
  BY <1>5, ModelReturnsKeeps
<1>6. ASSUME NEW s \in Step, RunStep(s) PROVE ExecutionInv'
  <2>1. ASSUME NEW t \in Taxonomy, StepFails(s, Halt(ledger, t), "failed")
        PROVE  ExecutionInv'
    BY <2>1, StepHaltsKeeps DEF Reasons
  <2>2. CASE Prepare(s)
    BY <2>2, PrepareKeeps
  <2>3. CASE SqlReturns(s)
    BY <2>1, <2>3, StepSucceedsKeeps DEF SqlReturns
  <2>4. CASE Compute(s)
    BY <2>1, <2>4, StepSucceedsKeeps DEF Compute
  <2>5. CASE DeadlineExceeded(s)
    BY <2>5, StepHaltsKeeps DEF DeadlineExceeded, Reasons
  <2>6. QED BY <1>6, <2>2, <2>3, <2>4, <2>5 DEF RunStep
<1>7. CASE UNCHANGED vars
  BY <1>7 DEF vars, ExecutionInv, TypeOK, NothingAfterStop, BudgetRespected,
              SpentAsRecorded, Active
<1>8. QED BY <1>1, <1>2, <1>3, <1>4, <1>5, <1>6, <1>7 DEF Next

\* For every plan, every route budget and every set of statements, a run
\* keeps its ledger within the limits, accounts for what it really did and
\* goes on only while the ledger is active.
THEOREM ExecutionSafe == Spec => []ExecutionInv
BY InitInv, NextInv, PTL DEF Spec

\* For every route budget: no statement of a run is executed as often as
\* max_same_sql, and the model is called exactly as often as the ledger says,
\* so never more often than the route allows.
THEOREM SpendingBounded ==
    Spec => [](SpentAsRecorded /\ called <= Limits["model_calls"])
<1>1. ExecutionInv => SpentAsRecorded /\ called <= Limits["model_calls"]
  BY DEF ExecutionInv, BudgetRespected, LedgerOK, SpentAsRecorded, Counters
<1>2. QED BY <1>1, ExecutionSafe, PTL

\* A stopped ledger is never charged or revived: the reason that stopped a
\* run is the one it reports, and nothing is spent after it.
THEOREM StopIsTerminal ==
    Spec => [][~Active(ledger) => UNCHANGED <<ledger, ran, called>>]_vars
<1>1. ExecutionInv /\ [Next]_vars
      => [~Active(ledger) => UNCHANGED <<ledger, ran, called>>]_vars
  <2> SUFFICES ASSUME ExecutionInv, Next, ~Active(ledger)
               PROVE  UNCHANGED <<ledger, ran, called>>
    BY DEF vars
  <2>1. phase = "end" BY DEF ExecutionInv, NothingAfterStop
  <2>2. QED
    BY <2>1 DEF Next, Compile, BeginExecution, Succeed, CallModel, ModelReturns,
                RunStep, Prepare, SqlReturns, Compute, DeadlineExceeded
<1>2. QED BY <1>1, ExecutionSafe, PTL DEF Spec
=============================================================================

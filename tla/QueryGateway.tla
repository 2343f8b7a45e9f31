---------------------------- MODULE QueryGateway ----------------------------
(***************************************************************************)
(* infra/governance/query_gateway.py, class QueryGateway: preflight and    *)
(* execute, composed with the slot pool they acquire (BoundedCapacity) and *)
(* with the audit sink of observability/control_audit.py.                  *)
(*                                                                         *)
(* Each action is the stretch of a call between two awaits.  The policy    *)
(* runs in the step that obtains the slot, and the slot is released in the *)
(* step that ends the database transaction, before the audit write.        *)
(***************************************************************************)
EXTENDS BoundedCapacity, QueryPolicy

CONSTANTS Calls(_),    \* the calls a task makes: kind, query, supplied parameters
          Estimates,   \* <<cost, rows>> the planner may report
          Results,     \* sequences of encoded row sizes the database may return
          Failures     \* what the driver may raise

\* The constructor refuses a byte cap that the brackets of an empty result
\* exceed.  The encoded size of a result is a number, 2 for one without rows.
ASSUME GatewayAssumption ==
    /\ MaxRows \in Nat /\ MaxResultBytes \in Nat /\ MaxResultBytes >= 2
    /\ \A p \in Task : \A c \in Calls(p) :
          /\ c.kind \in {"execute", "preflight"}
          /\ c.query.limit \in Int
          /\ c.query.writes \in BOOLEAN /\ c.query.locks \in BOOLEAN
    /\ \A sizes \in Results :
          /\ sizes \in Seq(Nat)
          /\ EncodedSize(sizes, Len(sizes)) \in Nat
          /\ sizes = <<>> => EncodedSize(sizes, Len(sizes)) = 2

VARIABLES pc,        \* where each call is
          call,      \* its kind and query
          reached,   \* local "stage" of _plan_and_run: how far the database got
          receipt,   \* the receipt under construction, then returned
          trail      \* what the audit store holds for the call

gatewayVars == <<pc, call, reached, receipt, trail>>
allVars == <<vars, gatewayVars>>

DbStages == {"begin", "plan", "stream", "rollback"}
PCs == {"idle", "audit_start", "acquire", "waiting", "audit_result", "done"} \cup DbStages

Receipt(code, policy, retryable, rows, size) ==
    [code |-> code, policy |-> policy, retryable |-> retryable, rows |-> rows, size |-> size]

\* _accepted_receipt, _rejected, _database_rejection, _capacity_rejection.
Accepted(rows, size) == Receipt("ok", "allow", FALSE, rows, size)
Rejected(code, policy) == Receipt(code, policy, FALSE, 0, 0)
DatabaseRejection(f, phase) ==
    Receipt(Classify(f, phase)[1], "allow", Classify(f, phase)[2], 0, 0)
CapacityRejection == Receipt("CAPACITY_EXCEEDED", "deny", TRUE, 0, 0)

\* No receipt yet; the call ended in CancelledError.
NoReceipt == Receipt("none", "none", FALSE, 0, 0)
Cancelled == Receipt("cancelled", "none", FALSE, 0, 0)

NoCall == [kind |-> "none"]
NoTrail == [start |-> FALSE, result |-> NoReceipt]

GatewayInit ==
    /\ Init
    /\ pc = [p \in Task |-> "idle"]
    /\ call = [p \in Task |-> NoCall]
    /\ reached = [p \in Task |-> "none"]
    /\ receipt = [p \in Task |-> NoReceipt]
    /\ trail = [p \in Task |-> NoTrail]

\* The verdict of prepare and validate_params on p's query.  It depends on the
\* call only.
Verdicts == [c \in UNION {Calls(p) : p \in Task} |-> Verdict(c.query, c.supplied)]
PolicyVerdict(p) == Verdicts[call[p]]

\* Where a finished attempt goes: execute records its result, preflight returns.
After(p) == IF call[p].kind = "execute" THEN "audit_result" ELSE "done"

Goto(p, label) == pc' = [pc EXCEPT ![p] = label]
Answer(p, r) == receipt' = [receipt EXCEPT ![p] = r]

-----------------------------------------------------------------------------
(* Entry, and the audit of the start.                                      *)

Call(p) ==
    /\ pc[p] = "idle"
    /\ \E c \in Calls(p) :
          /\ call' = [call EXCEPT ![p] = c]
          /\ Goto(p, IF c.kind = "execute" THEN "audit_start" ELSE "acquire")
    /\ UNCHANGED <<vars, reached, receipt, trail>>

\* record_sql_start commits the event and its outbox row, or raises.  A commit
\* whose acknowledgement is lost is stored and raises.
AuditStart(p) ==
    /\ pc[p] = "audit_start"
    /\ \/ /\ trail' = [trail EXCEPT ![p].start = TRUE]
          /\ Goto(p, "acquire")
          /\ UNCHANGED receipt
       \/ /\ \E stored \in BOOLEAN : trail' = [trail EXCEPT ![p].start = stored]
          /\ Answer(p, Rejected("AUDIT_UNAVAILABLE", "deny"))
          /\ Goto(p, "done")
    /\ UNCHANGED <<vars, call, reached>>

-----------------------------------------------------------------------------
(* acquire("sql") and the policy.                                          *)

\* A slot is free and the policy allows the query.
Admit(p) ==
    /\ pc[p] = "acquire"
    /\ PolicyVerdict(p) = "ok"
    /\ Reserve(p)
    /\ Goto(p, "begin")
    /\ UNCHANGED <<call, reached, receipt, trail>>

\* A slot is free and the policy refuses: the slot is given back at once.
AdmitRefused(p) ==
    /\ pc[p] = "acquire"
    /\ PolicyVerdict(p) # "ok"
    /\ active < Limit /\ Undone = <<>>
    /\ waiters' = Undone
    /\ stage' = [stage EXCEPT ![p] = "idle"]
    /\ Answer(p, Rejected(PolicyVerdict(p), "deny"))
    /\ Goto(p, After(p))
    /\ UNCHANGED <<active, future, interrupt, call, reached, trail>>

WaitForSlot(p) ==
    /\ pc[p] = "acquire"
    /\ Enqueue(p)
    /\ Goto(p, "waiting")
    /\ UNCHANGED <<call, reached, receipt, trail>>

TurnedAway(p) ==
    /\ pc[p] = "acquire"
    /\ RejectFull(p)
    /\ Answer(p, CapacityRejection)
    /\ Goto(p, After(p))
    /\ UNCHANGED <<call, reached, trail>>

\* The wait is interrupted from outside.
InterruptWait(p) ==
    /\ pc[p] = "waiting"
    /\ \E cause \in {"timeout", "cancel"} : Interrupt(p, cause)
    /\ UNCHANGED gatewayVars

\* The waiter wakes up with its slot and runs the policy.
Woken(p) ==
    /\ pc[p] = "waiting"
    /\ PolicyVerdict(p) = "ok"
    /\ Resume(p)
    /\ Goto(p, "begin")
    /\ UNCHANGED <<call, reached, receipt, trail>>

\* As Woken, but the policy refuses and the slot moves on in the same step.
WokenRefused(p) ==
    /\ pc[p] = "waiting"
    /\ PolicyVerdict(p) # "ok"
    /\ future[p] = "granted" /\ interrupt[p] = "none"
    /\ ReleaseTo([future EXCEPT ![p] = "none"])
    /\ stage' = [stage EXCEPT ![p] = "idle"]
    /\ Answer(p, Rejected(PolicyVerdict(p), "deny"))
    /\ Goto(p, After(p))
    /\ UNCHANGED <<interrupt, call, reached, trail>>

\* Mutant: a wait that ends is started again.
GiveUpNever(p) ==
    /\ pc[p] = "waiting"
    /\ Withdraw(p)
    /\ Goto(p, "acquire")
    /\ UNCHANGED <<call, reached, receipt, trail>>

\* The wait ends in CapacityExceededError or in CancelledError.
GiveUp(p) ==
    /\ pc[p] = "waiting"
    /\ Withdraw(p)
    /\ IF interrupt[p] = "timeout"
       THEN Answer(p, CapacityRejection) /\ Goto(p, After(p))
       ELSE Answer(p, Cancelled) /\ Goto(p, "done")
    /\ UNCHANGED <<call, reached, trail>>

-----------------------------------------------------------------------------
(* The read-only transaction.                                              *)

BeginReadOnly(p) ==
    /\ pc[p] = "begin"
    /\ reached' = [reached EXCEPT ![p] = "plan"]
    /\ Goto(p, "plan")
    /\ UNCHANGED <<vars, call, receipt, trail>>

\* EXPLAIN, and the cost and row caps.  A preflight ends here.
Plan(p) ==
    /\ pc[p] = "plan"
    /\ \E e \in Estimates :
          LET verdict == PlanVerdict(e[1], e[2])
          IN  \/ /\ verdict = "ok" /\ call[p].kind = "execute"
                 /\ reached' = [reached EXCEPT ![p] = "execute"]
                 /\ Goto(p, "stream")
                 /\ UNCHANGED receipt
              \/ /\ ~(verdict = "ok" /\ call[p].kind = "execute")
                 /\ Answer(p, IF verdict = "ok" THEN Accepted(0, 0) ELSE Rejected(verdict, "deny"))
                 /\ Goto(p, "rollback")
                 /\ UNCHANGED reached
    /\ UNCHANGED <<vars, call, trail>>

\* The rows are streamed and judged; the statement carries the safe LIMIT.
Stream(p) ==
    /\ pc[p] = "stream"
    /\ \E sizes \in Results :
          /\ Len(sizes) <= SafeLimit(call[p].query)
          /\ Answer(p, IF StreamVerdict(sizes) = "ok"
                       THEN Accepted(Len(sizes), EncodedSize(sizes, Len(sizes)))
                       ELSE Rejected(StreamVerdict(sizes), "deny"))
    /\ Goto(p, "rollback")
    /\ UNCHANGED <<vars, call, reached, trail>>

Phase(p) == IF reached[p] = "execute" THEN "execute" ELSE "plan"

\* A statement fails or times out.
DatabaseFails(p) ==
    /\ pc[p] \in {"begin", "plan", "stream"}
    /\ \E f \in Failures : Answer(p, DatabaseRejection(f, Phase(p)))
    /\ Goto(p, "rollback")
    /\ UNCHANGED <<vars, call, reached, trail>>

\* Mutant: the slot is kept until the audit result is recorded.
RollbackKeepsSlot(p) ==
    /\ pc[p] = "rollback"
    /\ Goto(p, IF receipt[p] = Cancelled THEN "done" ELSE After(p))
    /\ UNCHANGED <<vars, receipt, call, reached, trail>>

\* The finally clause: roll back and give the slot back.  A rollback that
\* fails replaces whatever was raised, a cancellation too, by its own error.
Rollback(p) ==
    /\ pc[p] = "rollback"
    /\ Release(p)
    /\ \/ /\ Goto(p, IF receipt[p] = Cancelled THEN "done" ELSE After(p))
          /\ UNCHANGED receipt
       \/ /\ \E f \in Failures : Answer(p, DatabaseRejection(f, Phase(p)))
          /\ Goto(p, After(p))
    /\ UNCHANGED <<call, reached, trail>>

-----------------------------------------------------------------------------
(* The audit of the result, cancellation, and the return.                  *)

\* Mutant: the receipt is returned although its audit failed.
AuditResultBestEffort(p) ==
    /\ pc[p] = "audit_result"
    /\ \/ trail' = [trail EXCEPT ![p].result = receipt[p]]
       \/ UNCHANGED trail
    /\ Goto(p, "done")
    /\ UNCHANGED <<vars, call, reached, receipt>>

\* record_sql_result; when it raises the rows are withheld.
AuditResult(p) ==
    /\ pc[p] = "audit_result"
    /\ \/ /\ trail' = [trail EXCEPT ![p].result = receipt[p]]
          /\ UNCHANGED receipt
       \/ /\ \/ trail' = [trail EXCEPT ![p].result = receipt[p]]
             \/ UNCHANGED trail
          /\ Answer(p, Rejected("AUDIT_UNAVAILABLE", receipt[p].policy))
    /\ Goto(p, "done")
    /\ UNCHANGED <<vars, call, reached>>

\* The caller's task is cancelled while the call awaits the audit store or the
\* database.  CancelledError is no Exception: no handler of the call sees it.
Cancel(p) ==
    /\ \/ /\ pc[p] = "audit_start"
          /\ \E stored \in BOOLEAN : trail' = [trail EXCEPT ![p].start = stored]
          /\ Goto(p, "done")
       \/ /\ pc[p] = "audit_result"
          /\ \/ trail' = [trail EXCEPT ![p].result = receipt[p]]
             \/ UNCHANGED trail
          /\ Goto(p, "done")
       \/ /\ pc[p] \in DbStages
          /\ Goto(p, "rollback")
          /\ UNCHANGED trail
    /\ Answer(p, Cancelled)
    /\ UNCHANGED <<vars, call, reached>>

\* The caller takes the receipt; its next call is a new one.
Return(p) ==
    /\ pc[p] = "done"
    /\ stage' = [stage EXCEPT ![p] = "idle"]
    /\ Goto(p, "idle")
    /\ Answer(p, NoReceipt)
    /\ call' = [call EXCEPT ![p] = NoCall]
    /\ reached' = [reached EXCEPT ![p] = "none"]
    /\ trail' = [trail EXCEPT ![p] = NoTrail]
    /\ UNCHANGED <<active, waiters, future, interrupt>>

\* What the call does by itself once its awaits are answered.
Proceed(p) ==
    \/ AuditStart(p)
    \/ Admit(p)
    \/ AdmitRefused(p)
    \/ WaitForSlot(p)
    \/ TurnedAway(p)
    \/ Woken(p)
    \/ WokenRefused(p)
    \/ GiveUp(p)
    \/ BeginReadOnly(p)
    \/ Plan(p)
    \/ Stream(p)
    \/ DatabaseFails(p)
    \/ Rollback(p)
    \/ AuditResult(p)
    \/ Return(p)

GatewayNext ==
    \E p \in Task :
        \/ Call(p)
        \/ Proceed(p)
        \/ InterruptWait(p)
        \/ Cancel(p)

GatewaySpec == GatewayInit /\ [][GatewayNext]_allVars

\* Every await of a call is answered: the database by its statement timeout or
\* asyncio.timeout, the audit store by its driver.  Callers, timeouts of the
\* wait and cancellations are not assumed to come.
GatewayFairSpec ==
    GatewaySpec /\ \A p \in Task : WF_allVars(Proceed(p))

-----------------------------------------------------------------------------
(* Properties.                                                             *)

ReceiptOK(r) ==
    /\ r.policy \in {"none", "allow", "deny"}
    /\ r.retryable \in BOOLEAN
    /\ r.rows \in Nat
    /\ r.size \in Nat

\* Type correctness of the gateway's part of the state.
GatewayTypeOK ==
    /\ pc \in [Task -> PCs]
    /\ reached \in [Task -> {"none", "plan", "execute"}]
    /\ \A p \in Task :
          /\ call[p].kind \in {"none", "execute", "preflight"}
          /\ ReceiptOK(receipt[p])
          /\ trail[p].start \in BOOLEAN
          /\ ReceiptOK(trail[p].result)

\* The slot pool stays sound inside the gateway, a call owns a slot exactly
\* while its transaction is open, and so at most Limit transactions are.
SlotsCoverDatabase ==
    /\ CapacityInv
    /\ \A p \in Task : stage[p] = "holding" <=> pc[p] \in DbStages
    /\ Cardinality({p \in Task : pc[p] \in DbStages}) <= Limit

\* The gateway's basic invariant: types, the pool, and slots against
\* transactions.
GatewayInv == GatewayTypeOK /\ SlotsCoverDatabase

\* No statement of an execute call reaches the database before the start of
\* the call is in the audit store, whatever that store answers.
NothingRunsUnaudited ==
    \A p \in Task :
        call[p].kind = "execute" /\ (pc[p] \in DbStages \/ reached[p] # "none")
        => trail[p].start

\* An accepted result is returned only when the audit store holds the start
\* and a result event with that very outcome and row count.
RowsAreAudited ==
    \A p \in Task :
        call[p].kind = "execute" /\ pc[p] = "done" /\ receipt[p].code = "ok"
        => trail[p].start /\ trail[p].result = receipt[p]

\* What a receipt tells the caller is what happened and what the audit store
\* holds: accepted rows respect the LIMIT and byte caps and were audited before
\* and after, a query the policy refuses or that found no slot never reached the
\* database, "allow" is said only of queries the policy allows.
ReceiptsHonest ==
    /\ NothingRunsUnaudited
    /\ RowsAreAudited
    /\ \A p \in Task :
           LET r == receipt[p]
               q == call[p].query
           IN  pc[p] \in {"audit_result", "done"} =>
               /\ r.code = "ok" => /\ r.rows <= MaxRows
                                   /\ q.limitKind = "literal" => r.rows <= q.limit
                                   /\ r.size <= MaxResultBytes
                                   /\ reached[p] = IF call[p].kind = "execute"
                                                   THEN "execute" ELSE "plan"
               /\ r.policy = "allow" => PolicyVerdict(p) = "ok"
               /\ r.code = "CAPACITY_EXCEEDED" => reached[p] = "none"
               /\ PolicyVerdict(p) # "ok" => reached[p] = "none"

\* Every call ends: no mix of full queues, refusals, failures, timeouts and
\* cancellations leaves a caller without an answer.
CallsEnd == \A p \in Task : pc[p] # "idle" ~> pc[p] = "idle"
=============================================================================

------------------------- MODULE QueryGatewayProofs -------------------------
(***************************************************************************)
(* The gateway with its slot pool, for every number of callers, limit and  *)
(* queue size, every mix of calls, results and failures: transactions are  *)
(* covered by slots, and receipts tell what happened and was audited.      *)
(***************************************************************************)
EXTENDS QueryGateway, BoundedCapacityProofs, NaturalsInduction

\* The verdict that a receipt speaks of, against how far the call got.
Honest(r, c, far) ==
    /\ r.code = "ok" => /\ r.rows <= MaxRows
                        /\ c.query.limitKind = "literal" => r.rows <= c.query.limit
                        /\ r.size <= MaxResultBytes
                        /\ far = IF c.kind = "execute" THEN "execute" ELSE "plan"
    /\ r.policy = "allow" => Verdicts[c] = "ok"
    /\ r.code = "CAPACITY_EXCEEDED" => far = "none"

\* How far the database may have got.
Reaches == {"none", "plan", "execute"}

\* A trail holds whether the start was stored, and a result.
TrailOK(t) == t \in [start : BOOLEAN, result : {t.result}] /\ ReceiptOK(t.result)

\* One call: its place at, its stage s in the pool, the call c itself, how far
\* the database got, its receipt r and its audit trail t.
Fits(p, s, at, c, far, r, t) ==
    /\ at \in PCs /\ far \in Reaches
    /\ ReceiptOK(r) /\ TrailOK(t)
    /\ IF at = "idle" THEN c = NoCall ELSE c \in Calls(p)
    /\ s = "holding" <=> at \in DbStages
    /\ s = "waiting" <=> at = "waiting"
    /\ at \in {"audit_start", "audit_result", "stream"} \/ far = "execute" => c.kind = "execute"
    /\ at \in {"idle", "audit_start", "acquire", "waiting", "begin"} => far = "none"
    /\ at = "plan" => far = "plan"
    /\ at = "stream" => far = "execute"
    /\ at \in DbStages \/ far # "none" => Verdicts[c] = "ok"
    /\ at \in {"idle", "audit_start", "acquire", "waiting", "begin", "plan", "stream"}
          => r = NoReceipt
    /\ c.kind = "execute" /\ (\/ at \in {"acquire", "waiting", "audit_result"} \cup DbStages
                              \/ far # "none") => t.start
    /\ at \in {"rollback", "audit_result", "done"} => Honest(r, c, far)
    /\ at = "done" /\ c.kind = "execute" /\ r.code = "ok" => t.start /\ t.result = r

\* The inductive invariant of the gateway.
GatewayIInv ==
    /\ CapacityInv
    /\ pc \in [Task -> PCs] /\ reached \in [Task -> Reaches]
    /\ DOMAIN call = Task /\ DOMAIN receipt = Task /\ DOMAIN trail = Task
    /\ \A p \in Task : Fits(p, stage[p], pc[p], call[p], reached[p], receipt[p], trail[p])

-----------------------------------------------------------------------------
(* The pure decisions.                                                     *)

PolicyCodes == {"INVALID_SQL", "POLICY_DENIED", "SCHEMA_DENIED", "PARAMETER_MISMATCH"}
CheckRecords == [fails : BOOLEAN, code : PolicyCodes]

\* A nonempty set of positions has a first one.
LEMMA FirstPosition ==
    ASSUME NEW S \in SUBSET Nat, S # {}
    PROVE  \E i \in S : \A j \in S : i <= j
<1> DEFINE R == OpToRel(<, Nat)
<1>1. IsWellFoundedOn(R, Nat)
  BY ZenonT(30), NatLessThanWellFounded
<1>2. \A i, j \in Nat : <<j, i>> \notin R => i <= j
  BY DEF OpToRel
<1> HIDE DEF R
<1>3. PICK i \in S : \A j \in S : <<j, i>> \notin R
  BY <1>1, WFMin, Zenon
<1> QED BY ZenonT(30), <1>2, <1>3

\* Two lists of checks, one after the other.
LEMMA JoinChecks ==
    ASSUME NEW s \in Seq(CheckRecords), NEW t \in Seq(CheckRecords)
    PROVE  /\ s \o t \in Seq(CheckRecords)
           /\ Len(s \o t) = Len(s) + Len(t)
           /\ \A i \in 1 .. Len(s) : (s \o t)[i] = s[i]
           /\ \A i \in 1 .. Len(t) : (s \o t)[Len(s) + i] = t[i]
<1>1. Len(s) \in Nat /\ Len(t) \in Nat
  BY LenProperties
<1>2. /\ s \o t \in Seq(CheckRecords)
      /\ Len(s \o t) = Len(s) + Len(t)
      /\ \A i \in 1 .. Len(s) + Len(t) :
            (s \o t)[i] = IF i <= Len(s) THEN s[i] ELSE t[i - Len(s)]
  BY ConcatProperties, Zenon
<1>3. \A i \in 1 .. Len(s) : i \in 1 .. Len(s) + Len(t) /\ i <= Len(s)
  BY <1>1
<1>4. \A i \in 1 .. Len(t) : /\ Len(s) + i \in 1 .. Len(s) + Len(t)
                             /\ ~(Len(s) + i <= Len(s))
                             /\ (Len(s) + i) - Len(s) = i
  BY <1>1
<1>5. \A i \in 1 .. Len(t) : (s \o t)[Len(s) + i] = t[i]
  <2> SUFFICES ASSUME NEW i \in 1 .. Len(t) PROVE (s \o t)[Len(s) + i] = t[i]
    OBVIOUS
  <2>1. (s \o t)[Len(s) + i] = t[(Len(s) + i) - Len(s)]
    BY <1>2, <1>4, Zenon
  <2> QED BY <1>4, <2>1, Zenon
<1>6. \A i \in 1 .. Len(s) : (s \o t)[i] = s[i]
  BY <1>2, <1>3, Zenon
<1> QED BY <1>2, <1>5, <1>6, Zenon

\* The checks of prepare: each raises one of four refusals, and the check of a
\* negative LIMIT is among them.
LEMMA ChecksShape ==
    ASSUME NEW q, q.writes \in BOOLEAN, q.locks \in BOOLEAN
    PROVE  /\ PolicyChecks(q) \in Seq(CheckRecords)
           /\ Len(PolicyChecks(q)) = 17
           /\ q.limitKind = "literal" /\ q.limit < 0 => PolicyChecks(q)[16].fails
<1> DEFINE a == << Check(q.text = "empty", "INVALID_SQL"),
                   Check(q.text = "garbled", "INVALID_SQL"),
                   Check(q.statements # 1, "POLICY_DENIED"),
                   Check(~q.select, "POLICY_DENIED"),
                   Check(q.writes, "POLICY_DENIED"),
                   Check(q.locks, "POLICY_DENIED") >>
           z == << Check(~q.renders, "INVALID_SQL") >>
<1>1. a \in Seq(CheckRecords) /\ Len(a) = 6
  BY DEF Check, CheckRecords, PolicyCodes
<1>2. ComplexityChecks(q) \in Seq(CheckRecords) /\ Len(ComplexityChecks(q)) = 3
  BY DEF ComplexityChecks, Check, CheckRecords, PolicyCodes
<1>3. FunctionChecks(q) \in Seq(CheckRecords) /\ Len(FunctionChecks(q)) = 2
  BY DEF FunctionChecks, Check, CheckRecords, PolicyCodes
<1>4. ParameterChecks(q) \in Seq(CheckRecords) /\ Len(ParameterChecks(q)) = 1
  BY DEF ParameterChecks, Check, CheckRecords, PolicyCodes
<1>5. SchemaChecks(q) \in Seq(CheckRecords) /\ Len(SchemaChecks(q)) = 2
  BY DEF SchemaChecks, Check, CheckRecords, PolicyCodes
<1>6. /\ LimitChecks(q) \in Seq(CheckRecords) /\ Len(LimitChecks(q)) = 2
      /\ q.limitKind = "literal" /\ q.limit < 0 => LimitChecks(q)[2].fails
  <2>1. LimitChecks(q) \in Seq(CheckRecords) /\ Len(LimitChecks(q)) = 2
    BY DEF LimitChecks, Check, CheckRecords, PolicyCodes
  <2>2. LimitChecks(q)[2] = Check(q.limitKind = "literal" /\ q.limit < 0, "POLICY_DENIED")
    BY DEF LimitChecks
  <2>3. q.limitKind = "literal" /\ q.limit < 0 => LimitChecks(q)[2].fails
    <3> SUFFICES ASSUME q.limitKind = "literal", q.limit < 0
                 PROVE  LimitChecks(q)[2].fails
      OBVIOUS
    <3>1. (q.limitKind = "literal" /\ q.limit < 0) = TRUE
      OBVIOUS
    <3>2. LimitChecks(q)[2] = Check(TRUE, "POLICY_DENIED")
      BY <2>2, <3>1, Zenon
    <3>3. LimitChecks(q)[2].fails = TRUE
      BY <3>2 DEF Check
    <3> QED BY <3>3, Zenon
  <2> QED BY <2>1, <2>3
<1>7. z \in Seq(CheckRecords) /\ Len(z) = 1
  BY DEF Check, CheckRecords, PolicyCodes
<1>8. PolicyChecks(q) = a \o ComplexityChecks(q) \o FunctionChecks(q) \o ParameterChecks(q)
                          \o SchemaChecks(q) \o LimitChecks(q) \o z
  BY DEF PolicyChecks
<1> HIDE DEF a, z
<1>9. PICK b1 : b1 = a \o ComplexityChecks(q)
  BY Zenon
<1>10. b1 \in Seq(CheckRecords) /\ Len(b1) = 9
  <2>1. /\ b1 \in Seq(CheckRecords) /\ Len(b1) = Len(a) + Len(ComplexityChecks(q))
    BY <1>1, <1>2, <1>9, JoinChecks, Zenon
  <2> QED BY <1>1, <1>2, <2>1
<1>11. PICK b2 : b2 = b1 \o FunctionChecks(q)
  BY Zenon
<1>12. b2 \in Seq(CheckRecords) /\ Len(b2) = 11
  <2>1. /\ b2 \in Seq(CheckRecords) /\ Len(b2) = Len(b1) + Len(FunctionChecks(q))
    BY <1>10, <1>3, <1>11, JoinChecks, Zenon
  <2> QED BY <1>10, <1>3, <2>1
<1>13. PICK b3 : b3 = b2 \o ParameterChecks(q)
  BY Zenon
<1>14. b3 \in Seq(CheckRecords) /\ Len(b3) = 12
  <2>1. /\ b3 \in Seq(CheckRecords) /\ Len(b3) = Len(b2) + Len(ParameterChecks(q))
    BY <1>12, <1>4, <1>13, JoinChecks, Zenon
  <2> QED BY <1>12, <1>4, <2>1
<1>15. PICK b4 : b4 = b3 \o SchemaChecks(q)
  BY Zenon
<1>16. b4 \in Seq(CheckRecords) /\ Len(b4) = 14
  <2>1. /\ b4 \in Seq(CheckRecords) /\ Len(b4) = Len(b3) + Len(SchemaChecks(q))
    BY <1>14, <1>5, <1>15, JoinChecks, Zenon
  <2> QED BY <1>14, <1>5, <2>1
<1>17. PICK b5 : b5 = b4 \o LimitChecks(q)
  BY Zenon
<1>18. b5 \in Seq(CheckRecords) /\ Len(b5) = 16 /\ b5[16] = LimitChecks(q)[2]
  <2>1. /\ b5 \in Seq(CheckRecords) /\ Len(b5) = Len(b4) + Len(LimitChecks(q))
        /\ \A i \in 1 .. Len(LimitChecks(q)) : b5[Len(b4) + i] = LimitChecks(q)[i]
    BY <1>16, <1>6, <1>17, JoinChecks, Zenon
  <2> QED BY <1>16, <1>6, <2>1
<1>19. PolicyChecks(q) = b5 \o z
  BY <1>8, <1>9, <1>11, <1>13, <1>15, <1>17, Zenon
<1>20. /\ b5 \o z \in Seq(CheckRecords) /\ Len(b5 \o z) = Len(b5) + Len(z)
       /\ \A i \in 1 .. Len(b5) : (b5 \o z)[i] = b5[i]
  BY <1>7, <1>18, JoinChecks, Zenon
<1>21. Len(b5 \o z) = 17 /\ 16 \in 1 .. Len(b5)
  BY <1>7, <1>18, <1>20
<1>22. (b5 \o z)[16] = LimitChecks(q)[2]
  BY <1>18, <1>20, <1>21, Zenon
<1> QED BY <1>6, <1>19, <1>20, <1>21, <1>22, Zenon

\* A query the policy lets through has no negative literal LIMIT.
LEMMA AllowedLimit ==
    ASSUME NEW p \in Task, NEW c \in Calls(p), Verdicts[c] = "ok",
           c.query.limitKind = "literal"
    PROVE  c.query.limit \in Nat
<1> DEFINE checks == PolicyChecks(c.query)
           failed == {i \in 1 .. Len(checks) : checks[i].fails}
           first == CHOOSE i \in failed : \A j \in failed : i <= j
<1>1. c.query.limit \in Int /\ c.query.writes \in BOOLEAN /\ c.query.locks \in BOOLEAN
  BY GatewayAssumption
<1>2. /\ checks \in Seq(CheckRecords) /\ Len(checks) = 17
      /\ c.query.limitKind = "literal" /\ c.query.limit < 0 => checks[16].fails
  BY <1>1, ChecksShape
<1>3. Verdict(c.query, c.supplied) = "ok"
  BY DEF Verdicts
<1>4. failed # {} => Verdict(c.query, c.supplied) = checks[first].code
  BY DEF Verdict
<1>5. failed # {} => first \in failed
  <2>1. failed \in SUBSET Nat
    BY <1>2
  <2> HIDE DEF failed
  <2> QED BY ZenonT(30), <2>1, FirstPosition
<1>6. failed # {} => checks[first].code \in PolicyCodes
  <2>1. failed # {} => checks[first] \in CheckRecords
    <3>1. failed # {} => first \in 1 .. Len(checks)
      BY <1>5
    <3> HIDE DEF first, failed, checks
    <3> QED BY ZenonT(30), <1>2, <3>1, ElementOfSeq
  <2> HIDE DEF first, failed, checks
  <2> QED BY <2>1 DEF CheckRecords
<1>7. failed = {}
  <2> HIDE DEF failed, checks, first
  <2> QED BY <1>3, <1>4, <1>6 DEF PolicyCodes
<1>8. ~checks[16].fails
  <2> HIDE DEF checks
  <2> QED BY <1>2, <1>7
<1> HIDE DEF checks
<1> QED BY <1>1, <1>2, <1>8

\* What the driver raises becomes neither an acceptance nor a full pool.
LEMMA ClassifyShape ==
    ASSUME NEW f, NEW phase
    PROVE  /\ Classify(f, phase)[1] \notin {"ok", "CAPACITY_EXCEEDED"}
           /\ Classify(f, phase)[2] \in BOOLEAN
<1>1. \E code \in {"TIMEOUT", "CONNECTION_ERROR", "TRANSIENT_DATABASE_ERROR",
                   "PERMISSION_DENIED", "PARAMETER_INVALID", "RELATION_NOT_FOUND",
                   "PLAN_FAILED", "DATABASE_ERROR"}, again \in BOOLEAN :
         Classify(f, phase) = <<code, again>>
  BY ZenonT(30) DEF Classify
<1> QED BY <1>1

\* A result that is streamed to its end fits the byte cap.
LEMMA StreamFits ==
    ASSUME NEW sizes \in Results
    PROVE  /\ StreamVerdict(sizes) = "ok" =>
                 EncodedSize(sizes, Len(sizes)) <= MaxResultBytes
           /\ StreamVerdict(sizes) \in {"ok", "ROWS_EXCEEDED", "RESULT_TOO_LARGE"}
<1> DEFINE over == {n \in 1 .. Len(sizes) :
                       n > MaxRows \/ EncodedSize(sizes, n) > MaxResultBytes}
           first == CHOOSE n \in over : \A m \in over : n <= m
<1>1. /\ Len(sizes) \in Nat /\ EncodedSize(sizes, Len(sizes)) \in Nat
      /\ sizes = <<>> => EncodedSize(sizes, Len(sizes)) = 2
      /\ Len(sizes) = 0 => sizes = <<>>
      /\ MaxResultBytes \in Nat /\ MaxResultBytes >= 2
  BY GatewayAssumption, LenProperties, EmptySeq
<1>2. /\ StreamVerdict(sizes) = "ok" => over = {}
      /\ StreamVerdict(sizes) \in {"ok", "ROWS_EXCEEDED", "RESULT_TOO_LARGE"}
  BY DEF StreamVerdict
<1>3. ASSUME over = {} PROVE EncodedSize(sizes, Len(sizes)) <= MaxResultBytes
  <2>1. CASE Len(sizes) = 0
    BY <1>1, <2>1
  <2>2. CASE Len(sizes) # 0
    BY <1>1, <1>3, <2>2
  <2> QED BY <2>1, <2>2
<1> QED BY <1>2, <1>3

-----------------------------------------------------------------------------
(* One step of one call.                                                   *)

\* The step leaves every call but that of p alone, and takes p's call there.
Moves(p, s, at, c, far, r, t) ==
    /\ pc' \in [Task -> PCs \cup {at}] /\ reached' \in [Task -> Reaches \cup {far}]
    /\ DOMAIN call' = Task /\ DOMAIN receipt' = Task /\ DOMAIN trail' = Task
    /\ stage'[p] = s /\ pc'[p] = at /\ call'[p] = c
    /\ reached'[p] = far /\ receipt'[p] = r /\ trail'[p] = t
    /\ \A q \in Task \ {p} :
          /\ stage'[q] = stage[q] /\ pc'[q] = pc[q] /\ call'[q] = call[q]
          /\ reached'[q] = reached[q] /\ receipt'[q] = receipt[q] /\ trail'[q] = trail[q]

\* Where each field lives.
LEMMA Shapes ==
    ASSUME GatewayIInv
    PROVE  /\ pc \in [Task -> PCs] /\ reached \in [Task -> Reaches]
           /\ DOMAIN call = Task /\ DOMAIN receipt = Task /\ DOMAIN trail = Task
           /\ DOMAIN stage = Task
           /\ CapacityInv
BY DEF GatewayIInv, CapacityInv, TypeOK

\* A step that moves one call, and moves it well, preserves the invariant.
LEMMA OneMoves ==
    ASSUME GatewayIInv, NEW p \in Task, CapacityInv',
           NEW s, NEW at, NEW c, NEW far, NEW r, NEW t,
           Moves(p, s, at, c, far, r, t), Fits(p, s, at, c, far, r, t)
    PROVE  GatewayIInv'
<1>1. ASSUME NEW q \in Task
      PROVE  Fits(q, stage'[q], pc'[q], call'[q], reached'[q], receipt'[q], trail'[q])
  <2>1. CASE q = p
    BY <2>1 DEF Moves
  <2>2. CASE q # p
    BY <2>2 DEF Moves, GatewayIInv
  <2> QED BY <2>1, <2>2
<1>2. at \in PCs /\ far \in Reaches
  BY DEF Fits, Reaches
<1>3. pc' \in [Task -> PCs] /\ reached' \in [Task -> Reaches]
  BY <1>2 DEF Moves
<1> QED BY <1>1, <1>3 DEF Moves, GatewayIInv

\* The audit store writes the start of a call.
LEMMA StartWritten ==
    ASSUME NEW t, TrailOK(t), NEW b \in BOOLEAN
    PROVE  /\ TrailOK([t EXCEPT !.start = b])
           /\ [t EXCEPT !.start = b].start = b
<1>1. /\ [t EXCEPT !.start = b].start = b
      /\ [t EXCEPT !.start = b].result = t.result
      /\ [t EXCEPT !.start = b] \in [start : BOOLEAN, result : {t.result}]
  BY DEF TrailOK
<1> QED BY <1>1 DEF TrailOK

\* The audit store writes the result of a call.
LEMMA ResultWritten ==
    ASSUME NEW t, TrailOK(t), NEW r, ReceiptOK(r)
    PROVE  /\ TrailOK([t EXCEPT !.result = r])
           /\ [t EXCEPT !.result = r].start = t.start
           /\ [t EXCEPT !.result = r].result = r
<1>1. /\ [t EXCEPT !.result = r].start = t.start
      /\ [t EXCEPT !.result = r].result = r
      /\ [t EXCEPT !.result = r] \in [start : BOOLEAN, result : {r}]
  BY DEF TrailOK
<1> QED BY <1>1 DEF TrailOK

\* The receipts the gateway writes: their type and what they say.
LEMMA Receipts ==
    /\ ReceiptOK(NoReceipt) /\ NoReceipt.code = "none" /\ NoReceipt.policy = "none"
    /\ ReceiptOK(Cancelled) /\ Cancelled.code = "cancelled" /\ Cancelled.policy = "none"
    /\ ReceiptOK(CapacityRejection) /\ CapacityRejection.code = "CAPACITY_EXCEEDED"
    /\ CapacityRejection.policy = "deny"
    /\ \A code : \A policy \in {"none", "allow", "deny"} :
          /\ ReceiptOK(Rejected(code, policy))
          /\ Rejected(code, policy).code = code /\ Rejected(code, policy).policy = policy
    /\ \A rows, size \in Nat :
          /\ ReceiptOK(Accepted(rows, size)) /\ Accepted(rows, size).code = "ok"
          /\ Accepted(rows, size).policy = "allow"
          /\ Accepted(rows, size).rows = rows /\ Accepted(rows, size).size = size
BY DEF NoReceipt, Cancelled, CapacityRejection, Rejected, Accepted, Receipt, ReceiptOK

\* What a database failure answers.
LEMMA FailureReceipt ==
    ASSUME NEW f, NEW phase
    PROVE  /\ ReceiptOK(DatabaseRejection(f, phase))
           /\ DatabaseRejection(f, phase).code \notin {"ok", "CAPACITY_EXCEEDED"}
           /\ DatabaseRejection(f, phase).policy = "allow"
BY ClassifyShape DEF DatabaseRejection, Receipt, ReceiptOK

\* A step of the pool inside a step of the gateway.
LEMMA PoolStep ==
    ASSUME CapacityInv, NEW p \in Task,
           \/ Reserve(p) \/ Enqueue(p) \/ RejectFull(p) \/ Resume(p) \/ Withdraw(p) \/ Release(p)
           \/ \E cause \in {"timeout", "cancel"} : Interrupt(p, cause)
    PROVE  CapacityInv'
<1>1. Next
  BY Zenon DEF Next
<1> QED BY <1>1, NextCapacity

\* A task that neither waits nor holds a slot drops out of the pool; the done
\* waiters may be discarded meanwhile.
LEMMA RelabelInv ==
    ASSUME CapacityInv, NEW p \in Task, stage[p] \notin {"waiting", "holding"},
           active' = active, future' = future, interrupt' = interrupt,
           waiters' = waiters \/ waiters' = Undone,
           stage' = [stage EXCEPT ![p] = "idle"]
    PROVE  CapacityInv'
<1>t. /\ future \in [Task -> FutureStates] /\ stage \in [Task -> Stages]
      /\ waiters \in Seq(Task) /\ Len(waiters) \in Nat
  BY LenProperties DEF CapacityInv, TypeOK
<1>u. /\ waiters' \in Seq(Task) /\ Len(waiters') \in Nat /\ Len(waiters') <= Len(waiters)
      /\ \A k, l \in 1 .. Len(waiters') : waiters'[k] = waiters'[l] => k = l
      /\ \A q \in Pending : \E k \in 1 .. Len(waiters') : waiters'[k] = q
      /\ \A k \in 1 .. Len(waiters') : future[waiters'[k]] \in {"pending", "cancelled"}
  <2>1. CASE waiters' = waiters
    BY <1>t, <2>1 DEF CapacityInv, NoLostWaiter, WaitersConsistent
  <2>2. CASE waiters' = Undone
    BY <1>t, <2>2, UndoneProperties DEF Pending
  <2> QED BY <2>1, <2>2
<1>1. Holders' = Holders /\ Pending' = Pending
  BY <1>t DEF Holders, Pending
<1>2. TypeOK'
  BY <1>t, <1>u DEF CapacityInv, TypeOK, Stages
<1>3. SlotsAccounted' /\ CapacityRespected' /\ NoIdleSlot'
  BY <1>1 DEF CapacityInv, SlotsAccounted, CapacityRespected, NoIdleSlot
<1>4. QueueBounded' /\ NoLostWaiter'
  BY <1>1, <1>t, <1>u, CapacityAssumption DEF CapacityInv, QueueBounded, NoLostWaiter
<1>5. WaitersConsistent'
  <2>1. \A q \in Task :
          /\ stage'[q] = "waiting" <=> future'[q] # "none"
          /\ future'[q] = "pending" => interrupt'[q] = "none"
          /\ future'[q] = "cancelled" => interrupt'[q] # "none"
          /\ interrupt'[q] # "none" => stage'[q] = "waiting"
    BY <1>t DEF CapacityInv, WaitersConsistent
  <2> QED BY <1>u, <2>1 DEF WaitersConsistent
<1> QED BY <1>2, <1>3, <1>4, <1>5 DEF CapacityInv

-----------------------------------------------------------------------------
(* Every action.                                                           *)

\* What a call is known to satisfy before its step.
LEMMA Here ==
    ASSUME GatewayIInv, NEW p \in Task
    PROVE  /\ Fits(p, stage[p], pc[p], call[p], reached[p], receipt[p], trail[p])
           /\ TrailOK(trail[p]) /\ ReceiptOK(receipt[p])
           /\ pc[p] # "idle" => /\ call[p] \in Calls(p)
                                /\ call[p].kind \in {"execute", "preflight"}
                                /\ call[p].query.limit \in Int
BY GatewayAssumption DEF GatewayIInv, Fits

\* What the place of a call tells of it.
LEMMA Located ==
    ASSUME NEW p \in Task, NEW s, NEW at, NEW c, NEW far, NEW r, NEW t, Fits(p, s, at, c, far, r, t)
    PROVE  /\ at # "idle" => c \in Calls(p)
           /\ at \in {"acquire", "done", "audit_start", "audit_result"} =>
                 s \notin {"waiting", "holding"}
           /\ at = "waiting" => s = "waiting"
           /\ at \in {"acquire", "waiting", "audit_start"} => far = "none"
           /\ at = "plan" => far = "plan"
           /\ at = "stream" => far = "execute" /\ c.kind = "execute"
           /\ at \in DbStages => Verdicts[c] = "ok"
           /\ at \in {"rollback", "audit_result", "done"} => Honest(r, c, far)
BY DEF Fits, DbStages

\* The same of a call of the state.
LEMMA Whereabouts ==
    ASSUME GatewayIInv, NEW p \in Task
    PROVE  /\ pc[p] # "idle" => call[p] \in Calls(p)
           /\ pc[p] \in {"acquire", "done", "audit_start", "audit_result"} =>
                 stage[p] \notin {"waiting", "holding"}
           /\ pc[p] = "waiting" => stage[p] = "waiting"
           /\ pc[p] \in {"acquire", "waiting", "audit_start"} => reached[p] = "none"
           /\ pc[p] = "plan" => reached[p] = "plan"
           /\ pc[p] = "stream" => reached[p] = "execute" /\ call[p].kind = "execute"
           /\ pc[p] \in DbStages => Verdicts[call[p]] = "ok"
           /\ pc[p] \in {"rollback", "audit_result", "done"} =>
                 Honest(receipt[p], call[p], reached[p])
<1>1. Fits(p, stage[p], pc[p], call[p], reached[p], receipt[p], trail[p])
  BY Here
<1> QED BY Zenon, <1>1, Located

\* A receipt that refuses is honest, unless it speaks of the pool or of the
\* policy.
LEMMA HonestRefusal ==
    ASSUME NEW r, NEW c, NEW far, r.code # "ok",
           r.code = "CAPACITY_EXCEEDED" => far = "none",
           r.policy = "allow" => Verdicts[c] = "ok"
    PROVE  Honest(r, c, far)
BY DEF Honest

\* No call at all.
LEMMA Fresh ==
    ASSUME NEW p \in Task
    PROVE  Fits(p, "idle", "idle", NoCall, "none", NoReceipt, NoTrail)
<1>1. ReceiptOK(NoReceipt) /\ TrailOK(NoTrail) /\ NoCall.kind = "none"
  BY Receipts DEF TrailOK, NoTrail, NoCall
<1> QED BY <1>1 DEF Fits, Reaches, PCs, DbStages

\* A call that has just come in.
LEMMA ToEntry ==
    ASSUME NEW p \in Task, NEW s, NEW c0, NEW far, NEW r, NEW t, Fits(p, s, "idle", c0, far, r, t),
           NEW c \in Calls(p), c.kind \in {"execute", "preflight"},
           NEW at, at = IF c.kind = "execute" THEN "audit_start" ELSE "acquire"
    PROVE  Fits(p, s, at, c, far, r, t)
<1>1. /\ far = "none" /\ TrailOK(t) /\ ReceiptOK(r) /\ r = NoReceipt
      /\ s # "holding" /\ s # "waiting"
  BY DEF Fits, DbStages
<1>2. \/ c.kind = "execute" /\ at = "audit_start"
      \/ c.kind # "execute" /\ at = "acquire"
  OBVIOUS
<1> QED BY <1>1, <1>2 DEF Fits, Reaches, PCs, DbStages

\* A call whose start is in the audit store.
LEMMA ToAcquire ==
    ASSUME NEW p \in Task, NEW s, NEW c, NEW far, NEW r, NEW t,
           Fits(p, s, "audit_start", c, far, r, t),
           NEW t2, TrailOK(t2), t2.start
    PROVE  Fits(p, s, "acquire", c, far, r, t2)
BY DEF Fits, PCs, DbStages

\* A call that joins the queue.
LEMMA ToWaiting ==
    ASSUME NEW p \in Task, NEW s, NEW c, NEW far, NEW r, NEW t, Fits(p, s, "acquire", c, far, r, t)
    PROVE  Fits(p, "waiting", "waiting", c, far, r, t)
BY DEF Fits, PCs, DbStages

\* A call whose transaction is open.
LEMMA ToPlan ==
    ASSUME NEW p \in Task, NEW s, NEW c, NEW far, NEW r, NEW t, Fits(p, s, "begin", c, far, r, t)
    PROVE  Fits(p, s, "plan", c, "plan", r, t)
BY DEF Fits, Reaches, PCs, DbStages

\* A call whose plan was accepted and that is to run.
LEMMA ToStream ==
    ASSUME NEW p \in Task, NEW s, NEW c, NEW far, NEW r, NEW t, Fits(p, s, "plan", c, far, r, t),
           c.kind = "execute"
    PROVE  Fits(p, s, "stream", c, "execute", r, t)
BY DEF Fits, Reaches, PCs, DbStages

\* A call that gets its slot: what is in the audit store covers what comes.
LEMMA ToBegin ==
    ASSUME NEW p \in Task, NEW s, NEW at \in {"acquire", "waiting"}, NEW c, NEW far, NEW r, NEW t,
           Fits(p, s, at, c, far, r, t), Verdicts[c] = "ok"
    PROVE  Fits(p, "holding", "begin", c, far, r, t)
BY DEF Fits, PCs, DbStages

\* A transaction that is over, with an honest receipt.
LEMMA ToRollback ==
    ASSUME NEW p \in Task, NEW s, NEW at \in DbStages, NEW c, NEW far, NEW r, NEW t,
           Fits(p, s, at, c, far, r, t), NEW r2, ReceiptOK(r2), Honest(r2, c, far)
    PROVE  Fits(p, s, "rollback", c, far, r2, t)
<1>1. at \notin {"idle", "audit_start", "acquire", "waiting", "audit_result", "done"}
  BY DEF DbStages
<1>2. /\ far \in Reaches /\ TrailOK(t) /\ c \in Calls(p)
      /\ s = "holding" /\ s # "waiting"
      /\ far = "execute" => c.kind = "execute"
      /\ Verdicts[c] = "ok"
      /\ c.kind = "execute" => t.start
  BY <1>1 DEF Fits
<1> QED BY <1>2 DEF Fits, PCs, DbStages

\* A call without a slot and with an honest receipt: execute records it.
LEMMA ToAnswer ==
    ASSUME NEW p \in Task, NEW s, NEW at \in {"acquire", "waiting", "rollback"},
           NEW c, NEW far, NEW r, NEW t, Fits(p, s, at, c, far, r, t),
           NEW s2, s2 \notin {"holding", "waiting"}, NEW at2 \in {"audit_result", "done"},
           IF c.kind = "execute" THEN at2 = "audit_result" ELSE at2 = "done",
           NEW r2, ReceiptOK(r2), Honest(r2, c, far)
    PROVE  Fits(p, s2, at2, c, far, r2, t)
<1>1. /\ far \in Reaches /\ TrailOK(t) /\ c \in Calls(p)
      /\ far = "execute" => c.kind = "execute"
      /\ far # "none" => Verdicts[c] = "ok"
      /\ c.kind = "execute" => t.start
  BY DEF Fits, DbStages
<1> QED BY <1>1 DEF Fits, PCs, DbStages

\* A call that ends without rows, or after its result was recorded.
LEMMA ToDone ==
    ASSUME NEW p \in Task, NEW s,
           NEW at \in {"audit_start", "audit_result", "waiting", "rollback"},
           NEW c, NEW far, NEW r, NEW t, Fits(p, s, at, c, far, r, t),
           NEW s2, s2 \notin {"holding", "waiting"}, NEW t2, TrailOK(t2),
           at = "audit_start" \/ t2.start = t.start,
           NEW r2, ReceiptOK(r2), Honest(r2, c, far),
           r2.code = "ok" => at = "audit_result" /\ t2.result = r2
    PROVE  Fits(p, s2, "done", c, far, r2, t2)
<1>1. /\ far \in Reaches /\ c \in Calls(p)
      /\ far = "execute" => c.kind = "execute"
      /\ far # "none" => Verdicts[c] = "ok"
      /\ c.kind = "execute" /\ at # "audit_start" => t.start
      /\ at = "audit_start" => far = "none"
  BY DEF Fits, DbStages
<1> QED BY <1>1 DEF Fits, PCs, DbStages

\* Entering a call, and the audit of its start.
LEMMA EntrySteps ==
    ASSUME GatewayIInv, NEW p \in Task, Call(p) \/ AuditStart(p)
    PROVE  GatewayIInv'
<1>1. CapacityInv'
  BY Shapes, NextCapacity DEF Call, AuditStart
<1>2. CASE Call(p)
  <2>1. PICK c \in Calls(p) :
          /\ pc[p] = "idle" /\ call' = [call EXCEPT ![p] = c]
          /\ pc' = [pc EXCEPT ![p] = IF c.kind = "execute" THEN "audit_start" ELSE "acquire"]
          /\ UNCHANGED <<vars, reached, receipt, trail>>
    BY ZenonT(30), <1>2 DEF Call, Goto
  <2> DEFINE at == IF c.kind = "execute" THEN "audit_start" ELSE "acquire"
  <2>2. Moves(p, stage[p], at, c, reached[p], receipt[p], trail[p])
    BY <2>1, Shapes DEF Moves, vars
  <2>3. c.kind \in {"execute", "preflight"}
    BY GatewayAssumption
  <2>4. Fits(p, stage[p], at, c, reached[p], receipt[p], trail[p])
    BY <2>1, <2>3, Here, ToEntry
  <2> HIDE DEF at
  <2> QED BY Zenon, <1>1, <2>2, <2>4, OneMoves
<1>3. CASE AuditStart(p)
  <2>1. PICK b \in BOOLEAN, at \in {"acquire", "done"},
             r \in {receipt[p], Rejected("AUDIT_UNAVAILABLE", "deny")} :
          /\ pc[p] = "audit_start" /\ pc' = [pc EXCEPT ![p] = at]
          /\ trail' = [trail EXCEPT ![p].start = b]
          /\ \/ b = TRUE /\ at = "acquire" /\ r = receipt[p] /\ receipt' = receipt
             \/ /\ at = "done" /\ r = Rejected("AUDIT_UNAVAILABLE", "deny")
                /\ receipt' = [receipt EXCEPT ![p] = r]
          /\ UNCHANGED <<vars, call, reached>>
    BY ZenonT(30), <1>3 DEF AuditStart, Goto, Answer
  <2>2. PICK t : t = [trail[p] EXCEPT !.start = b]
    BY Zenon
  <2>3. Moves(p, stage[p], at, call[p], reached[p], r, t)
    BY <2>1, <2>2, Shapes DEF Moves, vars
  <2>4. TrailOK(t) /\ t.start = b
    BY <2>2, Here, StartWritten
  <2>5. ReceiptOK(r) /\ (at = "done" => r.code = "AUDIT_UNAVAILABLE" /\ r.policy = "deny")
    BY <2>1, Here, Receipts
  <2>6. Fits(p, stage[p], at, call[p], reached[p], r, t)
    <3>1. Fits(p, stage[p], "audit_start", call[p], reached[p], receipt[p], trail[p])
      BY Zenon, <2>1, Here
    <3>2. CASE at = "acquire" /\ b = TRUE /\ r = receipt[p]
      BY Zenon, <2>4, <3>1, <3>2, ToAcquire
    <3>3. CASE at = "done" /\ r = Rejected("AUDIT_UNAVAILABLE", "deny")
      <4>1. Honest(r, call[p], reached[p]) /\ r.code # "ok"
        BY <2>5, <3>3, HonestRefusal
      <4>2. stage[p] \notin {"holding", "waiting"}
        BY Zenon, <3>1, Located
      <4>3. Fits(p, stage[p], "done", call[p], reached[p], r, t)
        BY <2>4, <2>5, <3>1, <4>1, <4>2, ToDone
      <4> QED BY <3>3, <4>3
    <3> QED BY Zenon, <2>1, <3>2, <3>3
  <2> QED BY Zenon, <1>1, <2>3, <2>6, OneMoves
<1> QED BY <1>2, <1>3

\* acquire("sql") up to the slot, the queue or the refusal, with the policy that
\* runs in the step that obtains the slot.
LEMMA AcquireSteps ==
    ASSUME GatewayIInv, NEW p \in Task,
           Admit(p) \/ AdmitRefused(p) \/ WaitForSlot(p) \/ TurnedAway(p)
    PROVE  GatewayIInv'
<1>1. pc[p] = "acquire" /\ stage[p] \notin {"waiting", "holding"}
  <2>1. pc[p] = "acquire"
    BY DEF Admit, AdmitRefused, WaitForSlot, TurnedAway
  <2> QED BY <2>1, Whereabouts
<1>2. CASE Admit(p)
  <2>1. CapacityInv'
    BY Zenon, <1>2, Shapes, PoolStep DEF Admit
  <2>2. Moves(p, "holding", "begin", call[p], reached[p], receipt[p], trail[p])
    BY <1>2, Shapes DEF Moves, Admit, Reserve, Goto
  <2>3. Verdicts[call[p]] = "ok"
    BY <1>2 DEF Admit, PolicyVerdict
  <2>4. Fits(p, "holding", "begin", call[p], reached[p], receipt[p], trail[p])
    BY Zenon, <1>1, <2>3, Here, ToBegin
  <2> QED BY Zenon, <2>1, <2>2, <2>4, OneMoves
<1>3. CASE AdmitRefused(p)
  <2>1. PICK r : r = Rejected(PolicyVerdict(p), "deny")
    BY Zenon
  <2>2. CapacityInv'
    BY ZenonT(30), <1>1, <1>3, Shapes, RelabelInv DEF AdmitRefused
  <2>3. Moves(p, "idle", After(p), call[p], reached[p], r, trail[p])
    BY <1>3, <2>1, Shapes DEF Moves, AdmitRefused, Goto, Answer
  <2>4. ReceiptOK(r) /\ r.code # "ok" /\ r.policy = "deny"
    BY <1>3, <2>1, Receipts DEF AdmitRefused
  <2>5. Fits(p, "idle", After(p), call[p], reached[p], r, trail[p])
    <3>0. reached[p] = "none"
      BY <1>1, Whereabouts
    <3>1. Honest(r, call[p], reached[p])
      BY <2>4, <3>0, HonestRefusal
    <3>2. /\ After(p) \in {"audit_result", "done"}
          /\ IF call[p].kind = "execute" THEN After(p) = "audit_result" ELSE After(p) = "done"
      BY DEF After
    <3> QED BY Zenon, <1>1, <2>4, <3>1, <3>2, Here, ToAnswer
  <2> QED BY Zenon, <2>2, <2>3, <2>5, OneMoves
<1>4. CASE WaitForSlot(p)
  <2>1. CapacityInv'
    BY Zenon, <1>4, Shapes, PoolStep DEF WaitForSlot
  <2>2. Moves(p, "waiting", "waiting", call[p], reached[p], receipt[p], trail[p])
    BY <1>4, Shapes DEF Moves, WaitForSlot, Enqueue, Goto
  <2>3. Fits(p, "waiting", "waiting", call[p], reached[p], receipt[p], trail[p])
    BY Zenon, <1>1, Here, ToWaiting
  <2> QED BY Zenon, <2>1, <2>2, <2>3, OneMoves
<1>5. CASE TurnedAway(p)
  <2>1. CapacityInv'
    BY Zenon, <1>5, Shapes, PoolStep DEF TurnedAway
  <2>2. Moves(p, "queue_full", After(p), call[p], reached[p], CapacityRejection, trail[p])
    BY <1>5, Shapes DEF Moves, TurnedAway, RejectFull, Goto, Answer
  <2>3. Fits(p, "queue_full", After(p), call[p], reached[p], CapacityRejection, trail[p])
    <3>1. Honest(CapacityRejection, call[p], reached[p])
      BY <1>1, Whereabouts, Receipts, HonestRefusal
    <3>2. /\ After(p) \in {"audit_result", "done"}
          /\ IF call[p].kind = "execute" THEN After(p) = "audit_result" ELSE After(p) = "done"
      BY DEF After
    <3>3. ReceiptOK(CapacityRejection)
      BY Receipts
    <3> QED BY Zenon, <1>1, <3>1, <3>2, <3>3, Here, ToAnswer
  <2> QED BY Zenon, <2>1, <2>2, <2>3, OneMoves
<1> QED BY <1>2, <1>3, <1>4, <1>5

\* The wait in the queue: interrupted, ended with a slot, or given up.
LEMMA WaitSteps ==
    ASSUME GatewayIInv, NEW p \in Task,
           InterruptWait(p) \/ Woken(p) \/ WokenRefused(p) \/ GiveUp(p)
    PROVE  GatewayIInv'
<1>1. pc[p] = "waiting" /\ stage[p] = "waiting"
  <2>1. pc[p] = "waiting"
    BY DEF InterruptWait, Woken, WokenRefused, GiveUp
  <2> QED BY <2>1, Whereabouts
<1>2. CASE InterruptWait(p)
  <2>1. CapacityInv'
    BY Zenon, <1>2, Shapes, PoolStep DEF InterruptWait
  <2>2. UNCHANGED <<stage, pc, call, reached, receipt, trail>>
    BY <1>2 DEF InterruptWait, Interrupt, gatewayVars
  <2> QED BY ZenonT(30), <2>1, <2>2 DEF GatewayIInv
<1>3. CASE Woken(p)
  <2>1. CapacityInv'
    BY Zenon, <1>3, Shapes, PoolStep DEF Woken
  <2>2. Moves(p, "holding", "begin", call[p], reached[p], receipt[p], trail[p])
    BY <1>3, Shapes DEF Moves, Woken, Resume, Goto
  <2>3. Verdicts[call[p]] = "ok"
    BY <1>3 DEF Woken, PolicyVerdict
  <2>4. Fits(p, "holding", "begin", call[p], reached[p], receipt[p], trail[p])
    BY Zenon, <1>1, <2>3, Here, ToBegin
  <2> QED BY Zenon, <2>1, <2>2, <2>4, OneMoves
<1>4. CASE WokenRefused(p)
  <2>1. PICK r : r = Rejected(PolicyVerdict(p), "deny")
    BY Zenon
  <2>2. CapacityInv'
    <3>1. /\ p \in Holders /\ ReleaseTo([future EXCEPT ![p] = "none"])
          /\ stage' = [stage EXCEPT ![p] = "idle"] /\ interrupt' = interrupt
          /\ interrupt[p] = "none"
      BY <1>4 DEF WokenRefused, Holders
    <3>2. stage \in [Task -> Stages] /\ interrupt \in [Task -> Interrupts]
      BY Shapes DEF CapacityInv, TypeOK
    <3>3. /\ stage' \in [Task -> Stages] /\ stage'[p] \notin {"holding", "waiting"}
          /\ interrupt' \in [Task -> Interrupts] /\ interrupt'[p] = "none"
          /\ \A q \in Task \ {p} : stage'[q] = stage[q]
          /\ \A q \in Task \ {p} : interrupt'[q] = interrupt[q]
      BY <3>1, <3>2 DEF Stages
    <3> QED BY <3>1, <3>3, Shapes, ReleaseToInv
  <2>3. Moves(p, "idle", After(p), call[p], reached[p], r, trail[p])
    BY <1>4, <2>1, Shapes DEF Moves, WokenRefused, Goto, Answer
  <2>4. ReceiptOK(r) /\ r.code # "ok" /\ r.policy = "deny"
    BY <1>4, <2>1, Receipts DEF WokenRefused
  <2>5. Fits(p, "idle", After(p), call[p], reached[p], r, trail[p])
    <3>0. reached[p] = "none"
      BY <1>1, Whereabouts
    <3>1. Honest(r, call[p], reached[p])
      BY <2>4, <3>0, HonestRefusal
    <3>2. /\ After(p) \in {"audit_result", "done"}
          /\ IF call[p].kind = "execute" THEN After(p) = "audit_result" ELSE After(p) = "done"
      BY DEF After
    <3> QED BY Zenon, <1>1, <2>4, <3>1, <3>2, Here, ToAnswer
  <2> QED BY Zenon, <2>2, <2>3, <2>5, OneMoves
<1>5. CASE GiveUp(p)
  <2>1. CapacityInv'
    BY Zenon, <1>5, Shapes, PoolStep DEF GiveUp
  <2>2. PICK s \in {"wait_timeout", "cancelled"}, at \in {After(p), "done"},
             r \in {CapacityRejection, Cancelled} :
          /\ stage' = [stage EXCEPT ![p] = s] /\ pc' = [pc EXCEPT ![p] = at]
          /\ receipt' = [receipt EXCEPT ![p] = r]
          /\ at = After(p) \/ r = Cancelled
          /\ UNCHANGED <<call, reached, trail>>
    BY ZenonT(30), <1>5 DEF GiveUp, Withdraw, Refused, Goto, Answer
  <2>3. Moves(p, s, at, call[p], reached[p], r, trail[p])
    BY <2>2, Shapes DEF Moves
  <2>4. Fits(p, s, at, call[p], reached[p], r, trail[p])
    <3>1. /\ Fits(p, stage[p], "waiting", call[p], reached[p], receipt[p], trail[p])
          /\ TrailOK(trail[p])
      BY Zenon, <1>1, Here
    <3>2. reached[p] = "none"
      BY Zenon, <3>1, Located
    <3>3. ReceiptOK(r) /\ r.code # "ok" /\ r.policy # "allow"
      BY <2>2, Receipts
    <3>4. Honest(r, call[p], reached[p]) /\ s \notin {"holding", "waiting"}
      BY <2>2, <3>2, <3>3, HonestRefusal
    <3>5. /\ After(p) \in {"audit_result", "done"}
          /\ IF call[p].kind = "execute" THEN After(p) = "audit_result" ELSE After(p) = "done"
      BY DEF After
    <3>6. CASE at = After(p)
      BY Zenon, <3>1, <3>3, <3>4, <3>5, <3>6, ToAnswer
    <3>7. CASE at = "done"
      <4>1. Fits(p, s, "done", call[p], reached[p], r, trail[p])
        BY <3>1, <3>3, <3>4, ToDone
      <4> QED BY <3>7, <4>1
    <3> QED BY <3>6, <3>7
  <2> QED BY Zenon, <2>1, <2>3, <2>4, OneMoves
<1> QED BY <1>2, <1>3, <1>4, <1>5

\* The read-only transaction: it begins, is planned, streams its rows, or fails.
LEMMA DatabaseSteps ==
    ASSUME GatewayIInv, NEW p \in Task,
           BeginReadOnly(p) \/ Plan(p) \/ Stream(p) \/ DatabaseFails(p)
    PROVE  GatewayIInv'
<1>1. CapacityInv'
  BY Zenon, Shapes, NextCapacity DEF BeginReadOnly, Plan, Stream, DatabaseFails
<1>2. CASE BeginReadOnly(p)
  <2>1. Moves(p, stage[p], "plan", call[p], "plan", receipt[p], trail[p])
    BY <1>2, Shapes DEF Moves, BeginReadOnly, Goto, vars
  <2>2. Fits(p, stage[p], "plan", call[p], "plan", receipt[p], trail[p])
    BY Zenon, <1>2, Here, ToPlan DEF BeginReadOnly
  <2> QED BY Zenon, <1>1, <2>1, <2>2, OneMoves
<1>3. CASE Plan(p)
  <2>1. PICK e \in Estimates :
          /\ pc[p] = "plan" /\ UNCHANGED <<vars, call, trail>>
          /\ \/ /\ call[p].kind = "execute"
                /\ reached' = [reached EXCEPT ![p] = "execute"]
                /\ pc' = [pc EXCEPT ![p] = "stream"]
                /\ UNCHANGED receipt
             \/ /\ PlanVerdict(e[1], e[2]) = "ok" /\ call[p].kind # "execute"
                /\ receipt' = [receipt EXCEPT ![p] = Accepted(0, 0)]
                /\ pc' = [pc EXCEPT ![p] = "rollback"]
                /\ UNCHANGED reached
             \/ /\ PlanVerdict(e[1], e[2]) # "ok"
                /\ receipt' = [receipt EXCEPT ![p] = Rejected(PlanVerdict(e[1], e[2]), "deny")]
                /\ pc' = [pc EXCEPT ![p] = "rollback"]
                /\ UNCHANGED reached
    BY <1>3 DEF Plan, Goto, Answer
  <2>2. /\ reached[p] = "plan" /\ Verdicts[call[p]] = "ok" /\ call[p] \in Calls(p)
        /\ call[p].kind \in {"execute", "preflight"} /\ MaxRows \in Nat /\ MaxResultBytes \in Nat
    <3>1. "plan" \in DbStages
      BY DEF DbStages
    <3>2. reached[p] = "plan" /\ Verdicts[call[p]] = "ok" /\ call[p] \in Calls(p)
      BY <2>1, <3>1, Whereabouts
    <3> QED BY <3>2, GatewayAssumption
  <2>3. CASE /\ call[p].kind = "execute"
             /\ reached' = [reached EXCEPT ![p] = "execute"]
             /\ pc' = [pc EXCEPT ![p] = "stream"]
             /\ UNCHANGED receipt
    <3>1. Moves(p, stage[p], "stream", call[p], "execute", receipt[p], trail[p])
      BY <2>1, <2>3, Shapes DEF Moves, vars
    <3>2. Fits(p, stage[p], "stream", call[p], "execute", receipt[p], trail[p])
      BY Zenon, <2>1, <2>3, Here, ToStream
    <3> QED BY Zenon, <1>1, <3>1, <3>2, OneMoves
  <2>4. CASE /\ PlanVerdict(e[1], e[2]) = "ok" /\ call[p].kind # "execute"
             /\ receipt' = [receipt EXCEPT ![p] = Accepted(0, 0)]
             /\ pc' = [pc EXCEPT ![p] = "rollback"]
             /\ UNCHANGED reached
    <3>1. Moves(p, stage[p], "rollback", call[p], reached[p], Accepted(0, 0), trail[p])
      BY <2>1, <2>4, Shapes DEF Moves, vars
    <3>2. call[p].query.limitKind = "literal" => call[p].query.limit \in Nat
      BY <2>2, AllowedLimit
    <3>3. Honest(Accepted(0, 0), call[p], reached[p]) /\ ReceiptOK(Accepted(0, 0))
      BY <2>2, <2>4, <3>2, Receipts DEF Honest
    <3>4. Fits(p, stage[p], "rollback", call[p], reached[p], Accepted(0, 0), trail[p])
      <4>1. pc[p] \in DbStages
        BY <2>1 DEF DbStages
      <4> QED BY Zenon, <3>3, <4>1, Here, ToRollback
    <3> QED BY ZenonT(30), <1>1, <3>1, <3>4, OneMoves
  <2>5. CASE /\ PlanVerdict(e[1], e[2]) # "ok"
             /\ receipt' = [receipt EXCEPT ![p] = Rejected(PlanVerdict(e[1], e[2]), "deny")]
             /\ pc' = [pc EXCEPT ![p] = "rollback"]
             /\ UNCHANGED reached
    <3>1. PICK r : r = Rejected(PlanVerdict(e[1], e[2]), "deny")
      BY Zenon
    <3>2. Moves(p, stage[p], "rollback", call[p], reached[p], r, trail[p])
      BY <2>1, <2>5, <3>1, Shapes DEF Moves, vars
    <3>3. PlanVerdict(e[1], e[2]) \in {"ok", "COST_EXCEEDED", "ROWS_EXCEEDED"}
      BY DEF PlanVerdict
    <3>4. ReceiptOK(r) /\ r.code \notin {"ok", "CAPACITY_EXCEEDED"} /\ r.policy = "deny"
      BY <2>5, <3>1, <3>3, Receipts
    <3>5. Fits(p, stage[p], "rollback", call[p], reached[p], r, trail[p])
      <4>1. pc[p] \in DbStages
        BY <2>1 DEF DbStages
      <4>2. Honest(r, call[p], reached[p])
        BY <3>4, HonestRefusal
      <4> QED BY Zenon, <3>4, <4>1, <4>2, Here, ToRollback
    <3> QED BY Zenon, <1>1, <3>2, <3>5, OneMoves
  <2> QED BY <2>1, <2>3, <2>4, <2>5
<1>4. CASE Stream(p)
  <2>1. PICK sizes \in Results :
          /\ Len(sizes) <= SafeLimit(call[p].query)
          /\ Answer(p, IF StreamVerdict(sizes) = "ok"
                       THEN Accepted(Len(sizes), EncodedSize(sizes, Len(sizes)))
                       ELSE Rejected(StreamVerdict(sizes), "deny"))
    BY <1>4 DEF Stream
  <2>r. PICK r :
          /\ pc[p] = "stream" /\ Len(sizes) <= SafeLimit(call[p].query)
          /\ r = IF StreamVerdict(sizes) = "ok"
                 THEN Accepted(Len(sizes), EncodedSize(sizes, Len(sizes)))
                 ELSE Rejected(StreamVerdict(sizes), "deny")
          /\ receipt' = [receipt EXCEPT ![p] = r]
          /\ pc' = [pc EXCEPT ![p] = "rollback"]
          /\ UNCHANGED <<vars, call, reached, trail>>
    BY <1>4, <2>1, Zenon DEF Stream, Goto, Answer
  <2>2. Moves(p, stage[p], "rollback", call[p], reached[p], r, trail[p])
    BY <2>r, Shapes DEF Moves, vars
  <2>3. /\ reached[p] = "execute" /\ Verdicts[call[p]] = "ok" /\ call[p] \in Calls(p)
        /\ call[p].kind = "execute" /\ call[p].query.limit \in Int
        /\ MaxRows \in Nat /\ MaxResultBytes \in Nat
    <3>1. "stream" \in DbStages
      BY DEF DbStages
    <3>2. /\ reached[p] = "execute" /\ Verdicts[call[p]] = "ok" /\ call[p] \in Calls(p)
          /\ call[p].kind = "execute"
      BY <2>r, <3>1, Whereabouts
    <3> QED BY <3>2, GatewayAssumption
  <2>4. Len(sizes) \in Nat /\ EncodedSize(sizes, Len(sizes)) \in Nat
    BY GatewayAssumption, LenProperties
  <2>5. ReceiptOK(r) /\ Honest(r, call[p], reached[p])
    <3>1. CASE StreamVerdict(sizes) = "ok"
      <4>1. r = Accepted(Len(sizes), EncodedSize(sizes, Len(sizes)))
        BY <2>r, <3>1
      <4>2. /\ ReceiptOK(r) /\ r.code = "ok" /\ r.policy = "allow"
            /\ r.rows = Len(sizes) /\ r.size = EncodedSize(sizes, Len(sizes))
        BY <2>4, <4>1, Receipts
      <4>3. r.size <= MaxResultBytes
        BY <3>1, <4>2, StreamFits
      <4>4. r.rows <= MaxRows /\ (call[p].query.limitKind = "literal" => r.rows <= call[p].query.limit)
        BY <2>r, <2>3, <2>4, <4>2 DEF SafeLimit
      <4> QED BY <2>3, <4>2, <4>3, <4>4 DEF Honest
    <3>2. CASE StreamVerdict(sizes) # "ok"
      <4>1. /\ ReceiptOK(r) /\ r.code \in {"ROWS_EXCEEDED", "RESULT_TOO_LARGE"}
            /\ r.policy = "deny"
        BY <2>r, <3>2, StreamFits, Receipts
      <4> QED BY <4>1 DEF Honest
    <3> QED BY <3>1, <3>2
  <2>6. Fits(p, stage[p], "rollback", call[p], reached[p], r, trail[p])
    <3>1. pc[p] \in DbStages
      BY <2>r DEF DbStages
    <3> QED BY Zenon, <2>5, <3>1, Here, ToRollback
  <2> QED BY Zenon, <1>1, <2>2, <2>6, OneMoves
<1>5. CASE DatabaseFails(p)
  <2>0. PICK f \in Failures : Answer(p, DatabaseRejection(f, Phase(p)))
    BY <1>5 DEF DatabaseFails
  <2>1. PICK r :
          /\ pc[p] \in {"begin", "plan", "stream"} /\ r = DatabaseRejection(f, Phase(p))
          /\ receipt' = [receipt EXCEPT ![p] = r]
          /\ pc' = [pc EXCEPT ![p] = "rollback"]
          /\ UNCHANGED <<vars, call, reached, trail>>
    BY <1>5, <2>0, Zenon DEF DatabaseFails, Goto, Answer
  <2>2. Moves(p, stage[p], "rollback", call[p], reached[p], r, trail[p])
    BY <2>1, Shapes DEF Moves, vars
  <2>3. ReceiptOK(r) /\ r.code \notin {"ok", "CAPACITY_EXCEEDED"}
    BY <2>1, FailureReceipt
  <2>4. Fits(p, stage[p], "rollback", call[p], reached[p], r, trail[p])
    <3>1. pc[p] \in DbStages
      BY <2>1 DEF DbStages
    <3>2. Honest(r, call[p], reached[p])
      BY <2>3, <3>1, Whereabouts, HonestRefusal
    <3> QED BY Zenon, <2>3, <3>1, <3>2, Here, ToRollback
  <2> QED BY Zenon, <1>1, <2>2, <2>4, OneMoves
<1> QED BY <1>2, <1>3, <1>4, <1>5

\* The finally clause: the transaction and the slot end in one step.
LEMMA RollbackStep ==
    ASSUME GatewayIInv, NEW p \in Task, Rollback(p)
    PROVE  GatewayIInv'
<1>1. CapacityInv'
  BY Zenon, Shapes, PoolStep DEF Rollback
<1>2. /\ pc[p] = "rollback" /\ stage' = [stage EXCEPT ![p] = "idle"]
      /\ UNCHANGED <<call, reached, trail>>
  BY DEF Rollback, Release
<1>3. CASE UNCHANGED receipt /\ Goto(p, IF receipt[p] = Cancelled THEN "done" ELSE After(p))
  <2> DEFINE at == IF receipt[p] = Cancelled THEN "done" ELSE After(p)
  <2>1. Moves(p, "idle", at, call[p], reached[p], receipt[p], trail[p])
    BY <1>2, <1>3, Shapes DEF Moves, Goto
  <2>2. Fits(p, "idle", at, call[p], reached[p], receipt[p], trail[p])
    <3>1. /\ Fits(p, stage[p], "rollback", call[p], reached[p], receipt[p], trail[p])
          /\ ReceiptOK(receipt[p]) /\ TrailOK(trail[p])
      BY Zenon, <1>2, Here
    <3>2. Honest(receipt[p], call[p], reached[p]) /\ "idle" \notin {"holding", "waiting"}
      BY <3>1, Located
    <3>3. /\ After(p) \in {"audit_result", "done"}
          /\ IF call[p].kind = "execute" THEN After(p) = "audit_result" ELSE After(p) = "done"
      BY DEF After
    <3>4. CASE receipt[p] = Cancelled
      <4>1. receipt[p].code # "ok"
        BY <3>4, Receipts
      <4>2. Fits(p, "idle", "done", call[p], reached[p], receipt[p], trail[p])
        BY <3>1, <3>2, <4>1, ToDone
      <4> QED BY Zenon, <3>4, <4>2
    <3>5. CASE receipt[p] # Cancelled
      <4>1. Fits(p, "idle", After(p), call[p], reached[p], receipt[p], trail[p])
        BY Zenon, <3>1, <3>2, <3>3, ToAnswer
      <4> QED BY Zenon, <3>5, <4>1
    <3> QED BY Zenon, <3>4, <3>5
  <2> HIDE DEF at
  <2> QED BY Zenon, <1>1, <2>1, <2>2, OneMoves
<1>4. ASSUME NEW f \in Failures, Answer(p, DatabaseRejection(f, Phase(p))), Goto(p, After(p))
      PROVE  GatewayIInv'
  <2>1. PICK r : r = DatabaseRejection(f, Phase(p))
    BY Zenon
  <2>2. Moves(p, "idle", After(p), call[p], reached[p], r, trail[p])
    BY <1>2, <1>4, <2>1, Shapes DEF Moves, Goto, Answer
  <2>3. ReceiptOK(r) /\ r.code \notin {"ok", "CAPACITY_EXCEEDED"}
    BY <2>1, FailureReceipt
  <2>4. Fits(p, "idle", After(p), call[p], reached[p], r, trail[p])
    <3>1. Fits(p, stage[p], "rollback", call[p], reached[p], receipt[p], trail[p])
      BY Zenon, <1>2, Here
    <3>2. "rollback" \in DbStages /\ "idle" \notin {"holding", "waiting"}
      BY DEF DbStages
    <3>3. Honest(r, call[p], reached[p])
      BY <2>3, <3>1, <3>2, Located, HonestRefusal
    <3>4. /\ After(p) \in {"audit_result", "done"}
          /\ IF call[p].kind = "execute" THEN After(p) = "audit_result" ELSE After(p) = "done"
      BY DEF After
    <3> QED BY Zenon, <2>3, <3>1, <3>2, <3>3, <3>4, ToAnswer
  <2> QED BY ZenonT(30), <1>1, <2>2, <2>4, OneMoves
<1> QED BY <1>3, <1>4 DEF Rollback

\* The audit of the result, a cancellation during an await, and the return.
LEMMA EndSteps ==
    ASSUME GatewayIInv, NEW p \in Task, AuditResult(p) \/ Cancel(p) \/ Return(p)
    PROVE  GatewayIInv'
<1>1. TrailOK(trail[p]) /\ ReceiptOK(receipt[p])
  BY Here
<1>t. PICK told : told = [trail[p] EXCEPT !.result = receipt[p]]
  BY Zenon
<1>u. TrailOK(told) /\ told.start = trail[p].start /\ told.result = receipt[p]
  BY <1>1, <1>t, ResultWritten
<1>2. CASE AuditResult(p)
  <2>1. CapacityInv'
    BY <1>2, Shapes, NextCapacity DEF AuditResult
  <2>2. PICK r \in {receipt[p], Rejected("AUDIT_UNAVAILABLE", receipt[p].policy)},
             t \in {told, trail[p]} :
          /\ t = told \/ r # receipt[p] \/ r = Rejected("AUDIT_UNAVAILABLE", receipt[p].policy)
          /\ Moves(p, stage[p], "done", call[p], reached[p], r, t)
    BY <1>2, <1>t, Shapes DEF AuditResult, Moves, Goto, Answer, vars
  <2>3. Honest(receipt[p], call[p], reached[p]) /\ pc[p] = "audit_result"
    BY <1>2, Whereabouts DEF AuditResult
  <2>4. CASE r = Rejected("AUDIT_UNAVAILABLE", receipt[p].policy)
    <3>1. receipt[p].policy \in {"none", "allow", "deny"}
      BY <1>1 DEF ReceiptOK
    <3>2. ReceiptOK(r) /\ r.code = "AUDIT_UNAVAILABLE" /\ r.policy = receipt[p].policy
      BY <2>4, <3>1, Receipts
    <3>3. Fits(p, stage[p], "done", call[p], reached[p], r, t)
      <4>1. /\ Fits(p, stage[p], "audit_result", call[p], reached[p], receipt[p], trail[p])
            /\ TrailOK(trail[p])
        BY Zenon, <2>3, Here
      <4>2. stage[p] \notin {"holding", "waiting"}
        BY <4>1, Located
      <4>3. Honest(r, call[p], reached[p])
        BY <2>3, <3>2 DEF Honest
      <4>4. TrailOK(t) /\ t.start = trail[p].start
        BY <1>u, <2>2, <4>1
      <4> QED BY Zenon, <3>2, <4>1, <4>2, <4>3, <4>4, ToDone
    <3> QED BY Zenon, <2>1, <2>2, <3>3, OneMoves
  <2>5. CASE r # Rejected("AUDIT_UNAVAILABLE", receipt[p].policy)
    <3>1. r = receipt[p] /\ t = told
      BY ZenonT(30), <2>2, <2>5
    <3>2. Fits(p, stage[p], "done", call[p], reached[p], r, t)
      <4>1. /\ Fits(p, stage[p], "audit_result", call[p], reached[p], receipt[p], trail[p])
            /\ TrailOK(trail[p])
        BY Zenon, <2>3, Here
      <4>2. stage[p] \notin {"holding", "waiting"}
        BY <4>1, Located
      <4>3. /\ TrailOK(t) /\ t.start = trail[p].start /\ t.result = r /\ ReceiptOK(r)
            /\ Honest(r, call[p], reached[p])
        BY <1>1, <1>u, <2>3, <3>1
      <4> QED BY Zenon, <4>1, <4>2, <4>3, ToDone
    <3> QED BY Zenon, <2>1, <2>2, <3>2, OneMoves
  <2> QED BY <2>4, <2>5
<1>3. CASE Cancel(p)
  <2>1. CapacityInv'
    BY <1>3, Shapes, NextCapacity DEF Cancel
  <2>2. receipt' = [receipt EXCEPT ![p] = Cancelled] /\ UNCHANGED <<vars, call, reached>>
    BY <1>3 DEF Cancel, Answer
  <2>c. ReceiptOK(Cancelled) /\ Cancelled.code # "ok" /\ Honest(Cancelled, call[p], reached[p])
    BY Receipts, HonestRefusal
  <2>3. ASSUME NEW b \in BOOLEAN, pc[p] = "audit_start", Goto(p, "done"),
               trail' = [trail EXCEPT ![p].start = b]
        PROVE  GatewayIInv'
    <3>1. PICK t : t = [trail[p] EXCEPT !.start = b]
      BY Zenon
    <3>2. TrailOK(t)
      BY <1>1, <3>1, StartWritten
    <3>3. Moves(p, stage[p], "done", call[p], reached[p], Cancelled, t)
      BY <2>2, <2>3, <3>1, Shapes DEF Moves, Goto, vars
    <3>4. Fits(p, stage[p], "done", call[p], reached[p], Cancelled, t)
      <4>1. Fits(p, stage[p], "audit_start", call[p], reached[p], receipt[p], trail[p])
        BY Zenon, <2>3, Here
      <4>2. stage[p] \notin {"holding", "waiting"}
        BY <4>1, Located
      <4> QED BY <2>c, <3>2, <4>1, <4>2, ToDone
    <3> QED BY Zenon, <2>1, <3>3, <3>4, OneMoves
  <2>4. ASSUME NEW t \in {told, trail[p]}, pc[p] = "audit_result",
               Moves(p, stage[p], "done", call[p], reached[p], Cancelled, t)
        PROVE  GatewayIInv'
    <3>1. Fits(p, stage[p], "done", call[p], reached[p], Cancelled, t)
      <4>1. /\ Fits(p, stage[p], "audit_result", call[p], reached[p], receipt[p], trail[p])
            /\ TrailOK(trail[p])
        BY Zenon, <2>4, Here
      <4>2. stage[p] \notin {"holding", "waiting"}
        BY <4>1, Located
      <4>3. TrailOK(t) /\ t.start = trail[p].start
        BY <1>u, <2>4, <4>1
      <4> QED BY Zenon, <2>c, <4>1, <4>2, <4>3, ToDone
    <3> QED BY Zenon, <2>1, <2>4, <3>1, OneMoves
  <2>5. ASSUME pc[p] \in DbStages, Goto(p, "rollback"), UNCHANGED trail
        PROVE  GatewayIInv'
    <3>1. Moves(p, stage[p], "rollback", call[p], reached[p], Cancelled, trail[p])
      BY <2>2, <2>5, Shapes DEF Moves, Goto, vars
    <3>2. Fits(p, stage[p], "rollback", call[p], reached[p], Cancelled, trail[p])
      BY Zenon, <2>5, <2>c, Here, ToRollback
    <3> QED BY ZenonT(30), <2>1, <3>1, <3>2, OneMoves
  <2>6. CASE /\ pc[p] = "audit_result" /\ Goto(p, "done")
             /\ \/ trail' = [trail EXCEPT ![p].result = receipt[p]]
                \/ UNCHANGED trail
    <3>1. \E t \in {told, trail[p]} :
             Moves(p, stage[p], "done", call[p], reached[p], Cancelled, t)
      BY <1>t, <2>2, <2>6, Shapes DEF Moves, Goto, vars
    <3> QED BY <2>4, <2>6, <3>1
  <2> QED BY <1>3, <2>3, <2>5, <2>6 DEF Cancel
<1>4. CASE Return(p)
  <2>0. pc[p] = "done"
    BY <1>4 DEF Return
  <2>1. stage[p] \notin {"waiting", "holding"}
    BY <2>0, Whereabouts
  <2>2. CapacityInv'
    BY ZenonT(30), <1>4, <2>1, Shapes, RelabelInv DEF Return
  <2>3. Moves(p, "idle", "idle", NoCall, "none", NoReceipt, NoTrail)
    BY <1>4, Shapes DEF Moves, Return, Goto, Answer
  <2> QED BY Zenon, <2>2, <2>3, Fresh, OneMoves
<1> QED BY <1>2, <1>3, <1>4

-----------------------------------------------------------------------------
(* The theorems.                                                           *)

\* The gateway as built satisfies the invariant.
LEMMA GatewayInitially == GatewayInit => GatewayIInv
<1> SUFFICES ASSUME GatewayInit PROVE GatewayIInv
  OBVIOUS
<1>1. CapacityInv
  BY InitCapacity DEF GatewayInit
<1>2. ASSUME NEW p \in Task
      PROVE  Fits(p, stage[p], pc[p], call[p], reached[p], receipt[p], trail[p])
  <2>1. /\ stage[p] = "idle" /\ pc[p] = "idle" /\ call[p] = NoCall /\ reached[p] = "none"
        /\ receipt[p] = NoReceipt /\ trail[p] = NoTrail
    BY DEF GatewayInit, Init
  <2> QED BY Zenon, <2>1, Fresh
<1>3. pc \in [Task -> PCs] /\ reached \in [Task -> Reaches]
  BY DEF GatewayInit, PCs, Reaches
<1> QED BY <1>1, <1>2, <1>3 DEF GatewayIInv, GatewayInit

\* Every step of a call, and everything its caller may do, preserves it.
LEMMA GatewayStep == GatewayIInv /\ [GatewayNext]_allVars => GatewayIInv'
<1> SUFFICES ASSUME GatewayIInv, [GatewayNext]_allVars PROVE GatewayIInv'
  OBVIOUS
<1>1. ASSUME NEW p \in Task, Call(p) \/ Proceed(p) \/ InterruptWait(p) \/ Cancel(p)
      PROVE  GatewayIInv'
  BY <1>1, EntrySteps, AcquireSteps, WaitSteps, DatabaseSteps, RollbackStep, EndSteps DEF Proceed
<1>2. CASE UNCHANGED allVars
  <2>1. CapacityInv'
    BY <1>2, Shapes, NextCapacity DEF allVars
  <2> QED BY ZenonT(30), <1>2, <2>1 DEF allVars, vars, gatewayVars, GatewayIInv
<1> QED BY <1>1, <1>2 DEF GatewayNext

\* The invariant covers transactions by slots.
LEMMA IInvImpliesInv == GatewayIInv => GatewayInv
<1> SUFFICES ASSUME GatewayIInv PROVE GatewayInv
  OBVIOUS
<1>1. \A p \in Task : Fits(p, stage[p], pc[p], call[p], reached[p], receipt[p], trail[p])
  BY DEF GatewayIInv
<1>2. \A p \in Task : call[p].kind \in {"none", "execute", "preflight"}
  BY <1>1, GatewayAssumption DEF Fits, NoCall
<1>3. \A p \in Task : /\ ReceiptOK(receipt[p]) /\ trail[p].start \in BOOLEAN
                      /\ ReceiptOK(trail[p].result)
                      /\ stage[p] = "holding" <=> pc[p] \in DbStages
  BY <1>1 DEF Fits, TrailOK
<1>4. Cardinality({p \in Task : pc[p] \in DbStages}) <= Limit
  <2> DEFINE open == {p \in Task : pc[p] \in DbStages}
  <2>1. open \in SUBSET Holders
    BY <1>3 DEF Holders
  <2>2. IsFiniteSet(Holders) /\ Cardinality(Holders) \in Nat /\ Cardinality(Holders) <= Limit
    BY HoldersFinite DEF GatewayIInv, CapacityInv, CapacityRespected
  <2>3. IsFiniteSet(open) /\ Cardinality(open) <= Cardinality(Holders)
    BY <2>1, <2>2, FS_Subset
  <2>4. Cardinality(open) \in Nat
    BY <2>3, FS_CardinalityType
  <2> HIDE DEF open
  <2>5. Cardinality(open) <= Limit
    BY <2>2, <2>3, <2>4, CapacityAssumption
  <2> QED BY <2>5 DEF open
<1> QED BY <1>2, <1>3, <1>4 DEF Reaches, GatewayIInv, GatewayInv, GatewayTypeOK, SlotsCoverDatabase

\* A database transaction is open exactly while its call owns a slot of the
\* pool, so at most Limit are, whatever is refused, fails or is cancelled.
THEOREM TransactionsHoldSlots == GatewaySpec => []GatewayInv
BY GatewayInitially, GatewayStep, IInvImpliesInv, PTL DEF GatewaySpec

\* What preflight and execute answer is what happened and what was audited.
THEOREM ReceiptsAreHonest == GatewaySpec => []ReceiptsHonest
<1>1. GatewayIInv => ReceiptsHonest
  <2> SUFFICES ASSUME GatewayIInv PROVE ReceiptsHonest
    OBVIOUS
  <2>1. \A p \in Task : Fits(p, stage[p], pc[p], call[p], reached[p], receipt[p], trail[p])
    BY DEF GatewayIInv
  <2>2. NothingRunsUnaudited /\ RowsAreAudited
    BY <2>1 DEF Fits, NothingRunsUnaudited, RowsAreAudited
  <2>3. \A p \in Task : pc[p] \in {"audit_result", "done"} =>
            /\ Honest(receipt[p], call[p], reached[p])
            /\ Verdicts[call[p]] # "ok" => reached[p] = "none"
    BY <2>1 DEF Fits
  <2> QED BY <2>2, <2>3 DEF ReceiptsHonest, Honest, PolicyVerdict
<1> QED BY <1>1, GatewayInitially, GatewayStep, PTL DEF GatewaySpec
=============================================================================

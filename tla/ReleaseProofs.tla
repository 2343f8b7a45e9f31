---------------------------- MODULE ReleaseProofs ----------------------------
(***************************************************************************)
(* Proofs about ReleaseStore, for every set of sessions, snapshots and     *)
(* candidates and every bound on the versions.                             *)
(***************************************************************************)
EXTENDS ReleaseStore, FiniteSetTheorems, TLAPS

-----------------------------------------------------------------------------
(* Lemmas about the operators.                                             *)

\* Switching the active release changes no field of a row but its state.
LEMMA SwitchedRows ==
    ASSUME NEW rs, NEW old, NEW new, new # old,
           \A v \in DOMAIN rs :
               rs[v] = [content |-> rs[v].content, state |-> rs[v].state,
                        previous |-> rs[v].previous, snapshot |-> rs[v].snapshot]
    PROVE  /\ DOMAIN Switched(rs, old, new) = DOMAIN rs
           /\ \A v \in DOMAIN rs :
                 Switched(rs, old, new)[v] =
                    [content |-> rs[v].content,
                     state |-> IF v = new THEN "active"
                               ELSE IF v = old THEN "retired" ELSE rs[v].state,
                     previous |-> rs[v].previous, snapshot |-> rs[v].snapshot]
<1>1. DOMAIN Switched(rs, old, new) = DOMAIN rs
  BY DEF Switched
<1>2. ASSUME NEW v \in DOMAIN rs
      PROVE Switched(rs, old, new)[v] =
                [content |-> rs[v].content,
                 state |-> IF v = new THEN "active"
                           ELSE IF v = old THEN "retired" ELSE rs[v].state,
                 previous |-> rs[v].previous, snapshot |-> rs[v].snapshot]
  <2>1. CASE v = new
    BY <2>1 DEF Switched
  <2>2. CASE v # new /\ v = old
    BY <2>2 DEF Switched
  <2>3. CASE v # new /\ v # old
    BY <2>3 DEF Switched
  <2> QED BY <2>1, <2>2, <2>3
<1> QED BY <1>1, <1>2

\* The constraints of the tables follow from the checks of the publisher.
LEMMA ValidIsStorable ==
    ASSUME NEW c \in Candidates, ValidCandidate(c)
    PROVE  TablesAccept(c)
<1>1. ChildRows(c)
  BY DEF ValidCandidate, ChildRows, ValidDocuments, ValidAssets, ValidAliases,
         ValidEdges, ValidIssues
<1>2. ReleaseRow(c)
  <2>1. c.schemaVersion = 3
    BY DEF ValidCandidate, ValidHeader
  <2>2. CASE c.profile = Nothing /\ c.dimension = Nothing
    BY <2>1, <2>2 DEF ReleaseRow
  <2>3. CASE ~(c.profile = Nothing /\ c.dimension = Nothing)
    <3>1. PICK d \in Dimensions(c) \ {0} : c.dimension = d /\ c.profile # Nothing
      BY <2>3 DEF ValidCandidate, ValidEmbedding
    <3>2. d \in Nat /\ d # Nothing
      BY <3>1, StoreAssumption
    <3>3. c.dimension > 0 /\ c.dimension # Nothing
      BY <3>1, <3>2
    <3> QED BY <2>1, <3>1, <3>3 DEF ReleaseRow
  <2> QED BY <2>2, <2>3
<1> QED BY <1>1, <1>2 DEF TablesAccept

-----------------------------------------------------------------------------
(* Steps that change the transaction of one session and no committed row.  *)

\* If session p goes on to a good state of its own, holding the pointer only if
\* it did or nobody else does, the invariant is preserved.
LEMMA QuietStep ==
    ASSUME StoreInv, NEW p \in Session, NEW t,
           UNCHANGED <<releases, pointer, seq, snapshots>>,
           tx' = [tx EXCEPT ![p] = t],
           SessionOK(p)',
           HoldsPointer(p)' => \A q \in Session : HoldsPointer(q) => q = p
    PROVE  StoreInv'
<1>1. StoreTypeOK'
  BY DEF StoreInv, StoreTypeOK
<1>2. PointerNamesActive' /\ SnapshotsStayValidated' /\ VersionsInOrder'
  BY DEF StoreInv, PointerNamesActive, SnapshotsStayValidated, VersionsInOrder, Reliable
<1>3. ASSUME NEW q \in Session, q # p
      PROVE  tx'[q] = tx[q]
  BY <1>3 DEF StoreInv, StoreTypeOK
<1>4. ASSUME NEW q \in Session
      PROVE  SessionOK(q)'
  <2>1. CASE q = p
    BY <2>1
  <2>2. CASE q # p
    <3>1. tx'[q] = tx[q] /\ SessionOK(q)
      BY <1>3, <2>2 DEF StoreInv
    <3> QED BY <3>1 DEF SessionOK, SessionTypeOK, Reliable, HoldsPointer, At
  <2> QED BY <2>1, <2>2
<1>5. ASSUME NEW q \in Session, q # p
      PROVE  HoldsPointer(q)' <=> HoldsPointer(q)
  BY <1>3, <1>5 DEF HoldsPointer
<1>6. OneHolder'
  BY <1>5 DEF StoreInv, OneHolder
<1> QED BY <1>1, <1>2, <1>4, <1>6 DEF StoreInv

\* A transaction that is over, committed or not, holds nothing.
LEMMA EndedStep ==
    ASSUME StoreInv, NEW p \in Session, NEW why, why # "tables",
           UNCHANGED <<releases, pointer, seq, snapshots>>,
           tx' = [tx EXCEPT ![p] = Idle] \/ Abort(p, why)
    PROVE  StoreInv'
<1>1. CASE tx' = [tx EXCEPT ![p] = Idle]
  <2>1. tx'[p] = Idle
    BY <1>1 DEF StoreInv, StoreTypeOK
  <2>2. SessionOK(p)' /\ ~HoldsPointer(p)'
    BY <2>1 DEF Idle, Transaction, SessionOK, SessionTypeOK, HoldsPointer, At, Stages
  <2> QED BY Zenon, <1>1, <2>2, QuietStep
<1>2. CASE Abort(p, why)
  <2> DEFINE t == Transaction(tx[p].kind, "aborted", Nothing, NoRelease, 0, why)
  <2>1. tx' = [tx EXCEPT ![p] = t] /\ tx'[p] = t
    BY <1>2 DEF Abort, StoreInv, StoreTypeOK
  <2>2. SessionOK(p)' /\ ~HoldsPointer(p)'
    BY <2>1 DEF Transaction, SessionOK, SessionTypeOK, HoldsPointer, At, Stages
  <2> HIDE DEF t
  <2> QED BY Zenon, <2>1, <2>2, QuietStep
<1> QED BY <1>1, <1>2

\* A transaction begins.
LEMMA BeginStep ==
    ASSUME StoreInv, NEW p \in Session, NEW kind, NEW arg, Enter(p, kind, arg),
           kind = "publish" => arg \in Candidates /\ ValidCandidate(arg),
           kind = "rollback" => arg \in Version,
           kind = "snapshot" => arg.snapshot \in Snapshot /\ arg.ok \in BOOLEAN
    PROVE  StoreInv'
<1> DEFINE t == Transaction(kind, "begun", arg, NoRelease, 0, "none")
<1>1. tx' = [tx EXCEPT ![p] = t] /\ tx'[p] = t
  BY DEF Enter, StoreInv, StoreTypeOK
<1>2. SessionOK(p)' /\ ~HoldsPointer(p)'
  BY <1>1 DEF Transaction, SessionOK, SessionTypeOK, HoldsPointer, At, Stages
<1>3. UNCHANGED <<releases, pointer, seq, snapshots>>
  BY DEF Enter
<1> HIDE DEF t
<1> QED BY Zenon, <1>1, <1>2, <1>3, QuietStep

\* A transaction goes on to the stage s with what it knows.
LEMMA StageStep ==
    ASSUME StoreInv, NEW p \in Session, NEW s \in Stages, Step(p, s)
    PROVE  /\ tx' = [tx EXCEPT ![p] = Transaction(tx[p].kind, s, tx[p].arg,
                                      tx[p].previous, tx[p].version, tx[p].why)]
           /\ tx'[p] = Transaction(tx[p].kind, s, tx[p].arg,
                                      tx[p].previous, tx[p].version, tx[p].why)
<1>1. p \in DOMAIN tx
  BY DEF StoreInv, StoreTypeOK
<1>2. tx[p] = Transaction(tx[p].kind, tx[p].stage, tx[p].arg,
                          tx[p].previous, tx[p].version, tx[p].why)
  BY DEF StoreInv, SessionOK, SessionTypeOK
<1>3. tx' = [tx EXCEPT ![p] = [tx[p] EXCEPT !.stage = s]]
  BY DEF Step
<1>4. [tx[p] EXCEPT !.stage = s] =
          Transaction(tx[p].kind, s, tx[p].arg, tx[p].previous, tx[p].version, tx[p].why)
  BY <1>2 DEF Transaction
<1> QED BY Zenon, <1>1, <1>3, <1>4

-----------------------------------------------------------------------------
(* Every action preserves the invariant.                                   *)

\* _validate_schema_snapshot_binding keeps the invariant: a bound candidate relies on a
\* validated snapshot, and anything else ends the transaction.
LEMMA BindSnapshotStep ==
    ASSUME StoreInv, NEW p \in Session, BindSnapshot(p)
    PROVE  StoreInv'
<1>1. At(p, "publish", "begun") /\ UNCHANGED <<releases, pointer, seq, snapshots>>
  BY DEF BindSnapshot
<1>2. CASE Step(p, "bound") /\ Reliable(tx[p].arg.snapshot)
  <2> DEFINE t == Transaction(tx[p].kind, "bound", tx[p].arg,
                              tx[p].previous, tx[p].version, tx[p].why)
  <2>1. tx' = [tx EXCEPT ![p] = t] /\ tx'[p] = t
    BY <1>2, StageStep DEF Stages
  <2>2. SessionOK(p)
    BY DEF StoreInv
  <2>3. SessionOK(p)' /\ ~HoldsPointer(p)'
    BY <1>1, <1>2, <2>1, <2>2
       DEF Transaction, SessionOK, SessionTypeOK, HoldsPointer, At, Stages, Reliable
  <2> HIDE DEF t
  <2> QED BY Zenon, <1>1, <2>1, <2>3, QuietStep
<1>3. CASE Abort(p, "snapshot")
  BY <1>1, <1>3, EndedStep
<1> QED BY <1>2, <1>3 DEF BindSnapshot, Reliable

\* _lock_active_pointer keeps the invariant: the lock is free, so its new holder is
\* the only one and what it reads is the pointer.
LEMMA LockPointerStep ==
    ASSUME StoreInv, NEW p \in Session, LockPointer(p)
    PROVE  StoreInv'
<1> DEFINE t == Transaction(tx[p].kind, "locked", tx[p].arg, pointer, 0, "none")
<1>1. tx' = [tx EXCEPT ![p] = t] /\ tx'[p] = t
  BY DEF LockPointer, StoreInv, StoreTypeOK
<1>2. SessionOK(p)
  BY DEF StoreInv
<1>3. SessionOK(p)'
  BY <1>1, <1>2
     DEF LockPointer, Transaction, SessionOK, SessionTypeOK, HoldsPointer, At, Stages, Reliable
<1>4. UNCHANGED <<releases, pointer, seq, snapshots>>
  BY DEF LockPointer
<1>5. \A q \in Session : ~HoldsPointer(q)
  BY DEF LockPointer
<1> HIDE DEF t
<1> QED BY Zenon, <1>1, <1>3, <1>4, <1>5, QuietStep

\* rollback's read of its target keeps the invariant: a retired release is not the
\* one the pointer names.
LEMMA ReadTargetStep ==
    ASSUME StoreInv, NEW p \in Session, ReadTarget(p)
    PROVE  StoreInv'
<1>1. At(p, "rollback", "locked") /\ UNCHANGED <<releases, pointer, seq, snapshots>>
  BY DEF ReadTarget
<1>2. CASE /\ Step(p, "written")
           /\ tx[p].arg \in DOMAIN releases
           /\ releases[tx[p].arg].state \in {"retired", "validated"}
  <2> DEFINE t == Transaction(tx[p].kind, "written", tx[p].arg,
                              tx[p].previous, tx[p].version, tx[p].why)
  <2>1. tx' = [tx EXCEPT ![p] = t] /\ tx'[p] = t
    BY <1>2, StageStep DEF Stages
  <2>2. SessionOK(p) /\ HoldsPointer(p)
    BY <1>1 DEF StoreInv, HoldsPointer, At
  <2>3. tx[p].arg # pointer
    BY <1>2 DEF StoreInv, PointerNamesActive
  <2>4. SessionOK(p)'
    BY <1>1, <1>2, <2>1, <2>2, <2>3
       DEF Transaction, SessionOK, SessionTypeOK, HoldsPointer, At, Stages, Reliable
  <2>5. \A q \in Session : HoldsPointer(q) => q = p
    BY <2>2 DEF StoreInv, OneHolder
  <2> HIDE DEF t
  <2> QED BY Zenon, <1>1, <2>1, <2>4, <2>5, QuietStep
<1>3. CASE Abort(p, "target")
  BY <1>1, <1>3, EndedStep
<1> QED BY <1>2, <1>3 DEF ReadTarget

\* ControlSchemaSnapshotStore.publish taking its row keeps the invariant: nothing
\* committed changes.
LEMMA LockSnapshotStep ==
    ASSUME StoreInv, NEW p \in Session, LockSnapshot(p)
    PROVE  StoreInv'
<1>1. /\ At(p, "snapshot", "begun")
      /\ UNCHANGED <<releases, pointer, seq, snapshots>>
      /\ Step(p, "locked")
  BY DEF LockSnapshot
<1> DEFINE t == Transaction(tx[p].kind, "locked", tx[p].arg,
                            tx[p].previous, tx[p].version, tx[p].why)
<1>2. tx' = [tx EXCEPT ![p] = t] /\ tx'[p] = t
  BY <1>1, StageStep DEF Stages
<1>3. SessionOK(p)
  BY DEF StoreInv
<1>4. SessionOK(p)' /\ ~HoldsPointer(p)'
  BY <1>1, <1>2, <1>3
     DEF Transaction, SessionOK, SessionTypeOK, HoldsPointer, At, Stages, Reliable
<1> HIDE DEF t
<1> QED BY Zenon, <1>1, <1>2, <1>4, QuietStep

\* When p holds the pointer no other session does: what the sequence, the rows
\* and the pointer become matters to no transaction but p's.
LEMMA OthersUndisturbed ==
    ASSUME StoreInv, NEW p \in Session, HoldsPointer(p), NEW t,
           tx' = [tx EXCEPT ![p] = t], UNCHANGED snapshots,
           NEW q \in Session, q # p
    PROVE  SessionOK(q)' /\ ~HoldsPointer(q)'
<1>1. tx'[q] = tx[q] /\ SessionOK(q)
  BY DEF StoreInv, StoreTypeOK
<1>2. ~HoldsPointer(q)
  BY DEF StoreInv, OneHolder
<1> QED BY <1>1, <1>2 DEF SessionOK, SessionTypeOK, Reliable, HoldsPointer, At

\* nextval and the INSERTs keep the invariant: the number is above every committed
\* version, the UNIQUE checksum is new, and no other constraint can fail.
LEMMA WriteReleaseStep ==
    ASSUME StoreInv, NEW p \in Session, WriteRelease(p)
    PROVE  StoreInv'
<1>1. At(p, "publish", "locked") /\ UNCHANGED <<releases, pointer, snapshots>>
  BY DEF WriteRelease
<1>2. SessionOK(p) /\ HoldsPointer(p)
  BY <1>1 DEF StoreInv, HoldsPointer, At
<1>3. CASE seq = MaxVersion
  BY <1>1, <1>3, EndedStep DEF WriteRelease
<1>4. CASE seq # MaxVersion
  <2> DEFINE c == tx[p].arg
             w == Transaction("publish", "written", c, tx[p].previous, seq + 1, "none")
             a(why) == Transaction(tx[p].kind, "aborted", Nothing, NoRelease, 0, why)
  <2>1. TablesAccept(c)
    BY <1>1, <1>2, ValidIsStorable DEF SessionOK, SessionTypeOK, At
  <2>2. seq' = seq + 1 /\ seq' \in Version /\ seq \in Nat
    BY <1>4, StoreAssumption DEF WriteRelease, StoreInv, StoreTypeOK, Version
  <2>3. \/ tx' = [tx EXCEPT ![p] = a("checksum")]
        \/ tx' = [tx EXCEPT ![p] = a("edge_id")]
        \/ /\ tx' = [tx EXCEPT ![p] = w]
           /\ \A v \in DOMAIN releases : releases[v].content # c.checksum
    BY <1>4, <2>1 DEF WriteRelease, Abort
  <2>4. PICK t : /\ tx' = [tx EXCEPT ![p] = t]
                 /\ \/ t = a("checksum")
                    \/ t = a("edge_id")
                    \/ /\ t = w
                       /\ \A v \in DOMAIN releases : releases[v].content # c.checksum
    BY <2>3
  <2>5. tx'[p] = t
    BY <2>4 DEF StoreInv, StoreTypeOK
  <2>6. seq + 1 \notin DOMAIN releases
    BY <2>2 DEF StoreInv, VersionsInOrder, StoreTypeOK, Version
  <2>7. SessionOK(p)'
    <3>1. CASE t = a("checksum") \/ t = a("edge_id")
      BY <3>1, <2>5 DEF Transaction, SessionOK, SessionTypeOK, HoldsPointer, At, Stages
    <3>2. CASE t = w /\ \A v \in DOMAIN releases : releases[v].content # c.checksum
      <4>1. SessionTypeOK(p)'
        BY SMTT(30), <1>1, <1>2, <2>5, <3>2 DEF Transaction, SessionOK, SessionTypeOK, At, Stages
      <4>2. tx'[p].arg = c /\ tx'[p].previous = pointer' /\ tx'[p].version = seq'
        BY <1>1, <1>2, <2>2, <2>5, <3>2 DEF Transaction, SessionOK
      <4>3. tx'[p].kind = "publish" /\ tx'[p].stage = "written" /\ tx'[p].why = "none"
        BY <2>5, <3>2 DEF Transaction
      <4>4. Reliable(tx[p].arg.snapshot)'
        BY <1>1, <1>2, <4>2 DEF SessionOK, At, Reliable
      <4>5. \A v \in DOMAIN releases' : releases'[v].content # tx'[p].arg.checksum
        BY <1>1, <3>2, <4>2
      <4>6. tx'[p].version \in Version \ DOMAIN releases'
        BY <1>1, <2>2, <2>6, <4>2
      <4> QED BY SMTT(30), <4>1, <4>2, <4>3, <4>4, <4>5, <4>6 DEF SessionOK, HoldsPointer, At
    <3> QED BY <2>4, <3>1, <3>2
  <2>8. ASSUME NEW q \in Session PROVE SessionOK(q)' /\ (HoldsPointer(q)' => q = p)
    BY Zenon, <1>1, <1>2, <2>4, <2>7, OthersUndisturbed
  <2>9. OneHolder'
    BY <2>8 DEF OneHolder
  <2>10. StoreTypeOK'
    <3>1. DOMAIN tx' = Session
      BY <2>4 DEF StoreInv, StoreTypeOK
    <3>2. seq' \in 0 .. MaxVersion
      BY <2>2, StoreAssumption DEF Version
    <3> QED BY <1>1, <3>1, <3>2 DEF StoreInv, StoreTypeOK
  <2>11. PointerNamesActive' /\ SnapshotsStayValidated'
    BY <1>1 DEF StoreInv, PointerNamesActive, SnapshotsStayValidated, Reliable
  <2>12. VersionsInOrder'
    <3>1. ASSUME NEW v \in DOMAIN releases PROVE v <= seq'
      BY <2>2 DEF StoreInv, VersionsInOrder, StoreTypeOK, Version
    <3> QED BY SMTT(30), <1>1, <3>1 DEF StoreInv, VersionsInOrder
  <2> QED BY <2>8, <2>9, <2>10, <2>11, <2>12 DEF StoreInv
<1> QED BY <1>3, <1>4

\* ControlSchemaSnapshotStore.publish's commit keeps the invariant: a snapshot that
\* is validated stays so, whatever the report says.
LEMMA CommitSnapshotStep ==
    ASSUME StoreInv, NEW p \in Session, CommitSnapshot(p)
    PROVE  StoreInv'
<1> DEFINE s == tx[p].arg.snapshot
<1>1. At(p, "snapshot", "locked") /\ UNCHANGED <<releases, pointer, seq>>
  BY DEF CommitSnapshot
<1>2. CASE Abort(p, "demotion") /\ UNCHANGED snapshots
  BY <1>1, <1>2, EndedStep
<1>3. CASE /\ ~(snapshots[s] = "validated" /\ ~tx[p].arg.ok)
           /\ snapshots' = [snapshots EXCEPT ![s] =
                               IF tx[p].arg.ok THEN "validated" ELSE "rejected"]
           /\ tx' = [tx EXCEPT ![p] = Idle]
  <2>1. snapshots \in [Snapshot -> {"none", "rejected", "validated"}]
    BY DEF StoreInv, StoreTypeOK
  <2>2. snapshots' \in [Snapshot -> {"none", "rejected", "validated"}]
    BY Zenon, <1>3, <2>1
  <2>3. ASSUME NEW x, Reliable(x) PROVE Reliable(x)'
    BY <1>3, <2>1, <2>3 DEF Reliable
  <2>4. tx'[p] = Idle /\ \A q \in Session : q # p => tx'[q] = tx[q]
    BY <1>3 DEF StoreInv, StoreTypeOK
  <2>5. SessionOK(p)' /\ ~HoldsPointer(p)'
    BY <2>4 DEF Idle, Transaction, SessionOK, SessionTypeOK, HoldsPointer, At, Stages
  <2>6. ASSUME NEW q \in Session, q # p
        PROVE  SessionOK(q)' /\ (HoldsPointer(q)' <=> HoldsPointer(q))
    <3>1. SessionOK(q) /\ tx'[q] = tx[q]
      BY <2>4, <2>6 DEF StoreInv
    <3>2. SessionTypeOK(q)' /\ (HoldsPointer(q)' <=> HoldsPointer(q))
      BY <3>1 DEF SessionOK, SessionTypeOK, HoldsPointer
    <3>3. tx[q].kind = "publish" /\ tx[q].stage \in {"bound", "locked", "written"}
            => Reliable(tx[q].arg.snapshot)'
      BY <2>3, <3>1 DEF SessionOK
    <3>4. Reliable(tx[q].arg.snapshot)' <=> Reliable(tx[q].arg.snapshot)'
      OBVIOUS
    <3>5. tx'[q].kind = "publish" /\ tx'[q].stage \in {"bound", "locked", "written"}
            => Reliable(tx[q].arg.snapshot)'
      BY <3>1, <3>3
    <3> QED BY <1>1, <3>1, <3>2, <3>5 DEF SessionOK, HoldsPointer, At, Reliable
  <2>7. OneHolder'
    BY <2>5, <2>6 DEF StoreInv, OneHolder
  <2>8. StoreTypeOK'
    BY <1>1, <1>3, <2>2 DEF StoreInv, StoreTypeOK
  <2>9. PointerNamesActive' /\ VersionsInOrder'
    BY <1>1 DEF StoreInv, PointerNamesActive, VersionsInOrder
  <2>10. SnapshotsStayValidated'
    BY <1>1, <2>3 DEF StoreInv, SnapshotsStayValidated
  <2> QED BY <2>5, <2>6, <2>7, <2>8, <2>9, <2>10 DEF StoreInv
<1> QED BY <1>2, <1>3 DEF CommitSnapshot

\* A step in which the holder p of the pointer commits the rows rs with the
\* release new active: what StoreInv says of rs is all there is to show.
LEMMA CommitStep ==
    ASSUME StoreInv, NEW p \in Session, HoldsPointer(p), NEW new \in Version,
           new \in DOMAIN releases', pointer' = new, UNCHANGED <<seq, snapshots>>,
           tx' = [tx EXCEPT ![p] = Idle], DOMAIN releases' \subseteq Version,
           \A v \in DOMAIN releases' :
               /\ releases'[v] = [content |-> releases'[v].content,
                                  state |-> releases'[v].state,
                                  previous |-> releases'[v].previous,
                                  snapshot |-> releases'[v].snapshot]
               /\ releases'[v].content \in Contents
               /\ releases'[v].state = IF v = new THEN "active" ELSE "retired"
               /\ Reliable(releases'[v].snapshot),
           VersionsInOrder'
    PROVE  StoreInv'
<1>1. tx'[p] = Idle /\ DOMAIN tx' = Session
  BY DEF StoreInv, StoreTypeOK
<1>2. SessionOK(p)' /\ ~HoldsPointer(p)'
  BY <1>1 DEF Idle, Transaction, SessionOK, SessionTypeOK, HoldsPointer, At, Stages
<1>3. \A q \in Session : SessionOK(q)' /\ ~HoldsPointer(q)'
  BY Zenon, <1>2, OthersUndisturbed
<1>4. OneHolder'
  BY <1>3 DEF OneHolder
<1>5. StoreTypeOK'
  BY <1>1 DEF StoreInv, StoreTypeOK, RowStates
<1>6. PointerNamesActive'
  BY DEF PointerNamesActive
<1>7. SnapshotsStayValidated'
  BY DEF SnapshotsStayValidated, Reliable
<1> QED BY <1>3, <1>4, <1>5, <1>6, <1>7 DEF StoreInv

\* rollback's commit keeps the invariant: the target becomes the one active release.
LEMMA CommitRollbackStep ==
    ASSUME StoreInv, NEW p \in Session, CommitRollback(p)
    PROVE  StoreInv'
<1> DEFINE new == tx[p].arg
           old == tx[p].previous
<1>1. At(p, "rollback", "written") /\ HoldsPointer(p) /\ SessionOK(p)
  BY DEF CommitRollback, StoreInv, HoldsPointer, At
<1>2. new \in DOMAIN releases /\ new # pointer /\ old = pointer /\ new \in Version
  BY <1>1 DEF SessionOK, StoreInv, StoreTypeOK
<1>3. releases' = Switched(releases, old, new)
  BY DEF CommitRollback
<1>4. /\ DOMAIN releases' = DOMAIN releases
      /\ \A v \in DOMAIN releases :
            releases'[v] = [content |-> releases[v].content,
                            state |-> IF v = new THEN "active"
                                      ELSE IF v = old THEN "retired" ELSE releases[v].state,
                            previous |-> releases[v].previous,
                            snapshot |-> releases[v].snapshot]
  <2>1. \A v \in DOMAIN releases :
            releases[v] = [content |-> releases[v].content, state |-> releases[v].state,
                           previous |-> releases[v].previous,
                           snapshot |-> releases[v].snapshot]
    BY DEF StoreInv, StoreTypeOK
  <2>2. new # old
    BY <1>2
  <2> HIDE DEF new, old
  <2> QED BY <1>3, <2>1, <2>2, SwitchedRows
<1>5. \A v \in DOMAIN releases : v # pointer => releases[v].state = "retired"
  BY DEF StoreInv, StoreTypeOK, PointerNamesActive, RowStates
<1>6. ASSUME NEW v \in DOMAIN releases'
      PROVE  /\ releases'[v].content = releases[v].content
             /\ releases'[v].previous = releases[v].previous
             /\ releases'[v].snapshot = releases[v].snapshot
             /\ releases'[v].state = IF v = new THEN "active" ELSE "retired"
  BY SMTT(30), <1>2, <1>4, <1>5
<1>7. VersionsInOrder'
  BY <1>4, <1>6 DEF CommitRollback, StoreInv, VersionsInOrder
<1>8. ASSUME NEW v \in DOMAIN releases'
      PROVE  /\ releases'[v] = [content |-> releases'[v].content,
                                state |-> releases'[v].state,
                                previous |-> releases'[v].previous,
                                snapshot |-> releases'[v].snapshot]
             /\ releases'[v].content \in Contents
             /\ Reliable(releases'[v].snapshot)
  BY SMTT(30), <1>4, <1>6 DEF StoreInv, StoreTypeOK, SnapshotsStayValidated
<1>9. /\ pointer' = new /\ UNCHANGED <<seq, snapshots>>
      /\ tx' = [tx EXCEPT ![p] = Idle]
      /\ DOMAIN releases' \subseteq Version
  BY SMTT(30), <1>4 DEF CommitRollback, StoreInv, StoreTypeOK
<1> HIDE DEF new, old
<1> QED BY ZenonT(30), <1>1, <1>2, <1>4, <1>6, <1>7, <1>8, <1>9, CommitStep

\* publish_candidate's commit keeps the invariant: the new release becomes the one
\* active release, newer than its predecessor and with a content of its own.
LEMMA CommitPublishStep ==
    ASSUME StoreInv, NEW p \in Session, CommitPublish(p)
    PROVE  StoreInv'
<1> DEFINE c == tx[p].arg
           new == tx[p].version
           old == tx[p].previous
           rs == Inserted(releases, new, Row(c, old))
<1>1. At(p, "publish", "written") /\ HoldsPointer(p) /\ SessionOK(p)
  BY DEF CommitPublish, StoreInv, HoldsPointer, At
<1>2. /\ new \in Version /\ new \notin DOMAIN releases /\ new = seq /\ old = pointer
      /\ \A v \in DOMAIN releases : releases[v].content # c.checksum
  BY <1>1 DEF SessionOK
<1>3. c \in Candidates /\ Reliable(c.snapshot)
  BY <1>1 DEF SessionOK, SessionTypeOK, At
<1>4. old # new /\ old \in DOMAIN releases \cup {NoRelease}
  BY <1>2 DEF StoreInv, StoreTypeOK, PointerNamesActive, NoRelease, Version
<1>5. releases' = Switched(rs, old, new)
  BY DEF CommitPublish
<1>6. /\ DOMAIN rs = DOMAIN releases \cup {new}
      /\ rs[new] = Row(c, old)
      /\ \A v \in DOMAIN releases : rs[v] = releases[v]
  BY <1>2 DEF Inserted
<1>7. /\ Row(c, old).content = c.checksum /\ Row(c, old).previous = old
      /\ Row(c, old).snapshot = c.snapshot
  BY DEF Row
<1>8. \A v \in DOMAIN rs :
          rs[v] = [content |-> rs[v].content, state |-> rs[v].state,
                   previous |-> rs[v].previous, snapshot |-> rs[v].snapshot]
  <2>1. rs[new] = [content |-> rs[new].content, state |-> rs[new].state,
                   previous |-> rs[new].previous, snapshot |-> rs[new].snapshot]
    BY <1>6 DEF Row
  <2> HIDE DEF rs, new
  <2> QED BY SMTT(30), <1>6, <2>1 DEF StoreInv, StoreTypeOK
<1>9. /\ DOMAIN releases' = DOMAIN rs
      /\ \A v \in DOMAIN rs :
            releases'[v] = [content |-> rs[v].content,
                            state |-> IF v = new THEN "active"
                                      ELSE IF v = old THEN "retired" ELSE rs[v].state,
                            previous |-> rs[v].previous, snapshot |-> rs[v].snapshot]
  <2> HIDE DEF rs, new, old
  <2> QED BY <1>4, <1>5, <1>8, SwitchedRows
<1>10. \A v \in DOMAIN releases : v # old => releases[v].state = "retired"
  BY <1>2 DEF StoreInv, StoreTypeOK, PointerNamesActive, RowStates
<1>11. /\ pointer' = new /\ UNCHANGED <<seq, snapshots>>
       /\ tx' = [tx EXCEPT ![p] = Idle]
  BY SMTT(30) DEF CommitPublish
<1>12. /\ DOMAIN releases' = DOMAIN releases \cup {new}
       /\ DOMAIN releases' \subseteq Version
  BY SMTT(30), <1>2, <1>6, <1>9 DEF StoreInv, StoreTypeOK
<1>13. ASSUME NEW v \in DOMAIN releases, v # new
       PROVE  /\ releases'[v].content = releases[v].content
              /\ releases'[v].previous = releases[v].previous
              /\ releases'[v].snapshot = releases[v].snapshot
              /\ releases'[v].state = "retired"
  <2>1. v \in DOMAIN rs /\ rs[v] = releases[v]
    BY SMTT(30), <1>6
  <2>2. releases'[v] = [content |-> rs[v].content,
                        state |-> IF v = new THEN "active"
                                  ELSE IF v = old THEN "retired" ELSE rs[v].state,
                        previous |-> rs[v].previous, snapshot |-> rs[v].snapshot]
    BY <1>9, <2>1
  <2> HIDE DEF rs, new, old
  <2> QED BY <1>10, <1>13, <2>1, <2>2
<1>14. /\ releases'[new].content = c.checksum
       /\ releases'[new].previous = old
       /\ releases'[new].snapshot = c.snapshot
       /\ releases'[new].state = "active"
  <2>1. new \in DOMAIN rs
    BY SMTT(30), <1>6
  <2>2. releases'[new] = [content |-> rs[new].content,
                          state |-> IF new = new THEN "active"
                                    ELSE IF new = old THEN "retired" ELSE rs[new].state,
                          previous |-> rs[new].previous, snapshot |-> rs[new].snapshot]
    BY SMTT(30), <1>9, <2>1
  <2>3. /\ rs[new].content = c.checksum /\ rs[new].previous = old
        /\ rs[new].snapshot = c.snapshot
    BY <1>6, <1>7
  <2> HIDE DEF rs, new, old, c
  <2> QED BY <2>2, <2>3
<1>15. c.checksum \in Contents
  BY <1>3 DEF Contents
<1>16. ASSUME NEW v \in DOMAIN releases'
       PROVE  /\ releases'[v] = [content |-> releases'[v].content,
                                 state |-> releases'[v].state,
                                 previous |-> releases'[v].previous,
                                 snapshot |-> releases'[v].snapshot]
              /\ releases'[v].content \in Contents
              /\ releases'[v].state = IF v = new THEN "active" ELSE "retired"
              /\ Reliable(releases'[v].snapshot)
  <2>1. releases'[v] = [content |-> releases'[v].content, state |-> releases'[v].state,
                        previous |-> releases'[v].previous,
                        snapshot |-> releases'[v].snapshot]
    BY <1>9
  <2>2. CASE v = new
    BY SMTT(30), <2>1, <2>2, <1>3, <1>14, <1>15
  <2>3. CASE v # new
    <3>1. v \in DOMAIN releases
      BY <2>3, <1>12
    <3> HIDE DEF rs, new, old, c
    <3> QED BY <2>1, <2>3, <3>1, <1>13 DEF StoreInv, StoreTypeOK, SnapshotsStayValidated
  <2> QED BY SMTT(30), <2>2, <2>3
<1>17. VersionsInOrder'
  <2>1. ASSUME NEW v \in DOMAIN releases'
        PROVE  /\ v <= seq'
               /\ releases'[v].previous \in DOMAIN releases' \cup {NoRelease}
               /\ releases'[v].previous < v
    <3>1. CASE v = new
      <4>1. old < new
        BY <1>2, <1>4 DEF StoreInv, StoreTypeOK, VersionsInOrder, NoRelease, Version
      <4>2. new <= seq'
        BY <1>2, <1>11 DEF Version
      <4> QED BY SMTT(30), <3>1, <4>1, <4>2, <1>4, <1>12, <1>14
    <3>2. CASE v # new
      <4>1. v \in DOMAIN releases
        BY <3>2, <1>12
      <4> HIDE DEF rs, new, old, c
      <4> QED BY SMTT(30), <3>2, <4>1, <1>11, <1>12, <1>13 DEF StoreInv, VersionsInOrder
    <3> QED BY <3>1, <3>2
  <2>2. ASSUME NEW v \in DOMAIN releases', NEW w \in DOMAIN releases',
               releases'[v].content = releases'[w].content
        PROVE  v = w
    <3> HIDE DEF rs, new, old, c
    <3> QED BY <2>2, <1>2, <1>12, <1>13, <1>14 DEF StoreInv, VersionsInOrder
  <2> QED BY <2>1, <2>2 DEF VersionsInOrder
<1> HIDE DEF rs, new, old, c
<1> QED BY ZenonT(30), <1>1, <1>2, <1>11, <1>12, <1>16, <1>17, CommitStep

-----------------------------------------------------------------------------
(* The theorems.                                                           *)

\* Every step of every session keeps the inductive invariant.
LEMMA StoreStepSafe ==
    ASSUME StoreInv, [StoreNext]_storeVars
    PROVE  StoreInv'
<1>1. CASE UNCHANGED storeVars
  BY <1>1 DEF storeVars, StoreInv, StoreTypeOK, PointerNamesActive,
     SnapshotsStayValidated, VersionsInOrder, OneHolder, SessionOK, SessionTypeOK,
     Reliable, HoldsPointer, At
<1>2. ASSUME NEW p \in Session, Crash(p) \/ Return(p)
      PROVE  StoreInv'
  BY <1>2, EndedStep DEF Crash, Return
<1>3. ASSUME NEW p \in Session, StoreStep(p)
      PROVE  StoreInv'
  BY <1>2, <1>3, BindSnapshotStep, LockPointerStep, WriteReleaseStep, CommitPublishStep,
     ReadTargetStep, CommitRollbackStep, LockSnapshotStep, CommitSnapshotStep
     DEF StoreStep
<1>4. ASSUME NEW p \in Session,
             \/ \E c \in Candidates : BeginPublish(p, c)
             \/ \E v \in Version : BeginRollback(p, v)
             \/ \E s \in Snapshot, ok \in BOOLEAN : BeginSnapshot(p, s, ok)
      PROVE  StoreInv'
  BY Zenon, <1>4, BeginStep DEF BeginPublish, BeginRollback, BeginSnapshot
<1> QED BY SMTT(30), <1>1, <1>2, <1>3, <1>4 DEF StoreNext

\* The inductive invariant of ControlSemanticReleasePublisher and
\* ControlSchemaSnapshotStore holds in every reachable state: the rows, the pointer,
\* the sequence, the snapshots and what each open transaction has read agree.
THEOREM StoreSafe == StoreSpec => []StoreInv
<1>1. StoreInit => StoreInv
  <2> SUFFICES ASSUME StoreInit PROVE StoreInv
    OBVIOUS
  <2>1. DOMAIN releases = {}
    BY DEF StoreInit
  <2>2. StoreTypeOK
    BY <2>1, StoreAssumption DEF StoreInit, StoreTypeOK
  <2>3. \A p \in Session : tx[p] = Idle
    BY SMTT(30) DEF StoreInit
  <2>4. ASSUME NEW p \in Session PROVE SessionOK(p) /\ ~HoldsPointer(p)
    <3>1. /\ tx[p] = Transaction(tx[p].kind, tx[p].stage, tx[p].arg,
                                 tx[p].previous, tx[p].version, tx[p].why)
          /\ tx[p].kind = "none" /\ tx[p].stage = "idle" /\ tx[p].why = "none"
      BY <2>3 DEF Idle, Transaction
    <3> QED BY <3>1 DEF SessionOK, SessionTypeOK, HoldsPointer, At, Stages
  <2> QED BY <2>1, <2>2, <2>4 DEF StoreInit, StoreInv, PointerNamesActive,
             SnapshotsStayValidated, VersionsInOrder, OneHolder
<1> QED BY <1>1, StoreStepSafe, PTL DEF StoreSpec

\* The pointer names the one active release in every reachable state: whatever
\* publish_candidate and rollback transactions overlap, die or are refused, the
\* join of read_active finds the release that the last commit activated.
THEOREM PointerSafe == StoreSpec => []PointerNamesActive
<1>1. StoreInv => PointerNamesActive
  BY DEF StoreInv
<1> QED BY <1>1, StoreSafe, PTL

\* No publication that passed _validate_release_candidate is ever refused by a
\* constraint of the tables, for any set of candidates: the Python checks imply
\* the CHECK, key and foreign-key clauses of migrations 002 and 004, the CHECK on
\* blank edge ids excepted.
THEOREM AcceptedStorable == StoreSpec => []AcceptedIsStorable
<1>1. StoreInv => AcceptedIsStorable
  BY DEF StoreInv, SessionOK, AcceptedIsStorable
<1> QED BY <1>1, StoreSafe, PTL

-----------------------------------------------------------------------------
(* The transactions implement the in-process registry.                     *)

\* The rows as the abstract registry sees them.
View == [v \in DOMAIN releases |-> RegistryRow(v)]

\* The instance counts as this module does.
LEMMA RegistryCardinality == \A S : Registry!Cardinality(S) = Cardinality(S)
BY Zenon DEF Registry!Cardinality, Cardinality, Registry!IsFiniteSet, IsFiniteSet

\* publish_candidate's commit is one SemanticRegistry.publish: the rank of the new
\* release is one more than the number of releases, no other rank changes, and the
\* predecessor it retires is the active release.
LEMMA CommitPublishRefines ==
    ASSUME StoreInv, NEW p \in Session, CommitPublish(p)
    PROVE  Registry!Next
<1>0. PICK c, new, old, D : /\ c = tx[p].arg /\ new = tx[p].version
                            /\ old = tx[p].previous /\ D = DOMAIN releases
  BY SMTT(30)
<1>1. At(p, "publish", "written") /\ HoldsPointer(p) /\ SessionOK(p)
  BY DEF CommitPublish, StoreInv, HoldsPointer, At
<1>2. /\ new \in Version /\ new \notin D /\ new = seq /\ old = pointer
      /\ c \in Candidates
  BY SMTT(30), <1>0, <1>1 DEF SessionOK, SessionTypeOK, At
<1>3. c.checksum \in Contents
  BY <1>2 DEF Contents
<1>4. old # new
  BY SMTT(30), <1>0, <1>2 DEF StoreInv, StoreTypeOK, PointerNamesActive, NoRelease, Version
<1>5. \A v \in D : v \in Nat /\ v < new
  BY <1>0, <1>2 DEF StoreInv, StoreTypeOK, VersionsInOrder, Version
<1>6. IsFiniteSet(D) /\ Cardinality(D \cup {new}) = Cardinality(D) + 1
  <2>1. IsFiniteSet(Version)
    BY StoreAssumption, FS_Interval DEF Version
  <2>2. IsFiniteSet(D)
    BY <1>0, <2>1, FS_Subset DEF StoreInv, StoreTypeOK
  <2> QED BY Zenon, <2>2, <1>2, FS_AddElement
<1>7. /\ {w \in D \cup {new} : w <= new} = D \cup {new}
      /\ \A v \in D : {w \in D \cup {new} : w <= v} = {w \in D : w <= v}
  <2>1. new \in Nat
    BY <1>2 DEF Version
  <2> QED BY <2>1, <1>5
<1>8. /\ DOMAIN releases' = D \cup {new}
      /\ releases'[new] = [content |-> c.checksum, state |-> "active",
                           previous |-> old, snapshot |-> c.snapshot]
      /\ \A v \in D : releases'[v] =
            [content |-> releases[v].content,
             state |-> IF v = old THEN "retired" ELSE releases[v].state,
             previous |-> releases[v].previous, snapshot |-> releases[v].snapshot]
  <2> DEFINE rs == Inserted(releases, new, Row(c, old))
  <2>1. /\ DOMAIN rs = D \cup {new}
        /\ rs[new] = [content |-> c.checksum, state |-> "validated",
                      previous |-> old, snapshot |-> c.snapshot]
        /\ \A v \in D : rs[v] = releases[v] /\ v # new
    BY <1>0, <1>2 DEF Inserted, Row
  <2>2. \A v \in D : releases[v] = [content |-> releases[v].content,
                                    state |-> releases[v].state,
                                    previous |-> releases[v].previous,
                                    snapshot |-> releases[v].snapshot]
    BY <1>0 DEF StoreInv, StoreTypeOK
  <2>3. releases' = Switched(rs, old, new)
    BY SMTT(30), <1>0 DEF CommitPublish
  <2> HIDE DEF rs
  <2>4. \A v \in DOMAIN rs :
          rs[v] = [content |-> rs[v].content, state |-> rs[v].state,
                   previous |-> rs[v].previous, snapshot |-> rs[v].snapshot]
    BY SMTT(30), <2>1, <2>2
  <2>5. /\ DOMAIN releases' = DOMAIN rs
        /\ \A v \in DOMAIN rs :
              releases'[v] = [content |-> rs[v].content,
                              state |-> IF v = new THEN "active"
                                        ELSE IF v = old THEN "retired" ELSE rs[v].state,
                              previous |-> rs[v].previous, snapshot |-> rs[v].snapshot]
    BY SMTT(30), <1>4, <2>3, <2>4, SwitchedRows
  <2>6. new \in DOMAIN rs /\ D \subseteq DOMAIN rs
    BY <2>1
  <2>7. releases'[new] = [content |-> rs[new].content, state |-> "active",
                          previous |-> rs[new].previous, snapshot |-> rs[new].snapshot]
    BY SMTT(30), <2>5, <2>6
  <2>8. ASSUME NEW v \in D
        PROVE  releases'[v] = [content |-> releases[v].content,
                  state |-> IF v = old THEN "retired" ELSE releases[v].state,
                  previous |-> releases[v].previous, snapshot |-> releases[v].snapshot]
    BY Zenon, <2>1, <2>5, <2>6
  <2> QED BY SMTT(30), <2>1, <2>5, <2>7, <2>8
<1> DEFINE draft == [version |-> Cardinality(D) + 1, content |-> c.checksum,
                     state |-> "draft", previous |-> pointer]
           put == [x \in D \cup {new} |-> IF x = new THEN draft ELSE RegistryRow(x)]
           to == [x \in D \cup {new} |->
                    CASE x = new -> [put[x] EXCEPT !.state = "active"]
                      [] x # new /\ x = pointer -> [put[x] EXCEPT !.state = "retired"]
                      [] OTHER -> put[x]]
<1>9. View' = to
  <2>1. View' = [v \in D \cup {new} |-> RegistryRow(v)']
    BY <1>8 DEF View
  <2>2. RegistryRow(new)' = [draft EXCEPT !.state = "active"]
    <3>1. Cardinality({w \in DOMAIN releases' : w <= new}) = Cardinality(D) + 1
      BY <1>6, <1>7, <1>8
    <3> QED BY <3>1, <1>2, <1>8 DEF RegistryRow
  <2>3. ASSUME NEW v \in D
        PROVE  RegistryRow(v)' = IF v = pointer THEN [RegistryRow(v) EXCEPT !.state = "retired"]
                                 ELSE RegistryRow(v)
    <3>1. Cardinality({w \in DOMAIN releases' : w <= v})
            = Cardinality({w \in DOMAIN releases : w <= v})
      BY ZenonT(30), <1>0, <1>7, <1>8
    <3> QED BY SMTT(30), <3>1, <1>2, <1>8 DEF RegistryRow
  <2>4. to[new] = [draft EXCEPT !.state = "active"]
    OBVIOUS
  <2>5. ASSUME NEW v \in D
        PROVE  to[v] = IF v = pointer THEN [RegistryRow(v) EXCEPT !.state = "retired"]
                       ELSE RegistryRow(v)
    BY <1>2
  <2>6. \A v \in D \cup {new} : RegistryRow(v)' = to[v]
    BY <2>2, <2>3, <2>4, <2>5
  <2> QED BY Zenon, <2>1, <2>6
<1>10. Registry!Publish(new, c.checksum)
  <2>1. View = [v \in D |-> RegistryRow(v)]
    BY <1>0 DEF View
  <2>2. DOMAIN View = D /\ \A v \in D : View[v] = RegistryRow(v)
    BY <2>1
  <2>3. Registry!Put(View, new, draft) = put
    BY <2>2 DEF Registry!Put
  <2>4. Registry!Activated(put, new) = to
    BY DEF Registry!Activated
  <2>5. Registry!Draft(c.checksum) = draft
    BY <2>1, <2>2, RegistryCardinality DEF Registry!Draft, View
  <2>6. pointer' = new
    BY <1>0 DEF CommitPublish
  <2> HIDE DEF draft, put, to
  <2> QED BY <1>2, <1>9, <2>2, <2>3, <2>4, <2>5, <2>6 DEF Registry!Publish, View
<1> QED BY <1>2, <1>3, <1>10 DEF Registry!Next

\* rollback's commit is one SemanticRegistry.rollback: the target was retired, and
\* the release that the transaction read under the lock is still the active one.
LEMMA CommitRollbackRefines ==
    ASSUME StoreInv, NEW p \in Session, CommitRollback(p)
    PROVE  Registry!Next
<1>0. PICK new, old, D : /\ new = tx[p].arg /\ old = tx[p].previous
                         /\ D = DOMAIN releases
  BY SMTT(30)
<1>1. At(p, "rollback", "written") /\ HoldsPointer(p) /\ SessionOK(p)
  BY DEF CommitRollback, StoreInv, HoldsPointer, At
<1>2. new \in D /\ new # pointer /\ old = pointer /\ new \in Version
  BY SMTT(30), <1>0, <1>1 DEF SessionOK, StoreInv, StoreTypeOK
<1>3. releases[new].state = "retired"
  BY SMTT(30), <1>0, <1>2 DEF StoreInv, StoreTypeOK, PointerNamesActive, RowStates
<1>4. /\ DOMAIN releases' = D
      /\ \A v \in D :
            releases'[v] = [content |-> releases[v].content,
                            state |-> IF v = new THEN "active"
                                      ELSE IF v = old THEN "retired" ELSE releases[v].state,
                            previous |-> releases[v].previous,
                            snapshot |-> releases[v].snapshot]
  <2>1. releases' = Switched(releases, old, new)
    BY <1>0 DEF CommitRollback
  <2>2. \A v \in DOMAIN releases :
            releases[v] = [content |-> releases[v].content, state |-> releases[v].state,
                           previous |-> releases[v].previous,
                           snapshot |-> releases[v].snapshot]
    BY DEF StoreInv, StoreTypeOK
  <2> QED BY <1>0, <1>2, <2>1, <2>2, SwitchedRows
<1>5. DOMAIN View = D /\ \A v \in D : View[v] = RegistryRow(v)
  BY <1>0 DEF View
<1> DEFINE to == [x \in D |->
                    CASE x = new -> [View[x] EXCEPT !.state = "active"]
                      [] x # new /\ x = pointer -> [View[x] EXCEPT !.state = "retired"]
                      [] OTHER -> View[x]]
<1>6. ASSUME NEW v \in D PROVE RegistryRow(v)' = to[v]
  <2>1. RegistryRow(v)' = [version |-> RegistryRow(v).version,
                           content |-> RegistryRow(v).content,
                           state |-> IF v = new THEN "active"
                                     ELSE IF v = old THEN "retired"
                                     ELSE RegistryRow(v).state,
                           previous |-> RegistryRow(v).previous]
    BY <1>0, <1>4 DEF RegistryRow
  <2>2. CASE v = new
    BY <1>5, <2>1, <2>2 DEF RegistryRow
  <2>3. CASE v # new /\ v = pointer
    BY <1>2, <1>5, <2>1, <2>3 DEF RegistryRow
  <2>4. CASE v # new /\ v # pointer
    BY Zenon, <1>2, <1>5, <2>1, <2>4 DEF RegistryRow
  <2> QED BY SMTT(30), <2>2, <2>3, <2>4
<1>7. View' = to
  <2>1. View' = [v \in D |-> RegistryRow(v)']
    BY <1>4 DEF View
  <2> QED BY <1>6, <2>1
<1>8. Registry!Rollback(new)
  <2>1. Registry!Activated(View, new) = to
    BY <1>5 DEF Registry!Activated
  <2>2. View[new].state = "retired"
    <3>1. RegistryRow(new).state = releases[new].state
      BY DEF RegistryRow
    <3> HIDE DEF to
    <3> QED BY <1>2, <1>3, <1>5, <3>1
  <2>3. pointer' = new
    BY <1>0 DEF CommitRollback
  <2> HIDE DEF to
  <2> QED BY <1>2, <1>5, <1>7, <2>1, <2>2, <2>3 DEF Registry!Rollback, View
<1> QED BY <1>2, <1>8 DEF Registry!Next

\* The control database mirrors the in-process registry, as the docstring of
\* SemanticRegistry promises: seen through the ranks of the versions, every
\* interleaving of publish_candidate and rollback transactions is a sequence of
\* SemanticRegistry.publish and rollback calls.
THEOREM StoreImplementsRegistry == StoreSpec => ImplementsRegistry
<1>1. StoreInit => Registry!Init
  BY DEF StoreInit, Registry!Init, NoRelease
<1>2. ASSUME StoreInv, [StoreNext]_storeVars
      PROVE  [Registry!Next]_(Registry!registryVars)
  <2>1. CASE UNCHANGED <<releases, pointer>>
    BY <2>1 DEF Registry!registryVars, RegistryRow
  <2>2. ASSUME NEW p \in Session, CommitPublish(p) \/ CommitRollback(p)
        PROVE  Registry!Next
    BY <1>2, <2>2, CommitPublishRefines, CommitRollbackRefines
  <2>3. CASE UNCHANGED storeVars
    BY <2>1, <2>3 DEF storeVars
  <2>4. ASSUME NEW p \in Session, StoreStep(p)
        PROVE  UNCHANGED <<releases, pointer>> \/ CommitPublish(p) \/ CommitRollback(p)
    BY <2>4 DEF StoreStep, BindSnapshot, LockPointer, WriteRelease, ReadTarget,
       LockSnapshot, CommitSnapshot, Return
  <2>5. ASSUME NEW p \in Session,
               \/ \E c \in Candidates : BeginPublish(p, c)
               \/ \E v \in Version : BeginRollback(p, v)
               \/ \E s \in Snapshot, ok \in BOOLEAN : BeginSnapshot(p, s, ok)
               \/ Crash(p)
        PROVE  UNCHANGED <<releases, pointer>>
    BY Zenon, <2>5 DEF BeginPublish, BeginRollback, BeginSnapshot, Enter, Crash
  <2> QED BY <1>2, <2>1, <2>2, <2>3, <2>4, <2>5 DEF StoreNext
<1> QED BY <1>1, <1>2, StoreSafe, PTL DEF StoreSpec, ImplementsRegistry, Registry!Spec
=============================================================================

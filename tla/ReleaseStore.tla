---------------------------- MODULE ReleaseStore ----------------------------
(***************************************************************************)
(* semantic/registry.py, class ControlSemanticReleasePublisher, and        *)
(* semantic/schema_snapshot.py, class ControlSchemaSnapshotStore: the      *)
(* control database's releases, its active pointer and its schema          *)
(* snapshots.                                                              *)
(*                                                                         *)
(* Every operation is one READ COMMITTED transaction.  What it has written *)
(* is its own until it commits, so only its locks, the values it has read  *)
(* and the sequence (which no rollback returns) are visible to others.  A  *)
(* session that dies, or whose commit is never acknowledged, ends like a   *)
(* crash or like a commit: the caller cannot tell, the database can.       *)
(***************************************************************************)
EXTENDS ReleaseCandidate, FiniteSets

CONSTANTS Session,     \* connections of indexers, snapshotters and operators
          Snapshot,    \* schema snapshots, by checksum
          Candidates,  \* release candidates a caller may hand over
          MaxVersion   \* last value of semantic_release_version_seq

\* The length of a vector is a natural number, and None is none.
ASSUME StoreAssumption ==
    /\ MaxVersion \in Nat
    /\ Nothing \notin Nat
    /\ \A c \in Candidates : Dimensions(c) \subseteq Nat

VARIABLES releases,    \* committed rows of semantic_releases, by version
          pointer,     \* committed semantic_release_pointers.release_id
          seq,         \* last value handed out by the sequence
          snapshots,   \* committed state of each schema snapshot
          tx           \* each session's transaction

storeVars == <<releases, pointer, seq, snapshots, tx>>

Version == 1 .. MaxVersion
NoRelease == 0
Contents == {c.checksum : c \in Candidates}

\* A transaction: what it was called with, the pointer it read under the lock,
\* the version it was given, and why it was rolled back.
Transaction(kind, stage, arg, previous, version, why) ==
    [kind |-> kind, stage |-> stage, arg |-> arg, previous |-> previous,
     version |-> version, why |-> why]

Idle == Transaction("none", "idle", Nothing, NoRelease, 0, "none")

\* The permanent pointer row exists before the first release (migration 004).
StoreInit ==
    /\ releases = [v \in {} |-> {}]
    /\ pointer = NoRelease
    /\ seq = 0
    /\ snapshots = [s \in Snapshot |-> "none"]
    /\ tx = [p \in Session |-> Idle]

-----------------------------------------------------------------------------
(* Row locks, which the stage of a transaction tells.                      *)

At(p, kind, stage) == tx[p].kind = kind /\ tx[p].stage = stage

\* SELECT ... FOR UPDATE on the pointer row, held to the end.
HoldsPointer(p) ==
    tx[p].kind \in {"publish", "rollback"} /\ tx[p].stage \in {"locked", "written"}

\* SELECT ... FOR SHARE on the snapshot row, held to the end.
Shares(p, s) ==
    /\ tx[p].kind = "publish"
    /\ tx[p].stage \in {"bound", "locked", "written"}
    /\ tx[p].arg.snapshot = s

\* INSERT or SELECT ... FOR UPDATE on the snapshot row, held to the end.
Owns(p, s) == At(p, "snapshot", "locked") /\ tx[p].arg.snapshot = s

Enter(p, kind, arg) ==
    /\ tx[p] = Idle
    /\ tx' = [tx EXCEPT ![p] = Transaction(kind, "begun", arg, NoRelease, 0, "none")]
    /\ UNCHANGED <<releases, pointer, seq, snapshots>>

Step(p, stage) == tx' = [tx EXCEPT ![p].stage = stage]

\* Mutant: the exception is swallowed and the transaction stays open.
AbortSwallowed(p, why) == UNCHANGED tx

\* An exception rolls the transaction back and gives its locks up.
Abort(p, why) ==
    tx' = [tx EXCEPT ![p] = Transaction(tx[p].kind, "aborted", Nothing, NoRelease, 0, why)]

-----------------------------------------------------------------------------
(* publish_candidate.                                                      *)

\* _validate_release_candidate raises before a transaction is opened.
BeginPublish(p, c) == ValidCandidate(c) /\ Enter(p, "publish", c)

\* _validate_schema_snapshot_binding waits for a snapshotter that owns the
\* committed row and then reads its state; a row that another transaction has
\* inserted but not committed does not exist yet.
BindSnapshot(p) ==
    LET s == tx[p].arg.snapshot
    IN  /\ At(p, "publish", "begun")
        /\ s \in Snapshot /\ snapshots[s] # "none" => \A q \in Session : ~Owns(q, s)
        /\ IF \/ s = Nothing
              \/ /\ s \in Snapshot
                 /\ snapshots[s] = "validated"
                 /\ tx[p].arg.snapshotChecksum = s
           THEN Step(p, "bound")
           ELSE Abort(p, "snapshot")
        /\ UNCHANGED <<releases, pointer, seq, snapshots>>

\* _lock_active_pointer: FOR UPDATE re-reads the row once it has the lock.
LockPointer(p) ==
    /\ At(p, "publish", "bound") \/ At(p, "rollback", "begun")
    /\ \A q \in Session : ~HoldsPointer(q)
    /\ tx' = [tx EXCEPT ![p] =
                  Transaction(tx[p].kind, "locked", tx[p].arg, pointer, 0, "none")]
    /\ UNCHANGED <<releases, pointer, seq, snapshots>>

\* nextval, the INSERT of the release with its UNIQUE checksum, and
\* _persist_release_candidate.  The number is spent even if the rest fails.
WriteRelease(p) ==
    LET c == tx[p].arg
    IN  /\ At(p, "publish", "locked")
        /\ IF seq = MaxVersion
           THEN Abort(p, "sequence") /\ UNCHANGED seq
           ELSE /\ seq' = seq + 1
                /\ CASE \E v \in DOMAIN releases : releases[v].content = c.checksum ->
                          Abort(p, "checksum")
                     [] ~TablesAccept(c) -> Abort(p, "tables")
                     [] TablesAccept(c) /\ ~EdgeIdsAccepted(c) -> Abort(p, "edge_id")
                     [] OTHER ->
                          tx' = [tx EXCEPT ![p] =
                                    Transaction("publish", "written", c,
                                                tx[p].previous, seq + 1, "none")]
        /\ UNCHANGED <<releases, pointer, snapshots>>

\* The rows rs once old has been retired and new activated.
Switched(rs, old, new) ==
    [v \in DOMAIN rs |->
        CASE v = new -> [rs[v] EXCEPT !.state = "active"]
          [] v # new /\ v = old -> [rs[v] EXCEPT !.state = "retired"]
          [] OTHER -> rs[v]]

\* Mutant: the release does not remember its predecessor.
RowOrphan(c, previous) ==
    [content |-> c.checksum, state |-> "validated", previous |-> NoRelease,
     snapshot |-> c.snapshot]

\* The row of a release that has been inserted but not activated.
Row(c, previous) ==
    [content |-> c.checksum, state |-> "validated", previous |-> previous,
     snapshot |-> c.snapshot]

Inserted(rs, v, row) == [x \in DOMAIN rs \cup {v} |-> IF x = v THEN row ELSE rs[x]]

\* The previous release is retired, the new one activated, the pointer moved,
\* and all of it becomes visible at once.
CommitPublish(p) ==
    LET v == tx[p].version
        old == tx[p].previous
    IN  /\ At(p, "publish", "written")
        /\ releases' = Switched(Inserted(releases, v, Row(tx[p].arg, old)), old, v)
        /\ pointer' = v
        /\ tx' = [tx EXCEPT ![p] = Idle]
        /\ UNCHANGED <<seq, snapshots>>

-----------------------------------------------------------------------------
(* rollback.                                                               *)

BeginRollback(p, v) == Enter(p, "rollback", v)

\* The target is read FOR UPDATE and must be retired or validated.
ReadTarget(p) ==
    /\ At(p, "rollback", "locked")
    /\ IF /\ tx[p].arg \in DOMAIN releases
          /\ releases[tx[p].arg].state \in {"retired", "validated"}
       THEN Step(p, "written")
       ELSE Abort(p, "target")
    /\ UNCHANGED <<releases, pointer, seq, snapshots>>

CommitRollback(p) ==
    /\ At(p, "rollback", "written")
    /\ releases' = Switched(releases, tx[p].previous, tx[p].arg)
    /\ pointer' = tx[p].arg
    /\ tx' = [tx EXCEPT ![p] = Idle]
    /\ UNCHANGED <<seq, snapshots>>

-----------------------------------------------------------------------------
(* ControlSchemaSnapshotStore.publish.                                     *)

\* ok is the verdict of the validation report that comes with the candidate.
BeginSnapshot(p, s, ok) == Enter(p, "snapshot", [snapshot |-> s, ok |-> ok])

\* The INSERT waits for an uncommitted one with the same checksum, and FOR
\* UPDATE for every transaction that shares the row.
LockSnapshot(p) ==
    LET s == tx[p].arg.snapshot
    IN  /\ At(p, "snapshot", "begun")
        /\ \A q \in Session : ~Owns(q, s) /\ ~Shares(q, s)
        /\ Step(p, "locked")
        /\ UNCHANGED <<releases, pointer, seq, snapshots>>

\* A validated snapshot is returned as it is or, with a report that is not ok,
\* refused; any other takes the state of the report.
CommitSnapshot(p) ==
    LET s == tx[p].arg.snapshot
        ok == tx[p].arg.ok
    IN  /\ At(p, "snapshot", "locked")
        /\ IF snapshots[s] = "validated" /\ ~ok
           THEN Abort(p, "demotion") /\ UNCHANGED snapshots
           ELSE /\ snapshots' = [snapshots EXCEPT ![s] = IF ok THEN "validated" ELSE "rejected"]
                /\ tx' = [tx EXCEPT ![p] = Idle]
        /\ UNCHANGED <<releases, pointer, seq>>

-----------------------------------------------------------------------------
\* The session is lost, or its caller is cancelled, before the commit.
Crash(p) ==
    /\ tx[p].stage \in {"begun", "bound", "locked", "written"}
    /\ tx' = [tx EXCEPT ![p] = Idle]
    /\ UNCHANGED <<releases, pointer, seq, snapshots>>

\* The exception has reached the caller.
Return(p) ==
    /\ tx[p].stage = "aborted"
    /\ tx' = [tx EXCEPT ![p] = Idle]
    /\ UNCHANGED <<releases, pointer, seq, snapshots>>

StoreStep(p) ==
    \/ BindSnapshot(p)
    \/ LockPointer(p)
    \/ WriteRelease(p)
    \/ CommitPublish(p)
    \/ ReadTarget(p)
    \/ CommitRollback(p)
    \/ LockSnapshot(p)
    \/ CommitSnapshot(p)
    \/ Return(p)

StoreNext ==
    \E p \in Session :
        \/ \E c \in Candidates : BeginPublish(p, c)
        \/ \E v \in Version : BeginRollback(p, v)
        \/ \E s \in Snapshot, ok \in BOOLEAN : BeginSnapshot(p, s, ok)
        \/ StoreStep(p)
        \/ Crash(p)

StoreSpec == StoreInit /\ [][StoreNext]_storeVars

-----------------------------------------------------------------------------
(* Properties.                                                             *)

Stages == {"idle", "begun", "bound", "locked", "written", "aborted"}
RowStates == {"active", "retired"}

\* Type correctness of the committed rows.
StoreTypeOK ==
    /\ pointer \in Version \cup {NoRelease}
    /\ seq \in 0 .. MaxVersion
    /\ snapshots \in [Snapshot -> {"none", "rejected", "validated"}]
    /\ DOMAIN tx = Session
    /\ DOMAIN releases \subseteq Version
    /\ \A v \in DOMAIN releases :
          /\ releases[v] = [content |-> releases[v].content,
                            state |-> releases[v].state,
                            previous |-> releases[v].previous,
                            snapshot |-> releases[v].snapshot]
          /\ releases[v].content \in Contents
          /\ releases[v].state \in RowStates

\* The pointer names the one active release, if there is one, whichever
\* publications and rollbacks overlap: read_active joins the two and would find
\* nothing if they disagreed.
PointerNamesActive ==
    /\ pointer # NoRelease => pointer \in DOMAIN releases
    /\ \A v \in DOMAIN releases : releases[v].state = "active" <=> v = pointer

\* A candidate bound to snapshot s can rely on it.
Reliable(s) == s # Nothing => s \in Snapshot /\ snapshots[s] = "validated"

\* A snapshot that a release is bound to was validated when the release was
\* published, and no later report demotes it.
SnapshotsStayValidated == \A v \in DOMAIN releases : Reliable(releases[v].snapshot)

\* Versions are handed out under the pointer's lock, so a release is newer than
\* every release committed before it and its predecessor is an older one; no
\* two releases have the same content.
VersionsInOrder ==
    /\ \A v \in DOMAIN releases :
          /\ v <= seq
          /\ releases[v].previous \in DOMAIN releases \cup {NoRelease}
          /\ releases[v].previous < v
    /\ \A v, w \in DOMAIN releases :
          releases[v].content = releases[w].content => v = w

\* The pointer row serialises the transactions that move it.
OneHolder == \A p, q \in Session : HoldsPointer(p) /\ HoldsPointer(q) => p = q

\* The form of a transaction, by its kind.
SessionTypeOK(p) ==
    /\ tx[p] = Transaction(tx[p].kind, tx[p].stage, tx[p].arg,
                           tx[p].previous, tx[p].version, tx[p].why)
    /\ tx[p].stage \in Stages
    /\ tx[p].stage # "aborted" =>
          /\ tx[p].kind = "publish" => tx[p].arg \in Candidates /\ ValidCandidate(tx[p].arg)
          /\ tx[p].kind = "rollback" => tx[p].arg \in Version
          /\ tx[p].kind = "snapshot" =>
                tx[p].arg.snapshot \in Snapshot /\ tx[p].arg.ok \in BOOLEAN

\* What a transaction has read or checked holds until it commits: the pointer,
\* the state of its snapshot, that the version and the checksum of the release it
\* has written are new, that the target of a rollback is not the active release.
SessionOK(p) ==
    /\ SessionTypeOK(p)
    /\ tx[p].kind = "publish" /\ tx[p].stage \in {"bound", "locked", "written"}
          => Reliable(tx[p].arg.snapshot)
    /\ HoldsPointer(p) => tx[p].previous = pointer
    /\ At(p, "publish", "written") =>
          /\ tx[p].version = seq
          /\ tx[p].version \in Version \ DOMAIN releases
          /\ \A v \in DOMAIN releases : releases[v].content # tx[p].arg.checksum
    /\ At(p, "rollback", "written") => tx[p].arg \in DOMAIN releases \ {pointer}
    /\ tx[p].why # "tables"

\* The inductive invariant of the store.
StoreInv ==
    /\ StoreTypeOK
    /\ PointerNamesActive
    /\ SnapshotsStayValidated
    /\ VersionsInOrder
    /\ OneHolder
    /\ \A p \in Session : SessionOK(p)

\* A candidate that passes _validate_release_candidate violates no constraint of
\* the tables it is written to but the one on blank edge ids: after the Python
\* checks a publication can fail only for that, for its snapshot, its checksum
\* or the sequence.
AcceptedIsStorable == \A p \in Session : tx[p].why # "tables"

\* The abstract registry's view of the committed rows: a release's version is
\* its rank, however many numbers were spent on transactions that failed.
RegistryRow(v) ==
    [version |-> Cardinality({w \in DOMAIN releases : w <= v}),
     content |-> releases[v].content, state |-> releases[v].state,
     previous |-> releases[v].previous]

Registry == INSTANCE SemanticRegistry
    WITH Id <- Version, Content <- Contents, None <- NoRelease, active <- pointer,
         releases <- [v \in DOMAIN releases |-> RegistryRow(v)]

\* The transactions implement the in-process state machine of SemanticRegistry.
ImplementsRegistry == Registry!Spec

\* Publishers, operators and snapshotters take rows of three tables; while one
\* of them is in a transaction some transaction can go on, so they never wait
\* for each other in a circle.
SomebodyProceeds ==
    (\E p \in Session : tx[p].stage # "idle")
        => \E p \in Session : ENABLED <<StoreStep(p)>>_storeVars
=============================================================================

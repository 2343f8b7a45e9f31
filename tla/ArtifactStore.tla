--------------------------- MODULE ArtifactStore ---------------------------
(***************************************************************************)
(* The artifact repository: artifacts/repository.py keeps it in the        *)
(* process, artifacts/control_store.py in a table whose trigger freezes    *)
(* the identity of a row and the order of its updates.  One artifact is    *)
(* followed.  The durable replacement takes its time stamp before it gets  *)
(* a connection, so stamps and writes need not come in the same order.     *)
(***************************************************************************)
EXTENDS Naturals, FiniteSets, FiniteSetsExt

CONSTANTS Owner, Payload, Writer, MaxClock

VARIABLES kept,      \* the stored row, or NoRow
          clock,     \* utcnow()
          writer,    \* replacements between their stamp and their statement
          accepted   \* history: stamps and payloads of what was written

artifactVars == <<kept, clock, writer, accepted>>

ArtifactType == {"analysis", "custom_definition"}
NoRow == [owner |-> "none", type |-> "none", payload |-> "none", sum |-> "none",
          created |-> 0, updated |-> 0]
NoWrite == [at |-> "idle", owner |-> "none", type |-> "none", payload |-> "none", stamp |-> 0]

\* The checksum stands for the payload's canonical form.
Checksum(payload) == payload

ArtifactInit ==
    /\ kept = NoRow
    /\ clock = 1
    /\ writer = [w \in Writer |-> NoWrite]
    /\ accepted = {}

Tick ==
    /\ clock < MaxClock
    /\ clock' = clock + 1
    /\ UNCHANGED <<kept, writer, accepted>>

\* create: the server stamps owner, type and both times.
Create(o, t, p) ==
    /\ kept = NoRow
    /\ kept' = [owner |-> o, type |-> t, payload |-> p, sum |-> Checksum(p),
                created |-> clock, updated |-> clock]
    /\ accepted' = {<<clock, p>>}
    /\ UNCHANGED <<clock, writer>>

\* replace_payload up to its transaction.
StampReplacement(w, o, t, p) ==
    /\ writer[w].at = "idle"
    /\ writer' = [writer EXCEPT ![w] =
          [at |-> "update", owner |-> o, type |-> t, payload |-> p, stamp |-> clock]]
    /\ UNCHANGED <<kept, clock, accepted>>

\* Mutant: the trigger lets an older stamp through.
GuardIdentityLoose(old, new) ==
    new.owner = old.owner /\ new.type = old.type /\ new.created = old.created

\* product_artifacts_guard_identity
GuardIdentity(old, new) ==
    /\ new.owner = old.owner /\ new.type = old.type /\ new.created = old.created
    /\ new.updated >= old.updated

\* The guarded UPDATE: no row of that owner and type, or a trigger that
\* raises, writes nothing.
WriteReplacement(w) ==
    LET q == writer[w]
        new == [kept EXCEPT !.payload = q.payload, !.sum = Checksum(q.payload),
                            !.updated = q.stamp]
    IN  /\ q.at = "update"
        /\ IF kept.owner = q.owner /\ kept.type = q.type /\ GuardIdentity(kept, new)
           THEN kept' = new /\ accepted' = accepted \cup {<<q.stamp, q.payload>>}
           ELSE UNCHANGED <<kept, accepted>>
        /\ writer' = [writer EXCEPT ![w] = NoWrite]
        /\ UNCHANGED clock

\* get and _envelope_from_row: what an owner is shown, or nothing.
Envelope(o) ==
    IF kept = NoRow \/ kept.owner # o THEN NoRow
    ELSE IF Checksum(kept.payload) # kept.sum THEN NoRow ELSE kept

ArtifactNext ==
    \/ Tick
    \/ \E o \in Owner, t \in ArtifactType, p \in Payload :
          \/ Create(o, t, p)
          \/ \E w \in Writer : StampReplacement(w, o, t, p)
    \/ \E w \in Writer : WriteReplacement(w)

ArtifactSpec == ArtifactInit /\ [][ArtifactNext]_artifactVars

\* Of the replacements that were accepted, the one stamped last is what the
\* owner reads, and nobody else reads anything, although a replacement may be
\* written long after its stamp; so an accepted write is never lost to an
\* earlier one, and the creation time and type never change under it.
NewestReplacementStands ==
    kept # NoRow =>
        /\ Envelope(kept.owner) = kept
        /\ kept.updated = Max({a[1] : a \in accepted})
        /\ <<kept.updated, kept.payload>> \in accepted
        /\ kept.created = Min({a[1] : a \in accepted})
        /\ \A o \in Owner \ {kept.owner} : Envelope(o) = NoRow
=============================================================================

------------------------ MODULE PublicationCatalogue ------------------------
(***************************************************************************)
(* The publication catalogue of artifacts/publication.py, for one metric   *)
(* identity: immutable versions, the explicit current pointer, and the two *)
(* axes that change afterwards, certification and withdrawal.  A catalogue *)
(* is a value, and its methods are operators on it.  A method that raises  *)
(* leaves the catalogue alone; whether it does is an operator of its own.  *)
(*                                                                         *)
(* The durable catalogue of publication_control_store.py runs the same     *)
(* methods as transactions; Definitions takes its publish apart.           *)
(***************************************************************************)
EXTENDS Naturals, Sequences, SequencesExt

\* A version is absent, a display-only fixture, or carries its package.
Entry == {"absent", "display", "package"}

EmptyCatalogue(V) ==
    [entry |-> [v \in V |-> "absent"], current |-> 0, certified |-> {}, withdrawn |-> {}]

\* get, and the versions of the identity.
Has(c, v) == v \in DOMAIN c.entry /\ c.entry[v] # "absent"
Versions(c) == {v \in DOMAIN c.entry : Has(c, v)}

\* PublishedVersion.forkable: only a version with a package can be forked.
Forkable(c, v) == Has(c, v) /\ c.entry[v] = "package"

\* current_version raises, here 0, without versions, without a pointer and
\* with a pointer to nothing; it never takes the maximum.
CurrentVersion(c) == IF Versions(c) # {} /\ Has(c, c.current) THEN c.current ELSE 0

CertificationState(c, v) == IF v \in c.certified THEN "certified" ELSE "uncertified"
IsWithdrawn(c, v) == v \in c.withdrawn

\* What publish refuses: a version that exists, and a catalogue whose
\* pointer is unbound or dangling although it has versions.
PublishRefused(c, v) == Has(c, v) \/ (Versions(c) # {} /\ CurrentVersion(c) = 0)

\* publish: append, advance the pointer, start uncertified and available.
PublishVersion(c, v) ==
    IF PublishRefused(c, v) THEN c
    ELSE [entry |-> [c.entry EXCEPT ![v] = "package"],
          current |-> IF Versions(c) = {} \/ v > c.current THEN v ELSE c.current,
          certified |-> c.certified \ {v},
          withdrawn |-> c.withdrawn \ {v}]

\* What seed refuses: to replace another publication, to repair a pointer, to
\* move it back.
SeedRefused(c, v, current) ==
    \/ c.entry[v] = "package"
    \/ current /\ Versions(c) = {} /\ c.current # 0
    \/ current /\ Versions(c) # {} /\ (CurrentVersion(c) = 0 \/ v < CurrentVersion(c))

\* seed: a fixture, written once, advancing the pointer when it is current.
Seed(c, v, current) ==
    IF SeedRefused(c, v, current) THEN c
    ELSE [c EXCEPT !.entry[v] = "display",
                   !.current = IF current /\ v > @ THEN v ELSE @]

\* certify_local_demo and withdraw raise on a version that does not exist.
CertifyVersion(c, v) == IF Has(c, v) THEN [c EXCEPT !.certified = @ \cup {v}] ELSE c
WithdrawVersion(c, v) == IF Has(c, v) THEN [c EXCEPT !.withdrawn = @ \cup {v}] ELSE c

\* The demo fixtures: versions with a certification, and the current one.
Fixtures == << [version |-> 1, certified |-> TRUE], [version |-> 2, certified |-> FALSE] >>
FixtureCurrent == 2

\* seed_catalogue_from_fixtures: the current fixture goes first, each is
\* seeded and then certified; the first refusal ends it.
SeedFromFixtures(c) ==
    LET ordered == SelectSeq(Fixtures, LAMBDA f : f.version = FixtureCurrent)
                     \o SelectSeq(Fixtures, LAMBDA f : f.version # FixtureCurrent)
        Adapt(acc, f) ==
            IF acc.failed \/ SeedRefused(acc.catalogue, f.version, f.version = FixtureCurrent)
            THEN [acc EXCEPT !.failed = TRUE]
            ELSE LET seeded == Seed(acc.catalogue, f.version, f.version = FixtureCurrent)
                 IN  [acc EXCEPT !.catalogue =
                         IF f.certified THEN CertifyVersion(seeded, f.version) ELSE seeded]
    IN  FoldLeft(Adapt, [catalogue |-> c, failed |-> FALSE], ordered)
=============================================================================

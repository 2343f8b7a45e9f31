------------------------------ MODULE Library ------------------------------
(***************************************************************************)
(* The personal library: installs, stars and withdrawal acknowledgements   *)
(* of artifacts/library_control_store.py over the shared catalogue, behind *)
(* product_library_service.py and the routes of api_library.py.            *)
(*                                                                         *)
(* One identity is modelled: every row is keyed by its identity and no     *)
(* operation touches two.  It is either the seeded demo metric or a metric *)
(* that one of the users publishes.  Each statement a request sends to the *)
(* database is a step; a check whose answer can only ever stay the same,   *)
(* such as the existence of a version, is part of the next one.            *)
(***************************************************************************)
EXTENDS PublicationCatalogue, FiniteSets

CONSTANTS User,        \* users of the library
          Publisher,   \* the user who owns the published metric
          Admin,       \* the configured certification administrator
          Request,     \* requests in flight
          MaxVersion

VARIABLES durable,     \* the control store, or the process-local one
          catalogue,   \* the shared catalogue
          owner,       \* who owns the identity: the publisher or the fixture
          installs,    \* product_library_installs: version per user, or 0
          stars,       \* product_library_stars
          acks,        \* product_library_withdrawal_acks
          forks,       \* definitions forked from an installed version
          request      \* install and upgrade requests in flight

libraryVars == <<durable, catalogue, owner, installs, stars, acks, forks, request>>
personal == <<installs, stars, acks, forks>>

Version == 1 .. MaxVersion
Idle == [at |-> "idle", user |-> "none", version |-> 0, read |-> 0, upgrade |-> FALSE]

\* publication_catalogue(): a store that holds the fixtures, or nothing yet.
LibraryInit ==
    /\ durable \in BOOLEAN
    /\ \/ /\ owner = "fixture"
          /\ catalogue = SeedFromFixtures(EmptyCatalogue(Version)).catalogue
       \/ /\ owner = Publisher
          /\ catalogue = EmptyCatalogue(Version)
    /\ installs = [u \in User |-> 0]
    /\ stars = {}
    /\ acks = {}
    /\ forks = {}
    /\ request = [r \in Request |-> Idle]

At(r, where) == request[r].at = where
Goto(r, where) == request' = [request EXCEPT ![r].at = where]
Answered(r) == request' = [request EXCEPT ![r] = Idle]

-----------------------------------------------------------------------------
(* The catalogue: each of its transactions is one step here.               *)

Publish(v) ==
    /\ owner = Publisher
    /\ ~PublishRefused(catalogue, v)
    /\ catalogue' = PublishVersion(catalogue, v)
    /\ UNCHANGED <<durable, owner, personal, request>>

\* CertificationAuthority.allows: the configured administrator, nobody else.
Allows(u) == u = Admin

Certify(u, v) ==
    /\ Allows(u)
    /\ Has(catalogue, v)
    /\ catalogue' = CertifyVersion(catalogue, v)
    /\ UNCHANGED <<durable, owner, personal, request>>

\* withdraw: the owner of the exact version; nobody loses an install.
Withdraw(u, v) ==
    /\ Has(catalogue, v)
    /\ u = owner
    /\ catalogue' = WithdrawVersion(catalogue, v)
    /\ UNCHANGED <<durable, owner, personal, request>>

-----------------------------------------------------------------------------
(* install and upgrade: they read, decide and write in separate statements. *)

Install(r, u, v) ==
    /\ durable
    /\ At(r, "idle")
    /\ Has(catalogue, v)
    /\ request' = [request EXCEPT ![r] =
          [at |-> "check", user |-> u, version |-> v, read |-> 0, upgrade |-> FALSE]]
    /\ UNCHANGED <<durable, catalogue, owner, personal>>

\* upgrade: the target exists, and so does the install it replaces.
Upgrade(r, u, v) ==
    /\ durable
    /\ At(r, "idle")
    /\ Has(catalogue, v)
    /\ installs[u] # 0
    /\ request' = [request EXCEPT ![r] =
          [at |-> "newer", user |-> u, version |-> v, read |-> installs[u], upgrade |-> TRUE]]
    /\ UNCHANGED <<durable, catalogue, owner, personal>>

\* What upgrade demands of its target, given the version it has read.
Newer(q) == ~IsWithdrawn(catalogue, q.version) /\ q.version > q.read

CheckNewer(r) ==
    /\ At(r, "newer")
    /\ IF Newer(request[r]) THEN Goto(r, "check") ELSE Answered(r)
    /\ UNCHANGED <<durable, catalogue, owner, personal>>

CheckWithdrawn(r) ==
    /\ At(r, "check")
    /\ IF IsWithdrawn(catalogue, request[r].version) THEN Answered(r) ELSE Goto(r, "write")
    /\ UNCHANGED <<durable, catalogue, owner, personal>>

\* INSERT ... ON CONFLICT (user_id, identity_id) DO UPDATE SET version
WriteInstall(r) ==
    /\ At(r, "write")
    /\ installs' = [installs EXCEPT ![request[r].user] = request[r].version]
    /\ Answered(r)
    /\ UNCHANGED <<durable, catalogue, owner, stars, acks, forks>>

\* The process-local repository never suspends inside install or upgrade.
InstallNow(u, v) ==
    /\ ~durable
    /\ Has(catalogue, v) /\ ~IsWithdrawn(catalogue, v)
    /\ installs' = [installs EXCEPT ![u] = v]
    /\ UNCHANGED <<durable, catalogue, owner, stars, acks, forks, request>>

UpgradeNow(u, v) ==
    /\ installs[u] # 0 /\ v > installs[u]
    /\ InstallNow(u, v)

Uninstall(u) ==
    /\ installs' = [installs EXCEPT ![u] = 0]
    /\ UNCHANGED <<durable, catalogue, owner, stars, acks, forks, request>>

-----------------------------------------------------------------------------
(* Stars, acknowledgements, forks: one statement each decides and writes.  *)

\* star: an identity with versions; starring again changes nothing.
Star(u) ==
    /\ Versions(catalogue) # {}
    /\ stars' = stars \cup {u}
    /\ UNCHANGED <<durable, catalogue, owner, installs, acks, forks, request>>

Unstar(u) ==
    /\ stars' = stars \ {u}
    /\ UNCHANGED <<durable, catalogue, owner, installs, acks, forks, request>>

\* Mutant: any version the user could have installed may be acknowledged.
AcknowledgeAny(u, v) ==
    /\ Has(catalogue, v)
    /\ installs[u] # 0
    /\ acks' = acks \cup {<<u, v>>}
    /\ UNCHANGED <<durable, catalogue, owner, installs, stars, forks, request>>

\* _ACKNOWLEDGE_STATEMENT: INSERT ... WHERE EXISTS an install of that version
Acknowledge(u, v) ==
    /\ Has(catalogue, v)
    /\ installs[u] = v
    /\ acks' = acks \cup {<<u, v>>}
    /\ UNCHANGED <<durable, catalogue, owner, installs, stars, forks, request>>

\* fork: the exact version the caller holds, if it carries a package.
Fork(u, v) ==
    /\ installs[u] = v
    /\ Forkable(catalogue, v)
    /\ forks' = forks \cup {<<u, v>>}
    /\ UNCHANGED <<durable, catalogue, owner, installs, stars, acks, request>>

-----------------------------------------------------------------------------
(* What the reads tell a user.                                             *)

\* catalogue_entries: an identity is listed while its current version is
\* available; an older version is never offered instead.
Listed ==
    LET current == CurrentVersion(catalogue)
    IN  current # 0 /\ ~IsWithdrawn(catalogue, current)

\* Mutant: a withdrawn current version is still offered.
UpdateAvailableBlind(u) ==
    installs[u] # 0 /\ CurrentVersion(catalogue) # 0
      /\ CurrentVersion(catalogue) > installs[u]

\* update_available: against the explicit pointer, if it can be installed.
UpdateAvailable(u) ==
    LET current == CurrentVersion(catalogue)
    IN  installs[u] # 0 /\ current # 0 /\ ~IsWithdrawn(catalogue, current)
          /\ current > installs[u]

\* library_entries: what the caller sees of the install.
LibraryEntry(u) ==
    [installed |-> installs[u], current |-> CurrentVersion(catalogue),
     update |-> UpdateAvailable(u), starred |-> u \in stars,
     starCount |-> Cardinality(stars),
     certification |-> CertificationState(catalogue, installs[u]),
     withdrawn |-> IsWithdrawn(catalogue, installs[u]),
     acknowledged |-> <<u, installs[u]>> \in acks,
     forkable |-> Forkable(catalogue, installs[u])]

-----------------------------------------------------------------------------

UserStep(u) ==
    \/ Uninstall(u) \/ Star(u) \/ Unstar(u)
    \/ \E v \in Version :
          \/ Certify(u, v) \/ Withdraw(u, v)
          \/ Acknowledge(u, v) \/ Fork(u, v)
          \/ InstallNow(u, v) \/ UpgradeNow(u, v)

RequestStep(r) ==
    \/ \E u \in User, v \in Version : Install(r, u, v) \/ Upgrade(r, u, v)
    \/ CheckNewer(r) \/ CheckWithdrawn(r) \/ WriteInstall(r)

LibraryNext ==
    \/ \E v \in Version : Publish(v)
    \/ \E u \in User : UserStep(u)
    \/ \E r \in Request : RequestStep(r)

LibrarySpec == LibraryInit /\ [][LibraryNext]_libraryVars

-----------------------------------------------------------------------------
(* Properties.                                                             *)

\* Whatever a user is told can be acted on: an update that is offered passes
\* the checks upgrade makes of it, a listed identity can be installed at its
\* current version, and an installed version is there to be read and forked.
\* The offers and the checks are written apart, over a catalogue that changes.
OffersHold ==
    /\ \A u \in User :
          LET entry == LibraryEntry(u)
          IN  entry.update =>
                 Newer([version |-> entry.current, read |-> entry.installed])
    /\ Listed => Has(catalogue, CurrentVersion(catalogue))
    /\ \A u \in User : installs[u] # 0 => Has(catalogue, installs[u])

\* An acknowledgement is written only while its user holds that exact version,
\* however installs and upgrades of the same user overlap with it, and a fork
\* only from a held version that carries semantics.
PersonalWritesBacked ==
    [][/\ \A a \in acks' \ acks : installs[a[1]] = a[2]
       /\ \A f \in forks' \ forks :
             installs[f[1]] = f[2] /\ catalogue.entry[f[2]] = "package"]_libraryVars

=============================================================================

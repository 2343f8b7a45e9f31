-------------------------- MODULE PersonalConflict --------------------------
(***************************************************************************)
(* The choice between a user's own saved definition and the metric they    *)
(* have installed: semantic/personal_conflict_contract.py and              *)
(* personal_conflict_service.py compare the two, artifacts/                *)
(* personal_conflict_product_service.py keeps the open conflicts and the   *)
(* selections made, and api_conflicts.py ties both to the thread's run.    *)
(* The conflicts and selections live in the process; the library does not. *)
(***************************************************************************)
EXTENDS Library, FiniteSetsExt, Functions, TLC

CONSTANTS Run,           \* runs of a user's thread, 1 .. n
          MaxSelections  \* selections made before a user stops

VARIABLES run,       \* the current run of each user's thread
          saved,     \* the saved and confirmed versions of the user's own definition
          resolving, \* resolve requests in flight
          active,    \* _active_conflicts
          pending,   \* _pending_selections
          made,      \* history: selections validated, by key
          outcomes   \* history: selections that resolved a run, by key

conflictVars == <<run, saved, resolving, active, pending, made, outcomes>>
bindings == <<active, pending, made, outcomes>>

Resting == [at |-> "idle", user |-> "none", run |-> 0, own |-> 0, installed |-> 0]

\* A candidate is identified by its definition and version.  The publisher's
\* own definition is the published one.
OwnCandidate(u, v) == [definition |-> IF u = owner THEN "published" ELSE "own", version |-> v]
InstalledCandidate(v) == [definition |-> "published", version |-> v]

\* resolve_personal_conflict over deduplicated candidates: none, one, or a
\* conflict whose identifier is computed from the identities.
Resolution(candidates) ==
    CASE Cardinality(candidates) = 0 -> "no_authoritative_definition"
      [] Cardinality(candidates) = 1 -> "resolved"
      [] OTHER -> "clarification_required"

\* Mutant: the key forgets the run.
BindingKeyUser(u, r, conflict) == <<u, 1, conflict>>

\* _binding_key; the thread is the user's.
BindingKey(u, r, conflict) == <<u, r, conflict>>

Bind(f, key, value) == (key :> value) @@ f
Unbind(f, key) == Restrict(f, DOMAIN f \ {key})
Count(f, key) == IF key \in DOMAIN f THEN f[key] ELSE 0

ConflictInit ==
    /\ LibraryInit
    /\ run = [u \in User |-> 1]
    /\ saved = [u \in User |-> {}]
    /\ resolving = [r \in Request |-> Resting]
    /\ active = <<>>
    /\ pending = <<>>
    /\ made = <<>>
    /\ outcomes = <<>>

-----------------------------------------------------------------------------

NextRun(u) ==
    /\ run[u] + 1 \in Run
    /\ run' = [run EXCEPT ![u] = @ + 1]
    /\ UNCHANGED <<libraryVars, saved, resolving, bindings>>

SaveOwn(u, v) ==
    /\ saved' = [saved EXCEPT ![u] = @ \cup {v}]
    /\ UNCHANGED <<libraryVars, run, resolving, bindings>>

\* The route's _require_run, then resolve up to its read of the library: the
\* exact version must be among the saved ones.
Resolve(r, u, v) ==
    /\ resolving[r].at = "idle"
    /\ v \in saved[u]
    /\ resolving' = [resolving EXCEPT ![r] =
          [at |-> "install", user |-> u, run |-> run[u], own |-> v, installed |-> 0]]
    /\ UNCHANGED <<libraryVars, run, saved, bindings>>

\* get_install, and what must hold of the version read.  A display-only
\* version fails later, when it is projected.
ReadInstall(r) ==
    LET version == installs[resolving[r].user]
    IN  /\ resolving[r].at = "install"
        /\ resolving' = [resolving EXCEPT ![r] =
              IF version = 0 \/ ~Forkable(catalogue, version) THEN Resting
              ELSE [@ EXCEPT !.at = "project", !.installed = version]]
        /\ UNCHANGED <<libraryVars, run, saved, bindings>>

\* consume_selection
ConsumeSelection(key) ==
    /\ outcomes' = Bind(outcomes, key, Count(outcomes, key) + 1)
    /\ active' = Unbind(active, key)
    /\ pending' = Unbind(pending, key)

\* The rest of resolve runs without suspending: it opens the conflict and, if
\* a selection of that conflict is pending, consumes it.
Project(r) ==
    LET q == resolving[r]
        candidates == {OwnCandidate(q.user, q.own), InstalledCandidate(q.installed)}
        key == BindingKey(q.user, q.run, candidates)
    IN  /\ q.at = "project"
        /\ IF Resolution(candidates) # "clarification_required"
           THEN UNCHANGED <<active, pending, outcomes>>
           ELSE IF key \in DOMAIN pending
           THEN ConsumeSelection(key)
           ELSE /\ active' = Bind(active, key, candidates)
                /\ UNCHANGED <<pending, outcomes>>
        /\ resolving' = [resolving EXCEPT ![r] = Resting]
        /\ UNCHANGED <<libraryVars, run, saved, made>>

\* The selection route: validate_selection, which never suspends.  The client
\* names a conflict it was shown, in whatever run its thread is now.
Select(u, conflict, candidate) ==
    LET key == BindingKey(u, run[u], conflict)
    IN  /\ key \in DOMAIN active
        /\ candidate \in active[key]
        /\ FoldFunction(LAMBDA a, b : a + b, 0, made) < MaxSelections
        /\ pending' = Bind(pending, key, candidate)
        /\ made' = Bind(made, <<u, run[u], conflict>>, Count(made, <<u, run[u], conflict>>) + 1)
        /\ UNCHANGED <<libraryVars, run, saved, resolving, active, outcomes>>

\* The process restarts.  The definitions, conflicts and requests of the
\* process are gone, and so is a process-local library; the fixtures are
\* seeded over what is stored.
Restart ==
    LET stored == IF durable THEN catalogue ELSE EmptyCatalogue(Version)
    IN  /\ catalogue' = IF owner = "fixture" THEN SeedFromFixtures(stored).catalogue ELSE stored
        /\ IF durable THEN UNCHANGED <<installs, stars, acks>>
           ELSE installs' = [u \in User |-> 0] /\ stars' = {} /\ acks' = {}
        /\ forks' = {}
        /\ request' = [r \in Request |-> Idle]
        /\ resolving' = [r \in Request |-> Resting]
        /\ saved' = [u \in User |-> {}]
        /\ active' = <<>>
        /\ pending' = <<>>
        /\ UNCHANGED <<durable, owner, run, made, outcomes>>

-----------------------------------------------------------------------------

ConflictStep ==
    \/ \E u \in User : NextRun(u) \/ (\E v \in Version : SaveOwn(u, v))
    \/ \E r \in Request :
          \/ \E u \in User, v \in Version : Resolve(r, u, v)
          \/ ReadInstall(r)
          \/ Project(r)
    \/ \E key \in DOMAIN active : \E candidate \in key[3] :
          Select(key[1], key[3], candidate)
    \/ Restart

ConflictNext ==
    \/ LibraryNext /\ UNCHANGED conflictVars
    \/ ConflictStep

ConflictSpec == ConflictInit /\ [][ConflictNext]_<<libraryVars, conflictVars>>

-----------------------------------------------------------------------------
(* Properties.                                                             *)

\* "a copied selection can never migrate between runs or users", and one is
\* consumed once: every run is resolved by a selection at most as often as its
\* user made one for that conflict in that very run, counting those pending,
\* whatever requests overlap and whenever the process restarts.
SelectionsScoped ==
    \A key \in DOMAIN outcomes \cup DOMAIN pending :
        Count(outcomes, key) + (IF key \in DOMAIN pending THEN 1 ELSE 0) <= Count(made, key)

=============================================================================

-------------------------- MODULE SemanticRegistry --------------------------
(***************************************************************************)
(* semantic/registry.py, class SemanticRegistry: the in-process release    *)
(* model.  Its docstring says that persistence adapters can mirror this    *)
(* state machine in control PostgreSQL; ReleaseStore is shown to do so.    *)
(*                                                                         *)
(* Every method is synchronous and so one step.                            *)
(***************************************************************************)
EXTENDS Naturals, FiniteSets

CONSTANTS Id,       \* release ids (uuid4)
          Content,  \* the documents of a release
          None      \* no release

VARIABLES releases, \* _releases: a function on the ids in use
          active    \* _active_release_id

registryVars == <<releases, active>>

Init ==
    /\ releases = [i \in {} |-> {}]
    /\ active = None

\* f with k mapped to v.
Put(f, k, v) == [x \in DOMAIN f \cup {k} |-> IF x = k THEN v ELSE f[x]]

\* The release create_draft records: its version is len(_releases) + 1 and its
\* predecessor the release that is active now.
Draft(c) ==
    [version |-> Cardinality(DOMAIN releases) + 1, content |-> c,
     state |-> "draft", previous |-> active]

\* The releases rs once i, which is not the active one, has been activated.
Activated(rs, i) ==
    [x \in DOMAIN rs |->
        CASE x = i -> [rs[x] EXCEPT !.state = "active"]
          [] x # i /\ x = active -> [rs[x] EXCEPT !.state = "retired"]
          [] OTHER -> rs[x]]

CreateDraft(i, c) ==
    /\ i \notin DOMAIN releases
    /\ releases' = Put(releases, i, Draft(c))
    /\ UNCHANGED active

\* A report that is not ok raises and changes nothing.
Validate(i) ==
    /\ i \in DOMAIN releases
    /\ releases[i].state = "draft"
    /\ releases' = [releases EXCEPT ![i].state = "validated"]
    /\ UNCHANGED active

Activate(i) ==
    /\ i \in DOMAIN releases
    /\ releases[i].state = "validated"
    /\ releases' = Activated(releases, i)
    /\ active' = i

\* The target passes through VALIDATED inside the call.
Rollback(i) ==
    /\ i \in DOMAIN releases
    /\ releases[i].state = "retired"
    /\ releases' = Activated(releases, i)
    /\ active' = i

\* create_draft, validate and activate in one call; when the validation fails
\* the call ends as CreateDraft does and the active release stays.
Publish(i, c) ==
    /\ i \notin DOMAIN releases
    /\ releases' = Activated(Put(releases, i, Draft(c)), i)
    /\ active' = i

Next ==
    \E i \in Id :
        \/ \E c \in Content : CreateDraft(i, c) \/ Publish(i, c)
        \/ Validate(i)
        \/ Activate(i)
        \/ Rollback(i)

Spec == Init /\ [][Next]_registryVars
=============================================================================

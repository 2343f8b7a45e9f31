----------------------------- MODULE MCLibrary -----------------------------
(***************************************************************************)
(* The personal library, the conflicts over it and the artifact            *)
(* repository, one at a time: the library alone with overlapping requests, *)
(* conflicts over a library whose installs still change under them, or one *)
(* artifact with overlapping replacements.                                 *)
(***************************************************************************)
EXTENDS PersonalConflict, ArtifactStore

CONSTANTS MaxRows    \* rows that stars, acks, forks and certifications fill

VARIABLE focus       \* the library, an artifact, or the user whose conflicts are followed

Interchangeable == Permutations(Request)

Rows == Cardinality(stars) + Cardinality(acks) + Cardinality(forks)
          + Cardinality(catalogue.certified)
Busy == {r \in Request : request[r].at # "idle"}
Resolving == {r \in Request : resolving[r].at # "idle"}
Saves == {<<u, v>> \in User \X Version : v \in saved[u]}

MCInit ==
    /\ ConflictInit /\ ArtifactInit
    /\ focus \in {"library", "artifact"} \cup User
    /\ focus = "artifact" => durable /\ owner = "fixture"

\* The library alone fills MaxRows rows; a conflict is followed over a library in
\* which only that user saves, installs and runs.
Bounded ==
    CASE focus = "library" -> Rows <= MaxRows
      [] focus = "artifact" -> TRUE
      [] OTHER ->
         /\ Cardinality(Busy) + Cardinality(Resolving) <= 2
         /\ Cardinality(Busy) <= 1
         /\ Saves \subseteq {<<focus, 1>>}
         /\ \A u \in User \ {focus} : run[u] = 1 /\ installs[u] = 0
         /\ \A r \in Request : request[r].user \in {focus, "none"}
         /\ stars \cup acks \cup forks \cup catalogue.withdrawn = {}
         /\ catalogue.certified = IF owner = "fixture" THEN {1} ELSE {}

MCNext ==
    /\ \/ focus = "library" /\ LibraryNext /\ UNCHANGED <<conflictVars, artifactVars>>
       \/ focus \in User /\ ConflictNext /\ UNCHANGED artifactVars
       \/ focus = "artifact" /\ ArtifactNext /\ UNCHANGED <<libraryVars, conflictVars>>
    /\ UNCHANGED focus
    /\ Bounded'

MCSpec == MCInit /\ [][MCNext]_<<libraryVars, conflictVars, artifactVars, focus>>
=============================================================================

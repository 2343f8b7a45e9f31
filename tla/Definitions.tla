----------------------------- MODULE Definitions -----------------------------
(***************************************************************************)
(* The life of one custom definition: artifacts/service.py (the definition *)
(* store), artifacts/publication_service.py (publication and certification *)
(* on top of it) and the durable catalogue they write to.                  *)
(*                                                                         *)
(* No method touches more than one definition, and all of them refuse a    *)
(* caller who is not the owner, so one definition and its owner's requests *)
(* are the whole picture.  The store keeps everything in the process and   *)
(* its methods never suspend: each is one step.  A publication suspends at *)
(* every statement it sends to the catalogue, and other requests run       *)
(* meanwhile.                                                              *)
(***************************************************************************)
EXTENDS Naturals

CONSTANTS Calculation,   \* calculations a definition may hold
          Closable,      \* those mark_semantic_closed accepts
          Title,
          Request,       \* publish and certify requests in flight
          MaxVersion     \* bound on the versions of the definition

ASSUME DefinitionAssumption ==
    /\ Closable \subseteq Calculation
    /\ "none" \notin Calculation
    /\ MaxVersion \in Nat \ {0}

VARIABLES draft,      \* _drafts and current_version, which change together
          versions,   \* _versions: the confirmed versions
          lifecycle,  \* _lifecycle, per version
          axes,       \* the axes of the definition
          published,  \* the catalogue's immutable versions
          pointer,    \* its current version, 0 while there is none
          certified,  \* versions certified in the catalogue
          request,    \* where each request is and what it has read
          saved       \* history: versions that have been saved

vars == <<draft, versions, lifecycle, axes, published, pointer, certified,
          request, saved>>

store == <<draft, versions, lifecycle, axes, saved>>
catalogue == <<published, pointer, certified>>

Version == 1 .. MaxVersion
Content == [calculation : Calculation, title : Title]
NoContent == [calculation |-> "none", title |-> "none"]

Fresh == [confirmation |-> "DRAFT", retention |-> "SESSION"]

\* DefinitionAxes() of a new draft, revision or fork.
FreshAxes ==
    [confirmation |-> "DRAFT", retention |-> "SESSION",
     publication |-> "UNPUBLISHED", certification |-> "UNCERTIFIED"]

Idle == [at |-> "idle", version |-> 0, content |-> NoContent, closed |-> FALSE, read |-> 0]

\* create_draft and create_fork: version 1, not closed.
Init ==
    /\ \E c \in Content : draft = [version |-> 1, content |-> c, closed |-> FALSE]
    /\ versions = [v \in Version |-> NoContent]
    /\ lifecycle = [v \in Version |-> Fresh]
    /\ axes = FreshAxes
    /\ published = [v \in Version |-> NoContent]
    /\ pointer = 0
    /\ certified = {}
    /\ request = [r \in Request |-> Idle]
    /\ saved = {}

Confirmed == axes.confirmation = "CONFIRMED"

-----------------------------------------------------------------------------
(* The definition store.                                                   *)

\* The new working copy: another calculation has not been proved closed.
Edited(c) ==
    [draft EXCEPT !.content = c,
                  !.closed = @ /\ c.calculation = draft.content.calculation]

\* Mutant: a confirmed version may be edited.
UpdateDraftAnyTime(c) ==
    /\ draft' = Edited(c)
    /\ UNCHANGED <<versions, lifecycle, axes, saved, catalogue, request>>

UpdateDraft(c) ==
    /\ ~Confirmed
    /\ draft' = Edited(c)
    /\ UNCHANGED <<versions, lifecycle, axes, saved, catalogue, request>>

MarkSemanticClosed ==
    /\ ~Confirmed
    /\ draft.content.calculation \in Closable
    /\ draft' = [draft EXCEPT !.closed = TRUE]
    /\ UNCHANGED <<versions, lifecycle, axes, saved, catalogue, request>>

\* Mutant: confirming starts all axes of the version afresh.
ConfirmResetsAxes ==
    /\ draft.closed
    /\ versions' = [versions EXCEPT ![draft.version] = draft.content]
    /\ lifecycle' = [lifecycle EXCEPT ![draft.version] =
                        [confirmation |-> "CONFIRMED", retention |-> "SESSION"]]
    /\ axes' = [axes EXCEPT !.confirmation = "CONFIRMED", !.retention = "SESSION"]
    /\ UNCHANGED <<draft, saved, catalogue, request>>

\* confirm, which a confirmed definition accepts again.
Confirm ==
    /\ draft.closed
    /\ versions' = [versions EXCEPT ![draft.version] = draft.content]
    /\ lifecycle' = [lifecycle EXCEPT ![draft.version] =
                        [confirmation |-> "CONFIRMED", retention |-> "SESSION"]]
    /\ axes' = [axes EXCEPT !.confirmation = "CONFIRMED"]
    /\ UNCHANGED <<draft, saved, catalogue, request>>

Save ==
    /\ Confirmed
    /\ draft.closed
    /\ axes' = [axes EXCEPT !.retention = "SAVED"]
    /\ lifecycle' = [lifecycle EXCEPT ![draft.version] =
                        [confirmation |-> "CONFIRMED", retention |-> "SAVED"]]
    /\ saved' = saved \cup {draft.version}
    /\ UNCHANGED <<draft, versions, catalogue, request>>

\* create_revision: the next version starts as an open draft with fresh axes.
CreateRevision ==
    /\ Confirmed
    /\ draft.version < MaxVersion
    /\ draft' = [draft EXCEPT !.version = @ + 1, !.closed = FALSE]
    /\ lifecycle' = [lifecycle EXCEPT ![draft.version + 1] = Fresh]
    /\ axes' = FreshAxes
    /\ UNCHANGED <<versions, saved, catalogue, request>>

-----------------------------------------------------------------------------
(* PublicationService.publish and the transaction of the catalogue.        *)

At(r, where) == request[r].at = where
Goto(r, where) == request' = [request EXCEPT ![r].at = where]

\* The request is answered, whatever the answer is.
Answered(r) == request' = [request EXCEPT ![r] = Idle]

\* get_exact_version: a confirmed version, or the draft.
Publish(r, v) ==
    /\ At(r, "idle")
    /\ v <= draft.version
    /\ request' = [request EXCEPT ![r] =
          [at |-> "lookup", version |-> v, read |-> 0,
           content |-> IF versions[v] # NoContent THEN versions[v] ELSE draft.content,
           closed |-> versions[v] # NoContent \/ draft.closed]]
    /\ UNCHANGED <<store, catalogue>>

\* The version's own lifecycle decides; the content was read earlier.
Eligible(q) ==
    /\ lifecycle[q.version].confirmation = "CONFIRMED"
    /\ lifecycle[q.version].retention = "SAVED"
    /\ q.closed

\* The catalogue answered: not published yet, and eligible.
CheckEligible(r) ==
    /\ At(r, "lookup")
    /\ \/ /\ published[request[r].version] = NoContent
          /\ Eligible(request[r])
          /\ Goto(r, "insert")
       \/ /\ published[request[r].version] # NoContent \/ ~Eligible(request[r])
          /\ Answered(r)
    /\ UNCHANGED <<store, catalogue>>

\* The transaction begins: it reads the versions and the pointer.
ReadCatalogue(r) ==
    /\ At(r, "insert")
    /\ IF published[request[r].version] # NoContent
       THEN Answered(r)
       ELSE request' = [request EXCEPT ![r].at = "write", ![r].read = pointer]
    /\ UNCHANGED <<store, catalogue>>

\* ON CONFLICT ... WHERE current_version < EXCLUDED.current_version
Advance(q) ==
    IF (q.read = 0 \/ q.version > q.read) /\ pointer < q.version
    THEN q.version ELSE pointer

\* It inserts the version, unless somebody else has, and moves the pointer;
\* or it is rolled back; or it commits and the answer is lost.
WriteCatalogue(r) ==
    LET q == request[r]
    IN  /\ At(r, "write")
        /\ \/ /\ published[q.version] = NoContent
              /\ published' = [published EXCEPT ![q.version] = q.content]
              /\ pointer' = Advance(q)
              /\ Goto(r, "project") \/ Answered(r)
           \/ /\ Answered(r)
              /\ UNCHANGED <<published, pointer>>
        /\ UNCHANGED <<store, certified>>

\* Saved and confirmed is what project_published demands of the axes.
Projectable == axes.confirmation = "CONFIRMED" /\ axes.retention = "SAVED"

\* project_published: the axes follow if the version is still current.
ProjectPublished(r) ==
    /\ At(r, "project")
    /\ axes' = IF request[r].version = draft.version /\ Projectable
               THEN [axes EXCEPT !.publication = "PUBLISHED", !.certification = "UNCERTIFIED"]
               ELSE axes
    /\ Answered(r)
    /\ UNCHANGED <<draft, versions, lifecycle, saved, catalogue>>

-----------------------------------------------------------------------------
(* ProductLibraryService.certify by the administrator.                     *)

Certify(r, v) ==
    /\ At(r, "idle")
    /\ published[v] # NoContent
    /\ request' = [request EXCEPT ![r] =
          [at |-> "certify", version |-> v, read |-> 0,
           content |-> NoContent, closed |-> FALSE]]
    /\ UNCHANGED <<store, catalogue>>

WriteCertification(r) ==
    /\ At(r, "certify")
    /\ certified' = certified \cup {request[r].version}
    /\ Goto(r, "project_certified")
    /\ UNCHANGED <<store, published, pointer>>

\* project_certified: only if the version is still current and its axes say
\* it is published; otherwise it returns or raises.
ProjectCertified(r) ==
    /\ At(r, "project_certified")
    /\ axes' = IF request[r].version = draft.version /\ axes.publication = "PUBLISHED"
               THEN [axes EXCEPT !.certification = "CERTIFIED"] ELSE axes
    /\ Answered(r)
    /\ UNCHANGED <<draft, versions, lifecycle, saved, catalogue>>

-----------------------------------------------------------------------------

StoreStep ==
    \/ \E c \in Content : UpdateDraft(c)
    \/ MarkSemanticClosed \/ Confirm \/ Save \/ CreateRevision

RequestStep(r) ==
    \/ \E v \in Version : Publish(r, v) \/ Certify(r, v)
    \/ CheckEligible(r) \/ ReadCatalogue(r) \/ WriteCatalogue(r)
    \/ ProjectPublished(r) \/ WriteCertification(r) \/ ProjectCertified(r)

Next == StoreStep \/ \E r \in Request : RequestStep(r)

Spec == Init /\ [][Next]_vars

-----------------------------------------------------------------------------
(* Properties.                                                             *)

Requests ==
    [at : {"idle", "lookup", "insert", "write", "project", "certify", "project_certified"},
     version : 0 .. MaxVersion, content : Content \cup {NoContent},
     closed : BOOLEAN, read : 0 .. MaxVersion]

\* Type correctness of the store, the catalogue and the requests.
TypeOK ==
    /\ draft \in [version : Version, content : Content, closed : BOOLEAN]
    /\ versions \in [Version -> Content \cup {NoContent}]
    /\ lifecycle \in [Version -> [confirmation : {"DRAFT", "CONFIRMED"},
                                  retention : {"SESSION", "SAVED"}]]
    /\ axes \in [confirmation : {"DRAFT", "CONFIRMED"}, retention : {"SESSION", "SAVED"},
                 publication : {"UNPUBLISHED", "PUBLISHED"},
                 certification : {"UNCERTIFIED", "CERTIFIED"}]
    /\ published \in [Version -> Content \cup {NoContent}]
    /\ pointer \in 0 .. MaxVersion
    /\ certified \subseteq Version
    /\ request \in [Request -> Requests]
    /\ saved \subseteq Version

\* The rules of DefinitionAxes.validate_axes, which model_copy does not run:
\* they hold because of the order the methods impose.
AxesValid ==
    /\ axes.retention = "SAVED" => axes.confirmation = "CONFIRMED"
    /\ axes.publication = "PUBLISHED" => axes.retention = "SAVED"
    /\ axes.certification = "CERTIFIED" => axes.publication = "PUBLISHED"

\* The axes claim no publication and no certification of the current version
\* that the catalogue does not have, however requests for older versions
\* overlap with revisions.
AxesBacked ==
    /\ axes.publication = "PUBLISHED" => published[draft.version] # NoContent
    /\ axes.certification = "CERTIFIED" => draft.version \in certified

\* project_published finds the axes it demands: a publication that has been
\* committed never fails afterwards.
ProjectionNeverFails ==
    \A r \in Request :
        At(r, "project") /\ request[r].version = draft.version => Projectable

\* The catalogue holds only versions the owner has saved.
PublishedWereSaved ==
    \A v \in Version : published[v] # NoContent => v \in saved

\* The catalogue's pointer names its newest version, in whatever order
\* concurrent publications read and write it.
PointerIsNewest ==
    /\ pointer # 0 => published[pointer] # NoContent
    /\ \A v \in Version : published[v] # NoContent => v <= pointer

\* Definitions and their publications stay in order: the axes show a valid stage
\* of the current version that the catalogue backs, the catalogue holds saved
\* versions only under a pointer to the newest, and a publication that was
\* committed can always be projected onto the axes.
PublicationSound ==
    /\ ProjectionNeverFails
    /\ AxesValid
    /\ AxesBacked
    /\ PublishedWereSaved
    /\ PointerIsNewest

\* A confirmed version keeps its content, and so does a published one.
VersionsImmutable ==
    [][\A v \in Version :
          /\ versions[v] # NoContent => versions'[v] = versions[v]
          /\ published[v] # NoContent => published'[v] = published[v]]_vars

\* The store's records agree: a version is confirmed with the content of the
\* draft it came from, versions to come have no record, and the axes of a
\* saved current version say so.
StoreConsistent ==
    /\ \A v \in Version : v > draft.version => versions[v] = NoContent
    /\ IF Confirmed THEN versions[draft.version] = draft.content /\ draft.closed
                    ELSE versions[draft.version] = NoContent
    /\ \A v \in Version : lifecycle[v].retention = "SAVED" => v \in saved
    /\ \A v \in saved : v <= draft.version
    /\ draft.version \in saved => Projectable

\* What a request has established before it suspended still holds when it
\* goes on.
RequestsConsistent ==
    \A r \in Request :
        LET q == request[r]
        IN  /\ q.at # "idle" => q.version \in Version
            /\ q.at \in {"lookup", "insert", "write"} => q.content \in Content
            /\ q.at \in {"insert", "write", "project"} => q.version \in saved
            /\ q.at \in {"project", "certify", "project_certified"}
                  => published[q.version] # NoContent
            /\ q.at = "project_certified" => q.version \in certified
            /\ q.read <= pointer

\* The inductive invariant of a definition and its publications.
DefinitionInv ==
    /\ TypeOK
    /\ AxesValid
    /\ AxesBacked
    /\ PublishedWereSaved
    /\ PointerIsNewest
    /\ StoreConsistent
    /\ RequestsConsistent

\* What is published is the exact version (stated by PublicationService): the
\* package has the content of the confirmed version it names.
PublishedIsExact ==
    \A v \in Version : published[v] # NoContent => published[v] = versions[v]
=============================================================================

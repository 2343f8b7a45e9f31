-------------------------- MODULE DefinitionsProofs --------------------------
(***************************************************************************)
(* Proofs about Definitions: the invariant of a definition and its         *)
(* publications, for every number of versions and of requests in flight.   *)
(***************************************************************************)
EXTENDS Definitions, TLAPS

\* The record that stands for "no version" is not a content.
LEMMA NoContentIsNone == NoContent \notin Content
BY DefinitionAssumption DEF NoContent, Content

\* A definition starts in order.
LEMMA InitInv == Init => DefinitionInv
<1> SUFFICES ASSUME Init PROVE DefinitionInv
  OBVIOUS
<1>1. TypeOK
  BY DefinitionAssumption
     DEF Init, TypeOK, Version, FreshAxes, Fresh, Idle, Requests
<1>2. AxesValid /\ AxesBacked
  BY DEF Init, AxesValid, AxesBacked, FreshAxes
<1>3. PublishedWereSaved /\ PointerIsNewest
  BY DEF Init, PublishedWereSaved, PointerIsNewest
<1>4. StoreConsistent
  BY <1>1 DEF Init, StoreConsistent, FreshAxes, Fresh, Confirmed, TypeOK
<1>5. RequestsConsistent
  BY DEF Init, RequestsConsistent, Idle
<1>6. QED BY <1>1, <1>2, <1>3, <1>4, <1>5 DEF DefinitionInv

-----------------------------------------------------------------------------
(* The store: requests and catalogue stand still.                          *)

\* What a request relies on survives a step of the store, which forgets no
\* saved version.
LEMMA RequestsUndisturbed ==
    ASSUME RequestsConsistent, UNCHANGED <<catalogue, request>>, saved \subseteq saved'
    PROVE  RequestsConsistent'
BY DEF RequestsConsistent, catalogue

\* The catalogue's own invariants survive it too.
LEMMA CatalogueUndisturbed ==
    ASSUME PublishedWereSaved, PointerIsNewest, UNCHANGED catalogue, saved \subseteq saved'
    PROVE  PublishedWereSaved' /\ PointerIsNewest'
BY DEF PublishedWereSaved, PointerIsNewest, catalogue

\* Editing the draft keeps the invariant: it touches no confirmed version.
LEMMA UpdateDraftInv ==
    ASSUME DefinitionInv, NEW c \in Content, UpdateDraft(c)
    PROVE  DefinitionInv'
<1> USE DEF DefinitionInv, UpdateDraft
<1>1. draft' \in [version : Version, content : Content, closed : BOOLEAN]
      /\ draft'.version = draft.version
  BY Zenon DEF Edited, TypeOK
<1>2. TypeOK'
  BY <1>1 DEF TypeOK, catalogue
<1>3. AxesValid' /\ AxesBacked'
  BY <1>1 DEF AxesValid, AxesBacked, catalogue
<1>4. StoreConsistent'
  BY <1>1 DEF StoreConsistent, Confirmed, Projectable
<1>5. QED BY <1>2, <1>3, <1>4, RequestsUndisturbed, CatalogueUndisturbed

\* Closing the draft keeps the invariant: only its flag changes.
LEMMA MarkSemanticClosedInv ==
    ASSUME DefinitionInv, MarkSemanticClosed
    PROVE  DefinitionInv'
<1> USE DEF DefinitionInv, MarkSemanticClosed
<1>1. draft' \in [version : Version, content : Content, closed : BOOLEAN]
      /\ draft'.version = draft.version
  BY Zenon DEF TypeOK
<1>2. TypeOK'
  BY <1>1 DEF TypeOK, catalogue
<1>3. AxesValid' /\ AxesBacked'
  BY <1>1 DEF AxesValid, AxesBacked, catalogue
<1>4. StoreConsistent'
  BY <1>1 DEF StoreConsistent, Confirmed, Projectable
<1>5. QED BY <1>2, <1>3, <1>4, RequestsUndisturbed, CatalogueUndisturbed

\* confirm keeps the invariant: the version it records is the draft's.
LEMMA ConfirmInv ==
    ASSUME DefinitionInv, Confirm
    PROVE  DefinitionInv'
<1> USE DEF DefinitionInv, Confirm
<1>1. TypeOK'
  BY DEF TypeOK, catalogue
<1>2. AxesValid' /\ AxesBacked'
  BY DEF TypeOK, AxesValid, AxesBacked, catalogue
<1>3. StoreConsistent'
  <2>1. \A v \in Version : v > draft.version => v # draft.version
    BY DefinitionAssumption DEF TypeOK, Version
  <2>2. Confirmed' /\ versions'[draft.version] = draft.content /\ draft.closed
    BY DEF TypeOK, Confirmed
  <2>3. \A v \in Version : v > draft.version => versions'[v] = NoContent
    BY <2>1 DEF TypeOK, StoreConsistent
  <2>4. \A v \in Version : lifecycle'[v].retention = "SAVED" => v \in saved
    BY DEF TypeOK, StoreConsistent
  <2>5. draft.version \in saved => Projectable'
    BY DEF TypeOK, StoreConsistent, Projectable
  <2>6. QED BY <2>2, <2>3, <2>4, <2>5 DEF StoreConsistent
<1>4. QED BY <1>1, <1>2, <1>3, RequestsUndisturbed, CatalogueUndisturbed

\* save keeps the invariant: the version it saves is the confirmed one.
LEMMA SaveInv ==
    ASSUME DefinitionInv, Save
    PROVE  DefinitionInv'
<1> USE DEF DefinitionInv, Save
<1>1. TypeOK'
  BY DEF TypeOK, catalogue
<1>2. AxesValid' /\ AxesBacked'
  BY DEF TypeOK, AxesValid, AxesBacked, Confirmed, catalogue
<1>3. StoreConsistent'
  BY DEF TypeOK, StoreConsistent, Confirmed, Projectable, Version
<1>4. QED BY <1>1, <1>2, <1>3, RequestsUndisturbed, CatalogueUndisturbed

\* create_revision keeps the invariant: the next draft has a fresh version.
LEMMA CreateRevisionInv ==
    ASSUME DefinitionInv, CreateRevision
    PROVE  DefinitionInv'
<1> USE DEF DefinitionInv, CreateRevision
<1>1. /\ draft' \in [version : Version, content : Content, closed : BOOLEAN]
      /\ draft'.version = draft.version + 1
  <2>1. draft.version + 1 \in Version
    BY DefinitionAssumption DEF TypeOK, Version
  <2>2. QED BY Zenon, <2>1 DEF TypeOK
<1>2. TypeOK'
  BY Zenon, <1>1 DEF TypeOK, Fresh, FreshAxes, catalogue
<1>3. AxesValid' /\ AxesBacked'
  BY DEF AxesValid, AxesBacked, FreshAxes
<1>4. StoreConsistent'
  BY <1>1, DefinitionAssumption
     DEF TypeOK, StoreConsistent, Confirmed, Projectable, Version, Fresh, FreshAxes
<1>5. QED BY <1>2, <1>3, <1>4, RequestsUndisturbed, CatalogueUndisturbed

-----------------------------------------------------------------------------
(* The requests.                                                           *)

\* Nothing a request does while it reads disturbs the store or the catalogue.
LEMMA OnlyRequests ==
    ASSUME DefinitionInv, UNCHANGED <<store, catalogue>>,
           request' \in [Request -> Requests], RequestsConsistent'
    PROVE  DefinitionInv'
<1> USE DEF DefinitionInv, store, catalogue
<1>1. TypeOK'
  BY DEF TypeOK
<1>2. AxesValid' /\ AxesBacked' /\ PublishedWereSaved' /\ PointerIsNewest'
  BY DEF AxesValid, AxesBacked, PublishedWereSaved, PointerIsNewest
<1>3. StoreConsistent'
  BY DEF StoreConsistent, Confirmed, Projectable
<1>4. QED BY <1>1, <1>2, <1>3

\* What RequestsConsistent says of one request.
InOrder(q, been, pub, cert, newest) ==
    /\ q.at # "idle" => q.version \in Version
    /\ q.at \in {"lookup", "insert", "write"} => q.content \in Content
    /\ q.at \in {"insert", "write", "project"} => q.version \in been
    /\ q.at \in {"project", "certify", "project_certified"}
          => pub[q.version] # NoContent
    /\ q.at = "project_certified" => q.version \in cert
    /\ q.read <= newest

\* A step that moves one request and only adds to the catalogue keeps the
\* others in order.
LEMMA OneRequest ==
    ASSUME DefinitionInv, NEW r \in Request, NEW q \in Requests,
           request' = [request EXCEPT ![r] = q],
           InOrder(q, saved', published', certified', pointer'),
           saved' = saved, certified \subseteq certified',
           \A v \in Version : published[v] # NoContent => published'[v] # NoContent,
           pointer' \in Nat, pointer <= pointer'
    PROVE  request' \in [Request -> Requests] /\ RequestsConsistent'
<1>1. request' \in [Request -> Requests]
  BY DEF DefinitionInv, TypeOK
<1>2. ASSUME NEW s \in Request PROVE InOrder(request'[s], saved', published', certified', pointer')
  <2>1. CASE s = r
    <3>1. request'[s] = q
      BY <2>1 DEF DefinitionInv, TypeOK
    <3>2. QED BY <3>1 DEF InOrder
  <2>2. CASE s # r
    <3>1. request'[s] = request[s]
      BY <2>2 DEF DefinitionInv, TypeOK
    <3>2. InOrder(request[s], saved, published, certified, pointer)
      BY DEF DefinitionInv, RequestsConsistent, InOrder
    <3>3. request[s].read \in Nat /\ pointer \in Nat
      BY DEF DefinitionInv, TypeOK, Requests
    <3>4. request[s].read <= pointer'
      BY <3>2, <3>3 DEF InOrder
    <3>5. QED BY <3>1, <3>2, <3>4 DEF InOrder
  <2>3. QED BY <2>1, <2>2
<1>3. QED BY <1>1, <1>2 DEF RequestsConsistent, InOrder

\* A step that moves one request and touches neither store nor catalogue.
LEMMA OneRequestOnly ==
    ASSUME DefinitionInv, NEW r \in Request, NEW q \in Requests,
           request' = [request EXCEPT ![r] = q], UNCHANGED <<store, catalogue>>,
           InOrder(q, saved, published, certified, pointer)
    PROVE  DefinitionInv'
<1>1. /\ saved' = saved /\ certified' = certified /\ published' = published
      /\ pointer' = pointer
  BY DEF store, catalogue
<1>2. pointer \in Nat
  BY DEF DefinitionInv, TypeOK
<1>3. InOrder(q, saved', published', certified', pointer')
  BY <1>1
<1>4. pointer' \in Nat /\ pointer <= pointer' /\ certified \subseteq certified'
      /\ \A v \in Version : published[v] # NoContent => published'[v] # NoContent
  BY <1>1, <1>2
<1>5. request' \in [Request -> Requests] /\ RequestsConsistent'
  BY Zenon, <1>1, <1>3, <1>4, OneRequest
<1>6. QED BY <1>5, OnlyRequests

\* An answered request is in order, whatever happened to the catalogue.
LEMMA IdleInOrder ==
    ASSUME pointer \in Nat
    PROVE  Idle \in Requests /\ InOrder(Idle, saved, published, certified, pointer)
BY DefinitionAssumption DEF Idle, Requests, InOrder

\* A request that changes its place keeps what it has read.
LEMMA GotoIs ==
    ASSUME DefinitionInv, NEW r \in Request,
           NEW where \in {"insert", "project", "project_certified"}, Goto(r, where)
    PROVE  LET q == [request[r] EXCEPT !.at = where]
           IN  /\ request' = [request EXCEPT ![r] = q]
               /\ q \in Requests /\ q.at = where
               /\ q.version = request[r].version /\ q.content = request[r].content
               /\ q.read = request[r].read
BY ZenonT(30) DEF DefinitionInv, TypeOK, Requests, Goto

\* Facts about the catalogue that every step of a request starts from.
LEMMA Basics ==
    ASSUME DefinitionInv, NEW r \in Request
    PROVE  /\ pointer \in Nat /\ request[r] \in Requests
           /\ InOrder(request[r], saved, published, certified, pointer)
           /\ request[r].read \in Nat
BY DEF DefinitionInv, TypeOK, RequestsConsistent, InOrder, Requests

\* A publish request that enters keeps the invariant: it holds what it has read.
LEMMA PublishInv ==
    ASSUME DefinitionInv, NEW r \in Request, NEW v \in Version, Publish(r, v)
    PROVE  DefinitionInv'
<1> DEFINE q == [at |-> "lookup", version |-> v, read |-> 0,
                 content |-> IF versions[v] # NoContent THEN versions[v] ELSE draft.content,
                 closed |-> versions[v] # NoContent \/ draft.closed]
<1>1. q.content \in Content /\ q.closed \in BOOLEAN
  BY DEF DefinitionInv, TypeOK
<1>2. request' = [request EXCEPT ![r] = q] /\ UNCHANGED <<store, catalogue>>
  BY DEF Publish
<1>3. q \in Requests /\ q.at = "lookup" /\ q.version = v /\ q.read = 0
  BY <1>1, DefinitionAssumption DEF Requests, Version
<1> HIDE DEF q
<1>4. InOrder(q, saved, published, certified, pointer)
  BY <1>1, <1>3, Basics DEF InOrder
<1>5. QED BY Zenon, <1>2, <1>3, <1>4, OneRequestOnly

\* A request that ends without a write keeps the invariant.
LEMMA AnsweredInv ==
    ASSUME DefinitionInv, NEW r \in Request, Answered(r), UNCHANGED <<store, catalogue>>
    PROVE  DefinitionInv'
<1>1. InOrder(Idle, saved, published, certified, pointer) /\ Idle \in Requests
  BY Basics, IdleInOrder
<1>2. QED BY Zenon, <1>1, OneRequestOnly DEF Answered

\* The eligibility check keeps the invariant: a request goes on only with a
\* version that is saved.
LEMMA CheckEligibleInv ==
    ASSUME DefinitionInv, NEW r \in Request, CheckEligible(r)
    PROVE  DefinitionInv'
<1>1. CASE Eligible(request[r]) /\ Goto(r, "insert")
  <2> DEFINE q == [request[r] EXCEPT !.at = "insert"]
  <2>1. /\ request' = [request EXCEPT ![r] = q]
        /\ q \in Requests /\ q.at = "insert"
        /\ q.version = request[r].version /\ q.content = request[r].content
        /\ q.read = request[r].read
    BY Zenon, <1>1, GotoIs
  <2>2. UNCHANGED <<store, catalogue>> /\ At(r, "lookup")
    BY DEF CheckEligible
  <2>3. request[r].version \in Version /\ request[r].content \in Content
    BY <2>2, Basics DEF InOrder, At
  <2>4. request[r].version \in saved
    BY <1>1, <2>3 DEF Eligible, DefinitionInv, StoreConsistent
  <2> HIDE DEF q
  <2>5. InOrder(q, saved, published, certified, pointer)
    BY <2>1, <2>3, <2>4, Basics DEF InOrder
  <2>6. QED BY Zenon, <2>1, <2>2, <2>5, OneRequestOnly
<1>2. CASE Answered(r)
  BY <1>2, AnsweredInv DEF CheckEligible
<1>3. QED BY <1>1, <1>2 DEF CheckEligible

\* The read of the catalogue keeps the invariant: a pointer that is read can only
\* be overtaken.
LEMMA ReadCatalogueInv ==
    ASSUME DefinitionInv, NEW r \in Request, ReadCatalogue(r)
    PROVE  DefinitionInv'
<1>1. CASE request' = [request EXCEPT ![r].at = "write", ![r].read = pointer]
  <2> DEFINE q == [request[r] EXCEPT !.at = "write", !.read = pointer]
  <2>1. request' = [request EXCEPT ![r] = q]
    BY Zenon, <1>1 DEF DefinitionInv, TypeOK, Requests
  <2>2. /\ q \in Requests /\ q.at = "write"
        /\ q.version = request[r].version /\ q.content = request[r].content
        /\ q.read = pointer
    BY ZenonT(30) DEF DefinitionInv, TypeOK, Requests
  <2>3. UNCHANGED <<store, catalogue>> /\ At(r, "insert")
    BY DEF ReadCatalogue
  <2> HIDE DEF q
  <2>4. InOrder(q, saved, published, certified, pointer)
    BY <2>2, <2>3, Basics DEF InOrder, At
  <2>5. QED BY Zenon, <2>1, <2>2, <2>3, <2>4, OneRequestOnly
<1>2. CASE Answered(r)
  BY <1>2, AnsweredInv DEF ReadCatalogue
<1>3. QED BY <1>1, <1>2 DEF ReadCatalogue

\* A certify request that enters keeps the invariant.
LEMMA CertifyInv ==
    ASSUME DefinitionInv, NEW r \in Request, NEW v \in Version, Certify(r, v)
    PROVE  DefinitionInv'
<1> DEFINE q == [at |-> "certify", version |-> v, read |-> 0,
                 content |-> NoContent, closed |-> FALSE]
<1>1. request' = [request EXCEPT ![r] = q] /\ UNCHANGED <<store, catalogue>>
      /\ published[v] # NoContent
  BY DEF Certify
<1>2. q \in Requests /\ q.at = "certify" /\ q.version = v /\ q.read = 0
  BY DefinitionAssumption DEF Requests, Version
<1> HIDE DEF q
<1>3. InOrder(q, saved, published, certified, pointer)
  BY <1>1, <1>2, Basics DEF InOrder
<1>4. QED BY Zenon, <1>1, <1>2, <1>3, OneRequestOnly

\* A publication that commits: the version is new, so only the pointer can be
\* affected by publications that went on meanwhile.
LEMMA WriteCatalogueInv ==
    ASSUME DefinitionInv, NEW r \in Request, WriteCatalogue(r)
    PROVE  DefinitionInv'
<1> DEFINE q == request[r]
<1>1. CASE /\ published[q.version] = NoContent
           /\ published' = [published EXCEPT ![q.version] = q.content]
           /\ pointer' = Advance(q)
           /\ Goto(r, "project") \/ Answered(r)
  <2>1. /\ q.version \in Version /\ q.content \in Content /\ q.version \in saved
        /\ q.read \in Nat /\ q.read <= pointer /\ pointer \in 0 .. MaxVersion
        /\ At(r, "write") /\ UNCHANGED <<store, certified>>
    BY Basics DEF WriteCatalogue, InOrder, At, DefinitionInv, TypeOK
  <2>2. /\ published' \in [Version -> Content \cup {NoContent}]
        /\ published'[q.version] # NoContent
        /\ \A v \in Version : v # q.version => published'[v] = published[v]
    BY <1>1, <2>1, NoContentIsNone DEF DefinitionInv, TypeOK
  <2>3. /\ pointer' \in 0 .. MaxVersion /\ pointer <= pointer'
        /\ q.version <= pointer' /\ (pointer' = pointer \/ pointer' = q.version)
    BY <1>1, <2>1, DefinitionAssumption DEF Advance, Version
  <2>4. PointerIsNewest'
    <3>1. ASSUME NEW v \in Version, published'[v] # NoContent PROVE v <= pointer'
      <4>1. CASE v = q.version
        BY <4>1, <2>3
      <4>2. CASE v # q.version
        <5>1. v <= pointer
          BY <3>1, <4>2, <2>2 DEF DefinitionInv, PointerIsNewest
        <5>2. QED BY <5>1, <2>1, <2>3, DefinitionAssumption DEF Version
      <4>3. QED BY <4>1, <4>2
    <3>2. pointer' # 0 => published'[pointer'] # NoContent
      <4>1. CASE pointer' = q.version
        BY <4>1, <2>2
      <4>2. CASE pointer' # q.version /\ pointer' # 0
        <5>1. pointer' = pointer /\ pointer \in Version
          BY <4>2, <2>1, <2>3, DefinitionAssumption DEF Version
        <5>2. published[pointer] # NoContent
          BY <5>1, <4>2 DEF DefinitionInv, PointerIsNewest
        <5>3. QED BY <5>1, <5>2, <4>2, <2>2
      <4>3. QED BY <4>1, <4>2
    <3>3. QED BY <3>1, <3>2 DEF PointerIsNewest
  <2>5. PublishedWereSaved'
    BY <2>1, <2>2 DEF DefinitionInv, PublishedWereSaved, store
  <2>6. \A v \in Version : published[v] # NoContent => published'[v] # NoContent
    BY <2>2
  <2>7. request' \in [Request -> Requests] /\ RequestsConsistent'
    <3>1. saved' = saved /\ certified' = certified /\ pointer' \in Nat
      BY <2>1, <2>3 DEF store
    <3>2. CASE Goto(r, "project")
      <4> DEFINE p == [request[r] EXCEPT !.at = "project"]
      <4>1. /\ request' = [request EXCEPT ![r] = p]
            /\ p \in Requests /\ p.at = "project"
            /\ p.version = q.version /\ p.read = q.read
        BY Zenon, <3>2, GotoIs
      <4> HIDE DEF p
      <4>2. p.read <= pointer'
        BY <4>1, <2>1, <2>3, <3>1
      <4> HIDE DEF q
      <4>3. InOrder(p, saved', published', certified', pointer')
        BY <4>1, <4>2, <2>1, <2>2, <3>1 DEF InOrder
      <4>4. QED BY Zenon, <4>1, <4>3, <2>3, <2>6, <3>1, OneRequest
    <3>3. CASE Answered(r)
      <4>1. Idle \in Requests /\ InOrder(Idle, saved', published', certified', pointer')
        BY <3>1, DefinitionAssumption DEF Idle, Requests, InOrder
      <4>2. QED BY Zenon, <4>1, <3>3, <2>3, <2>6, <3>1, OneRequest DEF Answered
    <3>4. QED BY <1>1, <3>2, <3>3
  <2>8. TypeOK'
    BY <2>1, <2>2, <2>3, <2>7 DEF DefinitionInv, TypeOK, store
  <2>9. AxesValid' /\ AxesBacked' /\ StoreConsistent'
    BY <2>1, <2>6 DEF DefinitionInv, TypeOK, AxesValid, AxesBacked, StoreConsistent,
                      Confirmed, Projectable, store
  <2>10. QED BY <2>4, <2>5, <2>7, <2>8, <2>9 DEF DefinitionInv
<1>2. CASE Answered(r) /\ UNCHANGED <<published, pointer>>
  BY <1>2, AnsweredInv DEF WriteCatalogue, catalogue
<1>3. QED BY <1>1, <1>2 DEF WriteCatalogue

\* A step that answers a request and changes the axes, to axes that keep the
\* rules.
LEMMA AxesChange ==
    ASSUME DefinitionInv, NEW r \in Request, Answered(r),
           UNCHANGED <<draft, versions, lifecycle, saved, catalogue>>,
           axes' \in [confirmation : {"DRAFT", "CONFIRMED"}, retention : {"SESSION", "SAVED"},
                      publication : {"UNPUBLISHED", "PUBLISHED"},
                      certification : {"UNCERTIFIED", "CERTIFIED"}],
           axes'.confirmation = axes.confirmation, axes'.retention = axes.retention,
           AxesValid', AxesBacked'
    PROVE  DefinitionInv'
<1>1. Idle \in Requests /\ InOrder(Idle, saved', published', certified', pointer')
  BY Basics, DefinitionAssumption DEF Idle, Requests, InOrder, catalogue
<1>2. /\ saved' = saved /\ certified' = certified /\ published' = published
      /\ pointer' = pointer /\ pointer \in Nat
  BY Basics DEF catalogue
<1>3. pointer <= pointer' /\ pointer' \in Nat
  BY <1>2
<1>4. request' \in [Request -> Requests] /\ RequestsConsistent'
  BY Zenon, <1>1, <1>2, <1>3, OneRequest DEF Answered
<1>5. TypeOK'
  BY <1>4 DEF DefinitionInv, TypeOK, catalogue
<1>6. PublishedWereSaved' /\ PointerIsNewest'
  BY CatalogueUndisturbed DEF DefinitionInv
<1>7. StoreConsistent'
  BY DEF DefinitionInv, StoreConsistent, Confirmed, Projectable
<1>8. QED BY <1>4, <1>5, <1>6, <1>7 DEF DefinitionInv

\* The projection of a publication onto the axes keeps the invariant: the catalogue
\* has the version by then.
LEMMA ProjectPublishedInv ==
    ASSUME DefinitionInv, NEW r \in Request, ProjectPublished(r)
    PROVE  DefinitionInv'
<1>1. published[request[r].version] # NoContent
  BY Basics DEF ProjectPublished, At, InOrder
<1>2. axes' = axes \/ /\ request[r].version = draft.version /\ Projectable
                      /\ axes' = [axes EXCEPT !.publication = "PUBLISHED",
                                              !.certification = "UNCERTIFIED"]
  BY DEF ProjectPublished
<1>3. /\ axes' \in [confirmation : {"DRAFT", "CONFIRMED"}, retention : {"SESSION", "SAVED"},
                    publication : {"UNPUBLISHED", "PUBLISHED"},
                    certification : {"UNCERTIFIED", "CERTIFIED"}]
      /\ axes'.confirmation = axes.confirmation /\ axes'.retention = axes.retention
      /\ AxesValid' /\ AxesBacked'
  BY Zenon, <1>1, <1>2 DEF DefinitionInv, TypeOK, AxesValid, AxesBacked, Projectable,
                    ProjectPublished, catalogue
<1>4. QED BY <1>3, AxesChange DEF ProjectPublished

\* The projection of a certification onto the axes keeps the invariant: the
\* catalogue has the certification by then.
LEMMA ProjectCertifiedInv ==
    ASSUME DefinitionInv, NEW r \in Request, ProjectCertified(r)
    PROVE  DefinitionInv'
<1>1. request[r].version \in certified
  BY Basics DEF ProjectCertified, At, InOrder
<1>2. axes' = axes \/ /\ request[r].version = draft.version
                      /\ axes.publication = "PUBLISHED"
                      /\ axes' = [axes EXCEPT !.certification = "CERTIFIED"]
  BY DEF ProjectCertified
<1>3. /\ axes' \in [confirmation : {"DRAFT", "CONFIRMED"}, retention : {"SESSION", "SAVED"},
                    publication : {"UNPUBLISHED", "PUBLISHED"},
                    certification : {"UNCERTIFIED", "CERTIFIED"}]
      /\ axes'.confirmation = axes.confirmation /\ axes'.retention = axes.retention
      /\ AxesValid' /\ AxesBacked'
  BY <1>1, <1>2 DEF DefinitionInv, TypeOK, AxesValid, AxesBacked,
                    ProjectCertified, catalogue
<1>4. QED BY <1>3, AxesChange DEF ProjectCertified

\* The write of a certification keeps the invariant: only published versions are
\* certified.
LEMMA WriteCertificationInv ==
    ASSUME DefinitionInv, NEW r \in Request, WriteCertification(r)
    PROVE  DefinitionInv'
<1> DEFINE q == [request[r] EXCEPT !.at = "project_certified"]
<1>1. /\ request' = [request EXCEPT ![r] = q]
      /\ q \in Requests /\ q.at = "project_certified"
      /\ q.version = request[r].version /\ q.read = request[r].read
  BY Zenon, GotoIs DEF WriteCertification
<1>2. /\ request[r].version \in Version /\ published[request[r].version] # NoContent
      /\ request[r].read <= pointer /\ pointer \in Nat
  BY Basics DEF InOrder, WriteCertification, At
<1>3. /\ certified' = certified \cup {request[r].version}
      /\ UNCHANGED <<draft, versions, lifecycle, axes, saved, published, pointer>>
  BY DEF WriteCertification, store
<1> HIDE DEF q
<1>4. InOrder(q, saved', published', certified', pointer')
  BY <1>1, <1>2, <1>3 DEF InOrder
<1>5. pointer' \in Nat /\ pointer <= pointer' /\ certified \subseteq certified'
  BY <1>2, <1>3
<1>6. request' \in [Request -> Requests] /\ RequestsConsistent'
  BY Zenon, <1>1, <1>3, <1>4, <1>5, OneRequest
<1>7. TypeOK'
  BY <1>2, <1>3, <1>6 DEF DefinitionInv, TypeOK
<1>8. AxesValid' /\ AxesBacked' /\ PublishedWereSaved' /\ PointerIsNewest'
  BY <1>3 DEF DefinitionInv, AxesValid, AxesBacked, PublishedWereSaved, PointerIsNewest
<1>9. StoreConsistent'
  BY <1>3 DEF DefinitionInv, StoreConsistent, Confirmed, Projectable
<1>10. QED BY <1>6, <1>7, <1>8, <1>9 DEF DefinitionInv

-----------------------------------------------------------------------------

\* Every step keeps the invariant.
LEMMA NextInv == DefinitionInv /\ [Next]_vars => DefinitionInv'
<1> SUFFICES ASSUME DefinitionInv, [Next]_vars PROVE DefinitionInv'
  OBVIOUS
<1>1. CASE StoreStep
  BY <1>1, UpdateDraftInv, MarkSemanticClosedInv, ConfirmInv, SaveInv, CreateRevisionInv
     DEF StoreStep
<1>2. ASSUME NEW r \in Request, RequestStep(r) PROVE DefinitionInv'
  BY <1>2, PublishInv, CertifyInv, CheckEligibleInv, ReadCatalogueInv, WriteCatalogueInv,
     ProjectPublishedInv, WriteCertificationInv, ProjectCertifiedInv DEF RequestStep
<1>3. CASE UNCHANGED vars
  <2>1. RequestsConsistent'
    BY <1>3, RequestsUndisturbed DEF DefinitionInv, vars, catalogue
  <2>2. UNCHANGED <<store, catalogue>> /\ request' \in [Request -> Requests]
    BY <1>3 DEF vars, store, catalogue, DefinitionInv, TypeOK
  <2>3. QED BY <2>1, <2>2, OnlyRequests
<1>4. QED BY <1>1, <1>2, <1>3 DEF Next

\* For every number of versions and every number of concurrent requests, a
\* definition and its publications stay in order.
THEOREM DefinitionSafe == Spec => []DefinitionInv
BY InitInv, NextInv, PTL DEF Spec

\* The axes obey the rules of validate_axes and claim nothing the catalogue
\* does not have; the catalogue holds only saved versions under a pointer to
\* its newest; and a committed publication never fails afterwards.
THEOREM PublicationSafe == Spec => []PublicationSound
<1>1. DefinitionInv => PublicationSound
  <2> SUFFICES ASSUME DefinitionInv PROVE ProjectionNeverFails
    BY DEF DefinitionInv, PublicationSound
  <2>1. \A r \in Request : At(r, "project") => request[r].version \in saved
    BY Basics DEF InOrder, At
  <2>2. QED BY <2>1 DEF DefinitionInv, StoreConsistent, ProjectionNeverFails
<1>2. QED BY <1>1, DefinitionSafe, PTL

\* A confirmed version keeps its content for ever, and so does a published
\* one: confirming again, revising and publishing again never rewrite it.
THEOREM VersionsAreImmutable == Spec => VersionsImmutable
<1> DEFINE Kept == \A v \in Version :
                     /\ versions[v] # NoContent => versions'[v] = versions[v]
                     /\ published[v] # NoContent => published'[v] = published[v]
<1>1. DefinitionInv /\ [Next]_vars => [Kept]_vars
  <2> SUFFICES ASSUME DefinitionInv, Next PROVE Kept
    OBVIOUS
  <2>1. CASE Confirm
    BY <2>1 DEF Confirm, DefinitionInv, TypeOK, StoreConsistent, Confirmed, catalogue
  <2>2. CASE StoreStep /\ ~Confirm
    BY <2>2 DEF StoreStep, UpdateDraft, MarkSemanticClosed, Save, CreateRevision, catalogue
  <2>3. ASSUME NEW r \in Request, WriteCatalogue(r) PROVE Kept
    <3>1. request[r].version \in Version
      BY <2>3, Basics DEF WriteCatalogue, At, InOrder
    <3>2. QED BY <2>3, <3>1 DEF WriteCatalogue, store, DefinitionInv, TypeOK
  <2>4. ASSUME NEW r \in Request, RequestStep(r), ~WriteCatalogue(r) PROVE Kept
    BY <2>4 DEF RequestStep, Publish, Certify, CheckEligible, ReadCatalogue,
                ProjectPublished, WriteCertification, ProjectCertified, store, catalogue
  <2>5. QED BY <2>1, <2>2, <2>3, <2>4 DEF Next
<1>2. QED BY <1>1, DefinitionSafe, PTL DEF Spec, VersionsImmutable
=============================================================================

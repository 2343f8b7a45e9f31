---------------------------- MODULE AppContainer ----------------------------
(***************************************************************************)
(* nl2sql/container.py: what a process builds at startup and on demand,    *)
(* what it reports as ready, and what it releases when it stops.  Requests *)
(* are tasks of one event loop: a task runs from one await to the next.    *)
(***************************************************************************)
EXTENDS DeploymentSettings

CONSTANTS Task, MaxDay, MaxInstances   \* MaxInstances: catalogues constructed

VARIABLES settings,
          phase,        \* of the FastAPI lifespan
          checkpoint,   \* _checkpoint_available
          audit,        \* _audit_store is open
          storeReady,   \* _product_store_ready
          instances,    \* publication catalogues ever constructed
          sharedCatalogue,    \* _publication_catalogue: an instance, or 0
          bound,        \* the catalogue each application-scoped service holds
          engine,       \* the factory the engine was built with, or "unbuilt"
          attempted,    \* _local_real_probe_attempted
          deployment,   \* _local_real_deployment: the days it was built from
          typed,        \* _typed_deployment was built
          readiness,    \* _local_real_readiness
          open,         \* database engines and stores not yet disposed
          task,         \* tasks between two awaits
          day           \* the newest business day in the source

containerVars == <<settings, phase, checkpoint, audit, storeReady, instances, sharedCatalogue, bound,
                   engine, attempted, deployment, typed, readiness, open, task, day>>
startVars == <<checkpoint, audit, storeReady>>
storeVars == <<instances, sharedCatalogue, bound>>
probeVars == <<attempted, deployment, readiness>>

Free == [at |-> "idle", for |-> "none", instance |-> 0, latest |-> 0, window |-> 0]
NoDeployment == [latest |-> 0, window |-> 0, watermark |-> 0]
Stores == {"artifacts", "catalogue", "library"}
LocalReal == settings.typed_runtime_activation = "local_real_data_demo"

ContainerInit(Candidates) ==
    /\ settings \in Candidates
    /\ ValidSettings(settings)
    /\ phase = "checkpoint"
    /\ checkpoint = FALSE /\ audit = FALSE /\ storeReady = FALSE
    /\ instances = 0 /\ sharedCatalogue = 0
    /\ bound = [publication |-> 0, library |-> 0]
    /\ engine = "unbuilt" /\ attempted = FALSE
    /\ deployment = NoDeployment /\ typed = FALSE
    /\ readiness = "none" /\ open = {}
    /\ task = [t \in Task |-> Free]
    /\ day = 1

-----------------------------------------------------------------------------
(* start: three parts, each of which may fail and none of which stops it.  *)

\* The memory checkpointer opens nothing.
StartCheckpoint(ok) ==
    /\ phase = "checkpoint"
    /\ ok \/ settings.memory_backend = "postgresql"
    /\ phase' = "audit"
    /\ checkpoint' = ok
    /\ open' = IF ok /\ settings.memory_backend = "postgresql"
               THEN open \cup {"checkpoint"} ELSE open
    /\ UNCHANGED <<settings, audit, storeReady, storeVars, engine, probeVars, typed, task, day>>

StartAudit(ok) ==
    /\ phase = "audit"
    /\ phase' = "stores"
    /\ audit' = (ok /\ settings.control_database_url)
    /\ open' = IF audit' THEN open \cup {"audit"} ELSE open
    /\ UNCHANGED <<settings, checkpoint, storeReady, storeVars, engine, probeVars, typed, task, day>>

\* The control-backed stores are built and pinged.  A failure while seeding
\* leaves the catalogue unset; a later one leaves it in place.
StartStores(outcome) ==
    /\ phase = "stores"
    /\ phase' = "serving"
    /\ IF StoreBackend(settings) = "memory"
       THEN outcome = "ready" /\ UNCHANGED <<instances, sharedCatalogue, bound, open>>
       ELSE /\ instances' = 1
            /\ sharedCatalogue' = IF outcome = "seeding" THEN 0 ELSE 1
            /\ bound' = [bound EXCEPT !.library = sharedCatalogue']
            /\ open' = open \cup (IF outcome = "seeding" THEN {"artifacts", "catalogue"} ELSE Stores)
    /\ storeReady' = (outcome = "ready")
    /\ settings.control_database_url \/ outcome = "seeding" \/ StoreBackend(settings) = "memory"
    /\ UNCHANGED <<settings, checkpoint, audit, engine, probeVars, typed, task, day>>

-----------------------------------------------------------------------------
(* Accessors of the shared stores.                                         *)

\* publication_service and library_repository hold the catalogue they got.
Bound(service, instance) == bound' = [bound EXCEPT ![service] = instance]

\* Only statements against the control database suspend.
SeedingSuspends(s) == StoreBackend(s) = "control"

\* publication_catalogue: the shared instance, or a new one that is seeded
\* before it is assigned.
AskCatalogue(t, service) ==
    /\ phase = "serving" /\ task[t].at = "idle"
    /\ bound[service] = 0
    /\ IF sharedCatalogue # 0
       THEN Bound(service, sharedCatalogue) /\ UNCHANGED <<instances, sharedCatalogue, task, open>>
       ELSE /\ instances < MaxInstances
            /\ instances' = instances + 1
            /\ open' = IF StoreBackend(settings) = "control" THEN open \cup {"catalogue"} ELSE open
            /\ IF SeedingSuspends(settings)
               THEN /\ task' = [task EXCEPT ![t] =
                          [Free EXCEPT !.at = "seeding", !.for = service, !.instance = instances']]
                    /\ UNCHANGED <<sharedCatalogue, bound>>
               ELSE sharedCatalogue' = instances' /\ Bound(service, instances') /\ UNCHANGED task
    /\ UNCHANGED <<settings, phase, startVars, engine, probeVars, typed, day>>

Seeded(t, ok) ==
    /\ task[t].at = "seeding"
    /\ IF ok THEN sharedCatalogue' = task[t].instance /\ Bound(task[t].for, task[t].instance)
       ELSE UNCHANGED <<sharedCatalogue, bound>>
    /\ task' = [task EXCEPT ![t] = Free]
    /\ UNCHANGED <<settings, phase, startVars, instances, engine, probeVars, typed, open, day>>

\* get_engine: nothing inside the lock awaits.  A model configuration that is
\* missing is an error of this request, and is tried again by the next.
GetEngine ==
    /\ phase = "serving"
    /\ checkpoint /\ engine = "unbuilt"
    /\ engine' = TypedRuntimeFactory(settings)
    /\ UNCHANGED <<settings, phase, startVars, storeVars, probeVars, typed, open, task, day>>

\* _typed_deployment_inputs
TypedDeployment ==
    /\ phase = "serving" /\ engine = "typed"
    /\ ~typed
    /\ settings.control_database_url /\ settings.database_url
    /\ typed' = TRUE
    /\ open' = open \cup {"publisher", "snapshots", "typed_business"}
    /\ UNCHANGED <<settings, phase, startVars, storeVars, engine, probeVars, task, day>>

-----------------------------------------------------------------------------
(* The local-real probe, for the readiness route and for the factory.      *)

\* What a caller of _local_real_deployment_inputs does with its answer.
Answer(for, answer) ==
    readiness' = IF for = "readyz" THEN IF answer THEN "ready" ELSE "unavailable" ELSE readiness

\* prepare_readiness and the local-real factory enter the probe.
EnterProbe(t, for) ==
    /\ phase = "serving" /\ task[t].at = "idle" /\ LocalReal
    /\ IF for = "readyz" THEN readiness = "none" ELSE engine = "local_real"
    /\ IF deployment # NoDeployment THEN
          Answer(for, TRUE) /\ UNCHANGED <<attempted, open, task>>
       ELSE IF attempted THEN
          Answer(for, FALSE) /\ UNCHANGED <<attempted, open, task>>
       ELSE IF ~settings.database_url THEN
          attempted' = TRUE /\ Answer(for, FALSE) /\ UNCHANGED <<open, task>>
       ELSE /\ attempted' = TRUE
            /\ open' = open \cup {"local_business"}
            /\ task' = [task EXCEPT ![t] = [Free EXCEPT !.at = "relation", !.for = for]]
            /\ UNCHANGED readiness
    /\ UNCHANGED <<settings, phase, startVars, storeVars, engine, deployment, typed, day>>

\* A step of the probe fails or raises: the engine is disposed, nothing kept.
ProbeFails(t) ==
    /\ task[t].at \in {"relation", "latest", "window", "watermark", "collect"}
    /\ open' = open \ {"local_business"}
    /\ Answer(task[t].for, FALSE)
    /\ task' = [task EXCEPT ![t] = Free]
    /\ UNCHANGED <<settings, phase, startVars, storeVars, engine, attempted, deployment, typed, day>>

Proceed(t, from, q) ==
    /\ task[t].at = from
    /\ task' = [task EXCEPT ![t] = q]
    /\ UNCHANGED <<settings, phase, startVars, storeVars, engine, probeVars, typed, open, day>>

\* probe_relation, then the dates, each in a transaction of its own.
ProbeRelation(t) == Proceed(t, "relation", [task[t] EXCEPT !.at = "latest"])
ReadLatest(t) == Proceed(t, "latest", [task[t] EXCEPT !.at = "window", !.latest = day])
ReadWindow(t) == Proceed(t, "window", [task[t] EXCEPT !.at = "watermark", !.window = day])

\* Mutant: the authoritative date is resolved after the window.
ReadWatermarkRereads(t) ==
    Proceed(t, "watermark", [task[t] EXCEPT !.at = "collect", !.instance = day, !.latest = day])

\* resolve_source_watermark; what is left is the catalog slice.
ReadWatermark(t) == Proceed(t, "watermark", [task[t] EXCEPT !.at = "collect", !.instance = day])

\* Collection, semantics and the deployment succeed.
ProbeSucceeds(t) ==
    LET q == task[t]
    IN  /\ q.at = "collect"
        /\ deployment' = [latest |-> q.latest, window |-> q.window, watermark |-> q.instance]
        /\ Answer(q.for, TRUE)
        /\ task' = [task EXCEPT ![t] = Free]
        /\ UNCHANGED <<settings, phase, startVars, storeVars, engine, attempted,
                       typed, open, day>>

\* New rows reach the source.
NewDay ==
    /\ day < MaxDay /\ phase = "serving" /\ LocalReal
    /\ day' = day + 1
    /\ UNCHANGED <<settings, phase, startVars, storeVars, engine, probeVars, typed, open, task>>

-----------------------------------------------------------------------------

\* Mutant: the local-real engine is forgotten without being disposed.
ReleasedLeaky == {"audit", "publisher", "snapshots", "typed_business", "checkpoint"}

\* What close releases; the product stores' engines are not among them.
Released == {"audit", "publisher", "snapshots", "typed_business", "local_business", "checkpoint"}

\* close, once the server has finished its requests.
Close ==
    /\ phase = "serving"
    /\ \A t \in Task : task[t].at = "idle"
    /\ phase' = "closed"
    /\ engine' = "unbuilt" /\ audit' = FALSE /\ checkpoint' = FALSE
    /\ typed' = FALSE /\ deployment' = NoDeployment
    /\ attempted' = FALSE /\ readiness' = "none"
    /\ open' = open \ Released
    /\ UNCHANGED <<settings, storeReady, storeVars, task, day>>

ContainerNext ==
    \/ \E ok \in BOOLEAN : StartCheckpoint(ok) \/ StartAudit(ok)
    \/ \E outcome \in {"ready", "seeding", "ping"} : StartStores(outcome)
    \/ \E t \in Task :
          \/ \E service \in {"publication", "library"} : AskCatalogue(t, service)
          \/ \E ok \in BOOLEAN : Seeded(t, ok)
          \/ \E for \in {"readyz", "factory"} : EnterProbe(t, for)
          \/ ProbeFails(t) \/ ProbeRelation(t) \/ ReadLatest(t)
          \/ ReadWindow(t) \/ ReadWatermark(t) \/ ProbeSucceeds(t)
    \/ GetEngine \/ TypedDeployment \/ NewDay \/ Close

-----------------------------------------------------------------------------
(* The readiness report.                                                   *)

\* Mutant: a checkpoint is ready whatever holds it.
CheckpointReadyAny == checkpoint

CheckpointReady == checkpoint /\ ~(IsProduct(settings) /\ settings.memory_backend # "postgresql")

\* readiness_report, for a deployment whose model is available.
Ready ==
    /\ CheckpointReady
    /\ IsProduct(settings) => audit
    /\ StoreBackend(settings) = "control" => storeReady
    /\ LocalReal => readiness = "ready"

\* A product deployment that reports ready loses nothing when it restarts: its
\* checkpoints, its audit records and its product stores are in databases that
\* were reached, and what it serves rests on no demo authority.  Every settings
\* value that can be constructed keeps demo and local authority out of product
\* deployments, in each place that derives something from it.
ReadyProductIsDurable ==
    /\ ProductIsGoverned(settings)
    /\ Ready /\ IsProduct(settings) =>
          /\ "checkpoint" \in open /\ "audit" \in open
          /\ Stores \subseteq open /\ bound.library # 0
          /\ engine \in {"unbuilt", "none", "typed"}

\* "a publication made through the Definition API is immediately visible to
\* the Library API within the same process": with process-local stores both
\* services hold one catalogue, however their first requests overlap.
SharedCatalogue ==
    StoreBackend(settings) = "memory" =>
        /\ instances <= 1
        /\ \A service \in DOMAIN bound : bound[service] \in {0, sharedCatalogue}

\* Whatever failed on the way, a stopped process has released every engine but
\* those of its product stores, which close() does not mention, and while it
\* serves it has constructed nothing twice: its services share their stores.
ReleasesWhatItOwns ==
    /\ phase = "closed" => open \subseteq Stores
    /\ SharedCatalogue

\* The dates a local-real deployment works with are read in three
\* transactions while rows arrive: the authoritative date never lies beyond
\* the window of available dates, nor the window beyond the watermark.  Its
\* engine is open exactly as long as a probe or the deployment uses it.
LocalRealConsistent ==
    /\ deployment.latest <= deployment.window
    /\ deployment.window <= deployment.watermark
    /\ "local_business" \in open <=>
          \/ deployment # NoDeployment
          \/ \E t \in Task : task[t].at \in {"relation", "latest", "window", "watermark", "collect"}
=============================================================================

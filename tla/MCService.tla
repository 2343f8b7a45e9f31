----------------------------- MODULE MCService -----------------------------
(***************************************************************************)
(* The service around the engine: which settings a process may run with,   *)
(* the container it builds, the admission of requests and the calls to     *)
(* language models.  They are independent, so each behaviour is about one. *)
(***************************************************************************)
EXTENDS AppContainer, AuthGate, ModelGateway, TLC

VARIABLE focus

\* The deployments whose containers are followed: a product with its
\* databases, one whose control address was left out, local development with
\* and without the control store, and the two demo profiles.
Base == [service_mode |-> "infra-dev", auth_enabled |-> FALSE, tt_api_base_url |-> TRUE,
         typed_runtime_activation |-> "disabled", fixtureUser |-> TRUE,
         product_store_backend |-> "unset", memory_backend |-> "memory",
         database_url |-> TRUE, control_database_url |-> TRUE,
         checkpoint_database_url |-> TRUE, cors |-> "listed", cors_allow_credentials |-> TRUE]
Product == [Base EXCEPT !.service_mode = "product", !.auth_enabled = TRUE,
                        !.memory_backend = "postgresql",
                        !.typed_runtime_activation = "trusted_backend_authorization"]
LocalRealDemo == [Base EXCEPT !.typed_runtime_activation = "local_real_data_demo"]
Deployments ==
    {Base, Product, LocalRealDemo,
     [Product EXCEPT !.control_database_url = FALSE],
     [Product EXCEPT !.memory_backend = "memory"],
     [Base EXCEPT !.product_store_backend = "control"],
     [Base EXCEPT !.typed_runtime_activation = "demo_synthetic_authorization"],
     [LocalRealDemo EXCEPT !.database_url = FALSE],
     [LocalRealDemo EXCEPT !.product_store_backend = "control"]}

ServiceInit ==
    /\ AuthInit /\ GatewayInit
    /\ \/ focus = "container" /\ ContainerInit(Deployments)
       \/ focus \in {"auth", "models"} /\ ContainerInit({Base})
       \/ focus = "settings" /\ ContainerInit(Settings)
    /\ focus # "models" =>
          gateway = [profile |-> [stages |-> {"answer"}, primary |-> Flash, fallback |-> Nim],
                     configured |-> Provider, approved |-> Destinations]

ServiceNext ==
    /\ \/ focus = "container" /\ ContainerNext /\ UNCHANGED <<authVars, gatewayVars>>
       \/ focus = "auth" /\ AuthNext /\ UNCHANGED <<containerVars, gatewayVars>>
       \/ focus = "models" /\ GatewayNext /\ UNCHANGED <<containerVars, authVars>>
    /\ UNCHANGED focus

ServiceSpec == ServiceInit /\ [][ServiceNext]_<<containerVars, authVars, gatewayVars, focus>>

Interchangeable == Permutations(Task) \cup Permutations(Call) \cup Permutations(Caller)
=============================================================================

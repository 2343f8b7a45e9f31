------------------------- MODULE DeploymentSettings -------------------------
(***************************************************************************)
(* core/settings.py: which settings a process accepts, and what            *)
(* nl2sql/container.py and core/auth/dependencies.py derive from them.     *)
(* Addresses are present or not; everything here is decided once, when the *)
(* process starts.                                                         *)
(***************************************************************************)
EXTENDS Naturals, FiniteSets

ServiceMode == {"infra-dev", "product"}
Activation == {"disabled", "trusted_backend_authorization",
               "demo_synthetic_authorization", "local_real_data_demo"}
DemoActivation == {"demo_synthetic_authorization", "local_real_data_demo"}

\* The fields of Settings that anything below depends on.  fixtureUser says
\* whether the configured demo identity is one of the fixtures.
Settings ==
    [service_mode : ServiceMode, auth_enabled : BOOLEAN, tt_api_base_url : BOOLEAN,
     typed_runtime_activation : Activation, fixtureUser : BOOLEAN,
     product_store_backend : {"unset", "memory", "control"},
     memory_backend : {"memory", "postgresql"}, database_url : BOOLEAN,
     control_database_url : BOOLEAN, checkpoint_database_url : BOOLEAN,
     cors : {"none", "listed", "wildcard"}, cors_allow_credentials : BOOLEAN]

IsProduct(s) == s.service_mode = "product"

ValidAuth(s) ==
    /\ IsProduct(s) => s.auth_enabled
    /\ s.auth_enabled => s.tt_api_base_url

ValidStoreBackend(s) ==
    /\ ~(IsProduct(s) /\ s.product_store_backend = "memory")
    /\ s.product_store_backend = "control" => s.control_database_url

ValidMemoryBackend(s) == s.memory_backend = "postgresql" => s.checkpoint_database_url

\* validate_demo_activation_is_never_product
ValidActivation(s) ==
    /\ IsProduct(s) => s.typed_runtime_activation \notin DemoActivation
    /\ ~IsProduct(s) /\ s.typed_runtime_activation \in DemoActivation /\ ~s.auth_enabled
          => s.fixtureUser

ValidCors(s) ==
    /\ ~(s.cors_allow_credentials /\ s.cors = "wildcard")
    /\ IsProduct(s) => s.cors # "none"

\* The validators together; the roles inside the database addresses, which
\* validate_product_database_roles reads, are left out.
ValidSettings(s) ==
    /\ ValidAuth(s) /\ ValidStoreBackend(s) /\ ValidMemoryBackend(s)
    /\ ValidActivation(s) /\ ValidCors(s)

\* AppContainer.product_store_backend
StoreBackend(s) ==
    CASE s.product_store_backend # "unset" -> s.product_store_backend
      [] IsProduct(s) -> "control"
      [] OTHER -> "memory"

\* get_backend_authorization_provider; there is no trusted provider yet.
AuthorizationProvider(s) ==
    CASE s.typed_runtime_activation = "demo_synthetic_authorization" -> "demo"
      [] s.typed_runtime_activation = "local_real_data_demo" -> "local_real"
      [] OTHER -> "none"

\* authority_provenance
AuthorityProvenance(s) ==
    CASE s.typed_runtime_activation = "demo_synthetic_authorization" -> "demo"
      [] s.typed_runtime_activation = "local_real_data_demo" -> "local_real_demo"
      [] s.typed_runtime_activation = "trusted_backend_authorization"
            /\ AuthorizationProvider(s) # "none" -> "backend"
      [] OTHER -> "unavailable"

\* _configured_typed_runtime_factory: the factory the engine is built with.
TypedRuntimeFactory(s) ==
    CASE s.typed_runtime_activation = "demo_synthetic_authorization" -> "demo"
      [] s.typed_runtime_activation = "local_real_data_demo" -> "local_real"
      [] s.typed_runtime_activation = "trusted_backend_authorization" -> "typed"
      [] OTHER -> "none"

\* custom_definition_service: the metric keys a formula may name, when no
\* resolver or fetcher was injected.
MetricKeyResolver(s) ==
    CASE s.typed_runtime_activation = "local_real_data_demo" -> "frozen_case"
      [] s.typed_runtime_activation = "demo_synthetic_authorization" -> "demo_metrics"
      [] IsProduct(s) \/ s.typed_runtime_activation = "trusted_backend_authorization" -> "deny"
      [] OTHER -> "service_default"

\* _demo_identity_when_activated
DemoIdentity(s) ==
    IF IsProduct(s) \/ s.typed_runtime_activation \notin DemoActivation
    THEN "none" ELSE "demo_user"

\* require_user without authentication: the user and what they may do.
UnauthenticatedUser(s) ==
    IF DemoIdentity(s) = "none"
    THEN [user |-> "auth_disabled", permissions |-> {"*"}]
    ELSE [user |-> DemoIdentity(s), permissions |-> {"nl2sql:invoke", "nl2sql:stream"}]

-----------------------------------------------------------------------------

\* "demo/local authority must never be reachable in a product deployment", in
\* every place that derives something from the settings: the provider, the
\* provenance shown, the engine's factory, the metric keys, the identity, and
\* the stores; and demo authority is never paired with the wildcard user.
ProductIsGoverned(s) ==
    /\ IsProduct(s) =>
          /\ s.auth_enabled
          /\ AuthorizationProvider(s) = "none"
          /\ AuthorityProvenance(s) \in {"backend", "unavailable"}
          /\ TypedRuntimeFactory(s) \in {"none", "typed"}
          /\ MetricKeyResolver(s) = "deny"
          /\ StoreBackend(s) = "control"
    /\ AuthorizationProvider(s) # "none" /\ ~s.auth_enabled
          => "*" \notin UnauthenticatedUser(s).permissions
    /\ (AuthorizationProvider(s) = "none")
          = (AuthorityProvenance(s) \in {"backend", "unavailable"})
=============================================================================

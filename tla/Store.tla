-------------------------------- MODULE Store --------------------------------
(***************************************************************************)
(* The rows of the SQLite database that decide what is published in DNS:   *)
(* the tables configs, backends, health_states (status column only) and    *)
(* dns_providers (internal/store, internal/db/migrations.go).              *)
(*                                                                         *)
(* A table is a partial function from primary keys to rows; its DOMAIN is  *)
(* the set of keys that exist.  Every operator below is one SQL statement, *)
(* and SQLite executes a statement atomically.  A statement that fails (a  *)
(* row that is not there, a foreign key, a UNIQUE column) changes nothing, *)
(* so only the successful executions are transitions.                      *)
(***************************************************************************)
EXTENDS Integers, Functions

CONSTANTS
    Configs,        \* ids of configurations
    MaxBackends,    \* bound: how many backends are ever created
    IPs,            \* addresses of backends, numbers so that they can be sorted
    Names,          \* DNS names
    Zones,          \* zones at DNS providers (zone_id of a provider's config_json)
    TTLs,           \* values of configs.dns_ttl
    Weights         \* values of backends.weight

Methods == {"round_robin", "weighted"}
Statuses == {"unknown", "healthy", "unhealthy"}

(* Backend ids are UUIDs, never reused; here they are numbered in the order *)
(* of creation because ListBackends sorts by created_at.                    *)
Backends == 1 .. MaxBackends

ConfigRow == [method : Methods, name : Names, ttl : TTLs]
BackendRow == [config : Configs, ip : IPs, weight : Weights, enabled : BOOLEAN]

ASSUME StoreAssumption ==
    /\ MaxBackends \in Nat
    /\ IPs \subseteq Nat
    /\ TTLs \subseteq Nat \ {0}
    /\ Weights \subseteq Int
    /\ {"unusable", "none"} \cap Zones = {}

VARIABLES
    configs,        \* table configs
    usedConfigs,    \* config ids that were ever given out (uuid.New)
    backends,       \* table backends
    lastBackend,    \* number of backends ever created
    status,         \* table health_states, status of the row of a backend
    providers,      \* table dns_providers: config id -> the provider that the row gives
    reconcileError  \* configs whose last_reconcile_error is not NULL

storeVars == <<configs, usedConfigs, backends, lastBackend, status, providers,
               reconcileError>>

(***************************************************************************)
(* A dns_providers row: the zone that its provider writes to, or           *)
(* "unusable" when the row does not decrypt or the factory of its provider *)
(* type refuses its config_json.                                           *)
(***************************************************************************)
ProviderRow == Zones \cup {"unusable"}

(* The tables with some of the keys. *)
Table(keys, rows) == UNION {[ks -> rows] : ks \in SUBSET keys}

(* Foreign keys: a row refers to rows that exist. *)
Integrity ==
    /\ \A b \in DOMAIN backends : backends[b].config \in DOMAIN configs /\ b <= lastBackend
    /\ DOMAIN status \subseteq DOMAIN backends
    /\ DOMAIN providers \subseteq DOMAIN configs
    /\ reconcileError \subseteq DOMAIN configs

StoreTypeOK ==
    /\ configs \in Table(Configs, ConfigRow)
    /\ usedConfigs \subseteq Configs
    /\ DOMAIN configs \subseteq usedConfigs
    /\ backends \in Table(Backends, BackendRow)
    /\ lastBackend \in 0 .. MaxBackends
    /\ status \in Table(Backends, Statuses)
    /\ providers \in Table(Configs, ProviderRow)
    /\ reconcileError \subseteq Configs
    /\ Integrity

EmptyTable == [k \in {} |-> 0]

StoreInit ==
    /\ configs = EmptyTable
    /\ usedConfigs = {}
    /\ backends = EmptyTable
    /\ lastBackend = 0
    /\ status = EmptyTable
    /\ providers = EmptyTable
    /\ reconcileError = {}

-----------------------------------------------------------------------------
(* One row inserted or updated; a set of rows deleted. *)
Put(t, k, row) == [x \in DOMAIN t \cup {k} |-> IF x = k THEN row ELSE t[x]]
Drop(t, ks) == Restrict(t, DOMAIN t \ ks)

NameIsFree(n, c) == \A d \in DOMAIN configs \ {c} : configs[d].name # n

BackendsOf(c) == {b \in DOMAIN backends : backends[b].config = c}

CreateConfig(c, row) ==
    /\ c \notin usedConfigs
    /\ NameIsFree(row.name, c)
    /\ configs' = Put(configs, c, row)
    /\ usedConfigs' = usedConfigs \cup {c}
    /\ UNCHANGED <<backends, lastBackend, status, providers, reconcileError>>

UpdateConfig(c, row) ==
    /\ c \in DOMAIN configs
    /\ NameIsFree(row.name, c)
    /\ configs' = Put(configs, c, row)
    /\ UNCHANGED <<usedConfigs, backends, lastBackend, status, providers,
                   reconcileError>>

(* Mutant: the foreign key of backends without ON DELETE CASCADE. *)
DeleteConfigNoCascade(c) ==
    /\ c \in DOMAIN configs
    /\ configs' = Drop(configs, {c})
    /\ providers' = Drop(providers, {c})
    /\ reconcileError' = reconcileError \ {c}
    /\ UNCHANGED <<usedConfigs, backends, status, lastBackend>>

(* ON DELETE CASCADE removes the backends, their health states and the      *)
(* provider; last_reconcile_error is a column of the deleted row.           *)
DeleteConfig(c) ==
    /\ c \in DOMAIN configs
    /\ configs' = Drop(configs, {c})
    /\ backends' = Drop(backends, BackendsOf(c))
    /\ status' = Drop(status, BackendsOf(c))
    /\ providers' = Drop(providers, {c})
    /\ reconcileError' = reconcileError \ {c}
    /\ UNCHANGED <<usedConfigs, lastBackend>>

CreateBackend(row) ==
    /\ lastBackend < MaxBackends
    /\ row.config \in DOMAIN configs
    /\ lastBackend' = lastBackend + 1
    /\ backends' = Put(backends, lastBackend + 1, row)
    /\ UNCHANGED <<configs, usedConfigs, status, providers, reconcileError>>

UpdateBackend(b, row) ==
    /\ b \in DOMAIN backends
    /\ row.config \in DOMAIN configs
    /\ backends' = Put(backends, b, row)
    /\ UNCHANGED <<configs, usedConfigs, lastBackend, status, providers,
                   reconcileError>>

DeleteBackend(b) ==
    /\ b \in DOMAIN backends
    /\ backends' = Drop(backends, {b})
    /\ status' = Drop(status, {b})
    /\ UNCHANGED <<configs, usedConfigs, lastBackend, providers, reconcileError>>

(* The upsert fails on the foreign key when the backend is gone. *)
UpdateHealthState(b, s) ==
    /\ b \in DOMAIN backends
    /\ status' = Put(status, b, s)
    /\ UNCHANGED <<configs, usedConfigs, backends, lastBackend, providers,
                   reconcileError>>

(* CreateDNSProvider and UpdateDNSProvider: which one runs is decided by    *)
(* the handler from whether the row exists.                                 *)
PutDNSProvider(c, row) ==
    /\ c \in DOMAIN configs
    /\ providers' = Put(providers, c, row)
    /\ UNCHANGED <<configs, usedConfigs, backends, lastBackend, status,
                   reconcileError>>

DeleteDNSProvider(c) ==
    /\ c \in DOMAIN providers
    /\ providers' = Drop(providers, {c})
    /\ UNCHANGED <<configs, usedConfigs, backends, lastBackend, status,
                   reconcileError>>

(* An UPDATE that matches no row is not an error. *)
SetConfigReconcileError(c, failed) ==
    /\ reconcileError' = IF failed THEN reconcileError \cup ({c} \cap DOMAIN configs)
                                   ELSE reconcileError \ {c}
    /\ UNCHANGED <<configs, usedConfigs, backends, lastBackend, status, providers>>

-----------------------------------------------------------------------------
(* The queries. *)
ListBackends(c) == [b \in BackendsOf(c) |-> backends[b]]

(* The health_states rows joined with the backends of the config. *)
GetHealthStates(c) == [b \in DOMAIN status \cap BackendsOf(c) |-> status[b]]
=============================================================================

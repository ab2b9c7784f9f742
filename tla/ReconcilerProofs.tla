-------------------------- MODULE ReconcilerProofs --------------------------
(***************************************************************************)
(* Theorems about Reconciler, for any number of configs, backends, names,  *)
(* addresses, passes in flight, faults and restarts.                       *)
(***************************************************************************)
EXTENDS Reconciler, FiniteSetTheorems, TLAPS

-----------------------------------------------------------------------------
(* A table is a function on some of the keys. *)
LEMMA TableDef ==
    ASSUME NEW t, NEW keys, NEW rows
    PROVE  t \in Table(keys, rows) <=>
             /\ t = [k \in DOMAIN t |-> t[k]]
             /\ DOMAIN t \subseteq keys
             /\ \A k \in DOMAIN t : t[k] \in rows
<1>1. t \in Table(keys, rows) <=> \E ks \in SUBSET keys : t \in [ks -> rows]
  BY DEF Table
<1>2. QED
  BY <1>1

(* Deleting rows keeps the others. *)
LEMMA DropTable ==
    ASSUME NEW t, NEW keys, NEW rows, t \in Table(keys, rows), NEW ks
    PROVE  /\ Drop(t, ks) \in Table(keys, rows)
           /\ DOMAIN Drop(t, ks) = DOMAIN t \ ks
           /\ \A x \in DOMAIN Drop(t, ks) : Drop(t, ks)[x] = t[x]
BY TableDef DEF Drop, Restrict

(* The empty table is a table of any type. *)
LEMMA EmptyTableType ==
    ASSUME NEW keys, NEW rows
    PROVE  EmptyTable \in Table(keys, rows) /\ DOMAIN EmptyTable = {}
BY TableDef DEF EmptyTable

-----------------------------------------------------------------------------
(* The database keeps its type and its integrity, whatever the handlers do. *)
LEMMA StoreInitType == StoreInit => StoreTypeOK
<1> SUFFICES ASSUME StoreInit PROVE StoreTypeOK
  OBVIOUS
<1>1. /\ configs \in Table(Configs, ConfigRow) /\ backends \in Table(Backends, BackendRow)
      /\ status \in Table(Backends, Statuses) /\ providers \in Table(Configs, ProviderRow)
      /\ DOMAIN configs = {} /\ DOMAIN backends = {} /\ DOMAIN status = {}
      /\ DOMAIN providers = {}
  BY EmptyTableType DEF StoreInit
<1>2. QED
  BY <1>1, StoreAssumption DEF StoreAssumption, StoreInit, StoreTypeOK, Integrity

(* CreateConfig, UpdateConfig and DeleteConfig keep the type and the        *)
(* integrity of the database (the cascade of DeleteConfig included).        *)
LEMMA ConfigHandlersType ==
    ASSUME StoreTypeOK,
           \/ \E c \in Configs, row \in ConfigRow : CreateConfig(c, row) \/ UpdateConfig(c, row)
           \/ \E c \in Configs : DeleteConfig(c)
    PROVE  StoreTypeOK'
<1>1. ASSUME NEW c \in Configs, NEW row \in ConfigRow, CreateConfig(c, row) \/ UpdateConfig(c, row)
      PROVE  StoreTypeOK'
  <2>1. configs' \in Table(Configs, ConfigRow) /\ DOMAIN configs' = DOMAIN configs \cup {c}
    <3>1. configs' = Put(configs, c, row) /\ configs \in Table(Configs, ConfigRow)
      BY <1>1 DEF CreateConfig, UpdateConfig, StoreTypeOK
    <3>2. QED
      BY <3>1, TableDef DEF Put
  <2>2. /\ usedConfigs' \subseteq Configs /\ DOMAIN configs' \subseteq usedConfigs'
        /\ UNCHANGED <<backends, lastBackend, status, providers, reconcileError>>
    BY <1>1, <2>1 DEF CreateConfig, UpdateConfig, StoreTypeOK
  <2>3. QED
    BY <2>1, <2>2 DEF StoreTypeOK, Integrity
<1>2. ASSUME NEW c \in Configs, DeleteConfig(c)
      PROVE  StoreTypeOK'
  <2>1. /\ configs' \in Table(Configs, ConfigRow) /\ DOMAIN configs' = DOMAIN configs \ {c}
        /\ status' \in Table(Backends, Statuses) /\ DOMAIN status' = DOMAIN status \ BackendsOf(c)
        /\ providers' \in Table(Configs, ProviderRow) /\ DOMAIN providers' = DOMAIN providers \ {c}
    BY <1>2, DropTable DEF DeleteConfig, StoreTypeOK
  <2>2. /\ backends' \in Table(Backends, BackendRow)
        /\ DOMAIN backends' = DOMAIN backends \ BackendsOf(c)
        /\ \A b \in DOMAIN backends' : backends'[b] = backends[b]
    <3>1. backends' = Drop(backends, BackendsOf(c)) /\ backends \in Table(Backends, BackendRow)
      BY <1>2 DEF DeleteConfig, StoreTypeOK
    <3>2. QED
      BY <3>1, TableDef DEF Drop, Restrict
  <2>3. Integrity'
    BY <1>2, <2>1, <2>2 DEF DeleteConfig, StoreTypeOK, Integrity, BackendsOf
  <2>4. QED
    BY <1>2, <2>1, <2>2, <2>3 DEF DeleteConfig, StoreTypeOK
<1>3. QED
  BY <1>1, <1>2

(* So do the statements on backends and health states. *)
LEMMA BackendHandlersType ==
    ASSUME StoreTypeOK,
           \/ \E row \in BackendRow : CreateBackend(row)
           \/ \E b \in DOMAIN backends, row \in BackendRow : UpdateBackend(b, row)
           \/ \E b \in DOMAIN backends : DeleteBackend(b)
           \/ \E b \in DOMAIN backends, s \in Statuses : UpdateHealthState(b, s)
    PROVE  StoreTypeOK'
<1>0. /\ backends \in Table(Backends, BackendRow) /\ DOMAIN backends \subseteq Backends
      /\ status \in Table(Backends, Statuses) /\ lastBackend \in 0 .. MaxBackends
      /\ Integrity /\ MaxBackends \in Nat
  BY StoreAssumption, TableDef DEF StoreAssumption, StoreTypeOK
<1>1. ASSUME NEW row \in BackendRow, CreateBackend(row)
      PROVE  StoreTypeOK'
  <2>1. lastBackend + 1 \in Backends /\ lastBackend' \in 0 .. MaxBackends
    BY <1>0, <1>1 DEF CreateBackend, Backends
  <2>2. /\ backends' \in Table(Backends, BackendRow)
        /\ DOMAIN backends' = DOMAIN backends \cup {lastBackend + 1}
        /\ \A b \in DOMAIN backends' :
              backends'[b] = IF b = lastBackend + 1 THEN row ELSE backends[b]
    <3>1. backends' = Put(backends, lastBackend + 1, row)
      BY <1>1 DEF CreateBackend
    <3>2. QED
      BY <1>0, <2>1, <3>1, TableDef DEF Put
  <2>3. \A b \in DOMAIN backends' : backends'[b].config \in DOMAIN configs /\ b <= lastBackend'
    BY <1>0, <1>1, <2>1, <2>2 DEF CreateBackend, Integrity, Backends
  <2>4. QED
    BY <1>1, <2>1, <2>2, <2>3 DEF CreateBackend, StoreTypeOK, Integrity
<1>2. ASSUME NEW b \in DOMAIN backends, NEW row \in BackendRow, UpdateBackend(b, row)
      PROVE  StoreTypeOK'
  <2>1. /\ backends' \in Table(Backends, BackendRow)
        /\ DOMAIN backends' = DOMAIN backends
        /\ \A x \in DOMAIN backends' : backends'[x] = IF x = b THEN row ELSE backends[x]
    <3>1. backends' = Put(backends, b, row)
      BY <1>2 DEF UpdateBackend
    <3>2. QED
      BY <1>0, <3>1, TableDef DEF Put
  <2>2. QED
    BY <1>2, <2>1 DEF UpdateBackend, StoreTypeOK, Integrity
<1>3. ASSUME NEW b \in DOMAIN backends, DeleteBackend(b)
      PROVE  StoreTypeOK'
  <2>1. /\ backends' \in Table(Backends, BackendRow) /\ DOMAIN backends' = DOMAIN backends \ {b}
        /\ \A x \in DOMAIN backends' : backends'[x] = backends[x]
        /\ status' \in Table(Backends, Statuses) /\ DOMAIN status' = DOMAIN status \ {b}
    <3>1. backends' = Drop(backends, {b}) /\ status' = Drop(status, {b})
      BY <1>3 DEF DeleteBackend
    <3>2. QED
      BY <1>0, <3>1, TableDef DEF Drop, Restrict
  <2>2. QED
    BY <1>3, <2>1 DEF DeleteBackend, StoreTypeOK, Integrity
<1>4. ASSUME NEW b \in DOMAIN backends, NEW s \in Statuses, UpdateHealthState(b, s)
      PROVE  StoreTypeOK'
  <2>1. status' \in Table(Backends, Statuses) /\ DOMAIN status' = DOMAIN status \cup {b}
    <3>1. status' = Put(status, b, s) /\ b \in Backends
      BY <1>0, <1>4 DEF UpdateHealthState
    <3>2. QED
      BY <1>0, <3>1, TableDef DEF Put
  <2>2. QED
    BY <1>4, <2>1 DEF UpdateHealthState, StoreTypeOK, Integrity
<1>5. QED
  BY <1>1, <1>2, <1>3, <1>4

(* So do the statements on providers. *)
LEMMA ProviderHandlersType ==
    ASSUME StoreTypeOK,
           \/ \E c \in DOMAIN configs, row \in ProviderRow : PutDNSProvider(c, row)
           \/ \E c \in DOMAIN providers : DeleteDNSProvider(c)
    PROVE  StoreTypeOK'
<1>0. providers \in Table(Configs, ProviderRow) /\ DOMAIN configs \subseteq Configs
  BY TableDef DEF StoreTypeOK
<1>1. ASSUME NEW c \in DOMAIN configs, NEW row \in ProviderRow, PutDNSProvider(c, row)
      PROVE  StoreTypeOK'
  <2>1. providers' \in Table(Configs, ProviderRow) /\ DOMAIN providers' = DOMAIN providers \cup {c}
    <3>1. providers' = Put(providers, c, row)
      BY <1>1 DEF PutDNSProvider
    <3>2. QED
      BY <1>0, <3>1, TableDef DEF Put
  <2>2. QED
    BY <1>1, <2>1 DEF PutDNSProvider, StoreTypeOK, Integrity
<1>2. ASSUME NEW c \in DOMAIN providers, DeleteDNSProvider(c)
      PROVE  StoreTypeOK'
  <2>1. providers' \in Table(Configs, ProviderRow) /\ DOMAIN providers' = DOMAIN providers \ {c}
    BY <1>0, <1>2, DropTable DEF DeleteDNSProvider
  <2>2. QED
    BY <1>2, <2>1 DEF DeleteDNSProvider, StoreTypeOK, Integrity
<1>3. QED
  BY <1>1, <1>2

(* So does the stored outcome of a pass. *)
LEMMA ReconcileErrorType ==
    ASSUME StoreTypeOK, NEW c, NEW failed, SetConfigReconcileError(c, failed)
    PROVE  StoreTypeOK'
<1>1. reconcileError' \subseteq reconcileError \cup DOMAIN configs
  BY DEF SetConfigReconcileError
<1>2. QED
  BY <1>1, TableDef DEF SetConfigReconcileError, StoreTypeOK, Integrity

-----------------------------------------------------------------------------
(* The local variables of a pass. *)
LEMMA NoPassType == NoPass \in PassType
<1>1. ConfigRow # {}
  <2>1. PICK n \in Names, t \in TTLs : TRUE
    BY ReconcilerAssumption DEF ReconcilerAssumption
  <2>2. [method |-> "weighted", name |-> n, ttl |-> t] \in ConfigRow
    BY DEF ConfigRow, Methods
  <2>3. QED
    BY <2>2
<1>2. (CHOOSE c \in Configs : TRUE) \in Configs /\ (CHOOSE r \in ConfigRow : TRUE) \in ConfigRow
      /\ (CHOOSE z \in Zones : TRUE) \in Zones
  BY <1>1, ReconcilerAssumption DEF ReconcilerAssumption
<1>3. EmptyTable \in Table(Backends, BackendRow)
  BY EmptyTableType
<1>4. QED
  BY <1>2, <1>3 DEF NoPass, PassType, NoIPs, NoRecords

(* A pass always has a place, also before it has resolved its provider. *)
LEMMA PlaceType ==
    ASSUME NEW l \in PassType
    PROVE  place(l) \in Places
BY DEF place, Places, PassType, ConfigRow

(* Of finitely many backends, finitely many have a given address. *)
LEMMA extractIPsType ==
    ASSUME NEW rows, DOMAIN rows \subseteq Backends, NEW bs \in SUBSET DOMAIN rows
    PROVE  extractIPs(rows, bs) \in [IPs -> Nat]
<1>1. IsFiniteSet(Backends)
  BY StoreAssumption, FS_Interval DEF StoreAssumption, Backends
<1>2. ASSUME NEW ip \in IPs PROVE Cardinality({b \in bs : rows[b].ip = ip}) \in Nat
  <2>1. {b \in bs : rows[b].ip = ip} \in SUBSET Backends
    OBVIOUS
  <2>2. QED
    BY <1>1, <2>1, FS_Subset, FS_CardinalityType
<1>3. QED
  BY <1>2 DEF extractIPs

(* A pass that goes on keeps the types of pc and pass. *)
Local == pc \in [Passes -> PCs] /\ pass \in [Passes -> PassType]

(* A pass that moves on keeps its type. *)
LEMMA GotoType ==
    ASSUME Local, NEW p, NEW l \in PCs, NEW v \in PassType, Goto(p, l, v)
    PROVE  Local'
BY DEF Local, Goto

(* What the provider's API does to the zone and to the history. *)
Zone ==
    /\ dns \in [Places -> [IPs -> TTLs \cup {0}]]
    /\ ids \in [Passes -> SUBSET IPs]
    /\ undisturbed \subseteq Passes

(* A call of the provider keeps the type of the zone. *)
LEMMA ApiType ==
    ASSUME Zone, NEW p \in Passes, NEW n \in Places, NEW ip \in IPs, NEW ttl \in TTLs,
           noWrite \/ ApiDelete(p, n, ip) \/ ApiPut(p, n, ip, ttl) \/ ApiList(p, n)
    PROVE  Zone'
<1>1. CASE noWrite
  BY <1>1 DEF noWrite, Zone
<1>2. CASE ApiDelete(p, n, ip)
  BY <1>2 DEF ApiDelete, Write, Zone
<1>3. CASE ApiPut(p, n, ip, ttl)
  BY <1>3 DEF ApiPut, Write, Zone
<1>4. CASE ApiList(p, n)
  BY <1>4 DEF ApiList, Published, Zone
<1>5. QED
  BY <1>1, <1>2, <1>3, <1>4

Memory ==
    /\ DOMAIN lastRecords \subseteq Configs
    /\ lastRecords \in [DOMAIN lastRecords -> [IPs -> Nat]]
    /\ todo \in Table(Configs, ConfigRow)

Counters == faults \in 0 .. MaxFaults /\ restarts \in 0 .. MaxRestarts

(* The type of the reconciler in parts, one for each kind of step. *)
LEMMA RecTypeParts == RecTypeOK <=> Zone /\ Local /\ Memory /\ Counters
BY DEF RecTypeOK, Zone, Local, Memory, Counters

(* Failing calls keep to their bound. *)
LEMMA FaultType ==
    ASSUME Counters, noFault \/ (\E point : Fault(point)), restarts' = restarts
    PROVE  Counters'
BY ReconcilerAssumption DEF ReconcilerAssumption, Counters, noFault, Fault

(* The initial state has its type. *)
LEMMA TypeInit == Init => TypeOK
<1> SUFFICES ASSUME Init PROVE TypeOK
  OBVIOUS
<1>1. StoreTypeOK
  BY StoreInitType DEF Init
<1>2. Memory
  BY EmptyTableType DEF Init, RecInit, Memory, EmptyTable
<1>3. Zone
  BY DEF Init, RecInit, Zone, NoRecords
<1>4. Local
  BY NoPassType DEF Init, RecInit, Local, PCs
<1>5. Counters
  BY ReconcilerAssumption DEF ReconcilerAssumption, Init, RecInit, Counters
<1>6. QED
  BY <1>1, <1>2, <1>3, <1>4, <1>5, RecTypeParts DEF TypeOK

(* The steps of a pass that only read. *)
LEMMA ReadStepsType ==
    ASSUME TypeOK, NEW p \in Passes,
           GetConfig(p) \/ ReadBackends(p) \/ ReadStates(p) \/ Decide(p) \/ Resolve(p)
    PROVE  TypeOK'
<1>0. /\ StoreTypeOK /\ Zone /\ Local /\ Memory /\ Counters
      /\ pass[p] \in PassType /\ NoPass \in PassType
  BY RecTypeParts, NoPassType DEF TypeOK, Local
<1>1. UNCHANGED <<storeVars, dns, ids, undisturbed, lastRecords, todo, restarts>>
      /\ (noFault \/ \E point : Fault(point))
  BY DEF GetConfig, ReadBackends, ReadStates, Decide, Resolve, noFault
<1>2. StoreTypeOK' /\ Zone' /\ Memory' /\ Counters'
  <2>1. StoreTypeOK'
    BY <1>0, <1>1 DEF storeVars, StoreTypeOK, Integrity
  <2>2. Zone' /\ Memory'
    BY <1>0, <1>1 DEF Zone, Memory
  <2>3. Counters'
    BY <1>0, <1>1, FaultType
  <2>4. QED
    BY <2>1, <2>2, <2>3
<1>3. {"idle", "backends", "fail", "states", "decide", "resolve", "finish", "dlist", "list"} \subseteq PCs
  BY DEF PCs
<1>4. Local'
  <2>1. CASE GetConfig(p)
    <3>1. configs \in Table(Configs, ConfigRow)
      BY <1>0 DEF StoreTypeOK
    <3>2. pass[p].config \in DOMAIN configs
            => [pass[p] EXCEPT !.cfg = configs[pass[p].config]] \in PassType
      BY <1>0, <3>1, TableDef DEF PassType
    <3>3. QED
      BY <1>0, <1>3, <2>1, <3>2, GotoType DEF GetConfig
  <2>2. CASE ReadBackends(p)
    <3>1. ListBackends(pass[p].config) \in Table(Backends, BackendRow)
      BY <1>0, TableDef DEF StoreTypeOK, ListBackends, BackendsOf
    <3>2. [pass[p] EXCEPT !.rows = ListBackends(pass[p].config)] \in PassType
      BY <1>0, <3>1 DEF PassType
    <3>3. QED
      BY <1>0, <1>3, <2>2, <3>2, GotoType DEF ReadBackends
  <2>3. CASE ReadStates(p)
    <3> DEFINE l == pass[p]
               healthy == healthyBackends(l.rows, GetHealthStates(l.config))
               bs == backendsForDNS(l.cfg.method, l.rows, healthy)
    <3>1. DOMAIN l.rows \subseteq Backends
      BY <1>0, TableDef DEF PassType
    <3>2. bs \in SUBSET DOMAIN l.rows
      BY DEF backendsForDNS, selectWeighted, healthyBackends
    <3>3. extractIPs(l.rows, bs) \in [IPs -> Nat]
      BY <3>1, <3>2, extractIPsType
    <3>4. EmptyTable \in Table(Backends, BackendRow)
      BY EmptyTableType
    <3>5. [l EXCEPT !.want = extractIPs(l.rows, bs), !.rows = EmptyTable] \in PassType
      BY <1>0, <3>3, <3>4 DEF PassType
    <3>6. \/ Goto(p, "decide", [l EXCEPT !.want = extractIPs(l.rows, bs), !.rows = EmptyTable])
          \/ Goto(p, "fail", l)
      BY <2>3 DEF ReadStates
    <3>7. QED
      BY <1>0, <1>3, <3>5, <3>6, GotoType
  <2>4. CASE Decide(p)
    BY <1>0, <1>3, <2>4, GotoType DEF Decide
  <2>5. CASE Resolve(p)
    <3>1. \A z \in Zones : [pass[p] EXCEPT !.zone = z] \in PassType
      BY <1>0 DEF PassType
    <3>2. \/ \E l \in {"dlist", "list"}, z \in Zones : Goto(p, l, [pass[p] EXCEPT !.zone = z])
          \/ Goto(p, "finish", pass[p])
      BY <2>5 DEF Resolve, UpdateWith
    <3>3. QED
      BY <1>0, <1>3, <3>1, <3>2, GotoType
  <2>6. QED
    BY <2>1, <2>2, <2>3, <2>4, <2>5
<1>5. QED
  BY <1>2, <1>4 DEF TypeOK, RecTypeOK, Zone, Local, Memory, Counters

(* The steps of a pass that use the provider. *)
LEMMA ProviderStepsType ==
    ASSUME TypeOK, NEW p \in Passes,
           UpsertList(p) \/ UpsertPrune(p) \/ UpsertApply(p) \/ DeleteList(p) \/ DeleteErase(p)
    PROVE  TypeOK'
<1>0. /\ StoreTypeOK /\ Zone /\ Local /\ Memory /\ Counters
      /\ pass[p] \in PassType
      /\ place(pass[p]) \in Places /\ pass[p].cfg.ttl \in TTLs
  BY RecTypeParts, PlaceType DEF TypeOK, Local, PassType, ConfigRow
<1>1. UNCHANGED <<storeVars, lastRecords, todo, restarts>> /\ (noFault \/ \E point : Fault(point))
  BY DEF UpsertList, UpsertPrune, UpsertApply, DeleteList, DeleteErase
<1>2. StoreTypeOK' /\ Memory' /\ Counters'
  <2>1. StoreTypeOK'
    BY <1>0, <1>1 DEF storeVars, StoreTypeOK, Integrity
  <2>2. Memory'
    BY <1>0, <1>1 DEF Memory
  <2>3. Counters'
    BY <1>0, <1>1, FaultType
  <2>4. QED
    BY <2>1, <2>2, <2>3
<1>3. {"list", "prune", "apply", "record", "fail", "dlist", "erase"} \subseteq PCs
  BY DEF PCs
<1>4. ASSUME NEW ip \in pass[p].del
      PROVE  ip \in IPs /\ [pass[p] EXCEPT !.del = pass[p].del \ {ip}] \in PassType
  BY <1>0 DEF PassType
<1> DEFINE n == place(pass[p])
<1>5. Published(n) \subseteq IPs /\ dns[n] \in [IPs -> TTLs \cup {0}]
  BY <1>0 DEF Published, Zone
<1>6. ASSUME NEW ip \in Set(pass[p].left)
      PROVE  ip \in IPs
             /\ [pass[p] EXCEPT !.left = [pass[p].left EXCEPT ![ip] = @ - 1]] \in PassType
  <2>1. pass[p].left \in [IPs -> Nat] /\ ip \in IPs /\ pass[p].left[ip] > 0
    BY <1>0 DEF PassType, Set
  <2>2. [pass[p].left EXCEPT ![ip] = @ - 1] \in [IPs -> Nat]
    BY <2>1
  <2>3. QED
    BY <1>0, <2>1, <2>2 DEF PassType
<1>7. Local'
  <2>1. CASE UpsertList(p)
    <3> DEFINE l == pass[p]
               del == Published(n) \ Set(l.want)
    <3>1. [l EXCEPT !.found = dns[n], !.del = del, !.left = l.want] \in PassType
      BY <1>0, <1>5 DEF PassType
    <3>2. afterPrune(del) \in {"prune", "apply"}
      BY DEF afterPrune
    <3>3. \/ Goto(p, afterPrune(del), [l EXCEPT !.found = dns[n], !.del = del, !.left = l.want])
          \/ Goto(p, "fail", l)
      BY <2>1 DEF UpsertList, unwanted
    <3>4. QED
      BY <1>0, <1>3, <3>1, <3>2, <3>3, GotoType
  <2>2. CASE UpsertPrune(p)
    <3>1. PICK ip \in pass[p].del :
             \/ Goto(p, afterPrune(pass[p].del \ {ip}), [pass[p] EXCEPT !.del = pass[p].del \ {ip}])
             \/ Goto(p, "fail", pass[p])
      BY <2>2 DEF UpsertPrune
    <3>2. afterPrune(pass[p].del \ {ip}) \in {"prune", "apply"}
      BY DEF afterPrune
    <3>3. QED
      BY <1>0, <1>3, <1>4, <3>1, <3>2, GotoType
  <2>3. CASE UpsertApply(p)
    <3>1. PICK ip \in Set(pass[p].left) :
             \/ Goto(p, afterApply([pass[p].left EXCEPT ![ip] = @ - 1]),
                     [pass[p] EXCEPT !.left = [pass[p].left EXCEPT ![ip] = @ - 1]])
             \/ Goto(p, "fail", pass[p])
      BY <2>3 DEF UpsertApply
    <3>2. afterApply([pass[p].left EXCEPT ![ip] = @ - 1]) \in {"record", "apply"}
      BY DEF afterApply
    <3>3. QED
      BY <1>0, <1>3, <1>6, <3>1, <3>2, GotoType
  <2>4. CASE DeleteList(p)
    <3>1. [pass[p] EXCEPT !.del = Published(n)] \in PassType
      BY <1>0, <1>5 DEF PassType
    <3>2. afterErase(Published(n)) \in {"record", "erase"}
      BY DEF afterErase
    <3>3. \/ Goto(p, afterErase(Published(n)), [pass[p] EXCEPT !.del = Published(n)])
          \/ Goto(p, "record", pass[p])
      BY <2>4 DEF DeleteList
    <3>4. QED
      BY <1>0, <1>3, <3>1, <3>2, <3>3, GotoType
  <2>5. CASE DeleteErase(p)
    <3>1. PICK ip \in pass[p].del :
             \/ Goto(p, afterErase(pass[p].del \ {ip}), [pass[p] EXCEPT !.del = pass[p].del \ {ip}])
             \/ Goto(p, "record", pass[p])
      BY <2>5 DEF DeleteErase
    <3>2. afterErase(pass[p].del \ {ip}) \in {"record", "erase"}
      BY DEF afterErase
    <3>3. QED
      BY <1>0, <1>3, <1>4, <3>1, <3>2, GotoType
  <2>6. QED
    BY <2>1, <2>2, <2>3, <2>4, <2>5
<1>8. Zone'
  <2>1. \/ noWrite \/ ApiList(p, n)
        \/ \E ip \in IPs : ApiDelete(p, n, ip) \/ ApiPut(p, n, ip, pass[p].cfg.ttl)
    <3>1. CASE UpsertList(p) \/ DeleteList(p)
      BY <3>1 DEF UpsertList, DeleteList
    <3>2. CASE UpsertPrune(p) \/ DeleteErase(p)
      BY <1>4, <3>2 DEF UpsertPrune, DeleteErase
    <3>3. CASE UpsertApply(p)
      BY <1>6, <3>3 DEF UpsertApply
    <3>4. QED
      BY <3>1, <3>2, <3>3
  <2>2. CASE noWrite
    BY <1>0, <2>2 DEF noWrite, Zone
  <2>3. CASE ApiList(p, n)
    BY <1>0, <1>5, <2>3 DEF ApiList, Zone
  <2>4. CASE \E ip \in IPs : ApiDelete(p, n, ip) \/ ApiPut(p, n, ip, pass[p].cfg.ttl)
    BY <1>0, <2>4, ApiType
  <2>5. QED
    BY <2>1, <2>2, <2>3, <2>4
<1>9. QED
  BY <1>2, <1>7, <1>8 DEF TypeOK, RecTypeOK, Zone, Local, Memory, Counters

(* The steps that end a pass: Record and Finish. *)
LEMMA EndStepsType ==
    ASSUME TypeOK, NEW p \in Passes, Record(p) \/ Finish(p)
    PROVE  TypeOK'
<1>0. /\ StoreTypeOK /\ Zone /\ Local /\ Memory /\ Counters
      /\ pass[p] \in PassType /\ NoPass \in PassType
  BY RecTypeParts, NoPassType DEF TypeOK, Local
<1>1. CASE Record(p)
  <2>1. StoreTypeOK' /\ Zone' /\ Counters'
    BY <1>0, <1>1 DEF Record, storeVars, StoreTypeOK, Integrity, Zone, Counters
  <2>2. Local'
    BY <1>0, <1>1, GotoType DEF Record, PCs
  <2>3. DOMAIN lastRecords' \subseteq Configs /\ lastRecords' \in [DOMAIN lastRecords' -> [IPs -> Nat]]
    <3>1. /\ lastRecords' = Put(lastRecords, pass[p].config, pass[p].want)
          /\ DOMAIN lastRecords \subseteq Configs
          /\ lastRecords \in [DOMAIN lastRecords -> [IPs -> Nat]]
          /\ pass[p].config \in Configs /\ pass[p].want \in [IPs -> Nat]
      BY <1>0, <1>1 DEF Record, Memory, PassType
    <3>2. QED
      BY <3>1 DEF Put
  <2>4. QED
    BY <1>0, <1>1, <2>1, <2>2, <2>3
       DEF Record, TypeOK, RecTypeOK, Zone, Local, Memory, Counters
<1>2. CASE Finish(p)
  <2>1. StoreTypeOK'
    <3>1. CASE UNCHANGED storeVars
      BY <1>0, <3>1 DEF storeVars, StoreTypeOK, Integrity
    <3>2. CASE SetConfigReconcileError(pass[p].config, pc[p] = "fail")
      BY <1>0, <3>2, ReconcileErrorType
    <3>3. QED
      BY <1>2, <3>1, <3>2 DEF Finish
  <2>2. Counters' /\ Memory'
    BY <1>0, <1>2, FaultType DEF Finish, Memory
  <2>3. Local'
    <3>1. \E l \in {"next", "idle"} : Goto(p, l, NoPass)
      BY <1>2 DEF Finish, Leave
    <3>2. QED
      BY <1>0, <3>1, GotoType DEF PCs
  <2>4. Zone'
    BY <1>0, <1>2 DEF Finish, Leave, Zone
  <2>5. QED
    BY <2>1, <2>2, <2>3, <2>4 DEF TypeOK, RecTypeOK, Zone, Local, Memory, Counters
<1>3. QED
  BY <1>1, <1>2

(* The steps of ReconcileOnce between configs. *)
LEMMA LoopStepsType ==
    ASSUME TypeOK, Tick \/ NextConfig \/ EndOfList
    PROVE  TypeOK'
<1>0. /\ StoreTypeOK /\ Zone /\ Local /\ Memory /\ Counters
      /\ "loop" \in Passes /\ NoPass \in PassType
      /\ configs \in Table(Configs, ConfigRow) /\ todo \in Table(Configs, ConfigRow)
  BY RecTypeParts, NoPassType DEF TypeOK, Passes, StoreTypeOK, Memory
<1>1. StoreTypeOK' /\ Zone' /\ Counters'
  <2>1. StoreTypeOK'
    BY <1>0 DEF Tick, NextConfig, EndOfList, storeVars, StoreTypeOK, Integrity
  <2>2. Zone' /\ Counters'
    BY <1>0 DEF Tick, NextConfig, EndOfList, Zone, Counters
  <2>3. QED
    BY <2>1, <2>2
<1>2. CASE Tick \/ EndOfList
  BY <1>0, <1>1, <1>2
     DEF Tick, EndOfList, PCs, TypeOK, RecTypeOK, Zone, Local, Memory, Counters
<1>3. CASE NextConfig
  <2>1. PICK c \in DOMAIN todo :
           /\ Goto("loop", "backends", [NoPass EXCEPT !.config = c, !.cfg = todo[c]])
           /\ todo' = Drop(todo, {c})
    BY <1>3 DEF NextConfig
  <2>2. c \in Configs /\ todo[c] \in ConfigRow
    BY <1>0, TableDef
  <2>3. [NoPass EXCEPT !.config = c, !.cfg = todo[c]] \in PassType
    BY <1>0, <2>2 DEF PassType
  <2>4. Local'
    BY <1>0, <2>1, <2>3, GotoType DEF PCs
  <2>5. todo' \in Table(Configs, ConfigRow) /\ lastRecords' = lastRecords
    BY <1>0, <1>3, <2>1, DropTable DEF NextConfig
  <2>6. QED
    BY <1>0, <1>1, <2>4, <2>5 DEF TypeOK, RecTypeOK, Zone, Local, Memory, Counters
<1>4. QED
  BY <1>2, <1>3

(* Handlers and health results, with the passes they trigger. *)
LEMMA EnvironmentType ==
    ASSUME TypeOK, Environment
    PROVE  TypeOK'
<1>0. /\ StoreTypeOK /\ Zone /\ Local /\ Memory /\ Counters /\ NoPass \in PassType
      /\ DOMAIN configs \subseteq Configs /\ DOMAIN providers \subseteq DOMAIN configs
      /\ \A b \in DOMAIN backends : backends[b].config \in Configs
      /\ ConfigInputs \subseteq ConfigRow /\ BackendInputs \subseteq BackendRow
      /\ ProviderInputs \subseteq [config : Configs, provider : ProviderRow] /\ Probed \subseteq Statuses
  BY RecTypeParts, NoPassType, TableDef, ReconcilerAssumption
     DEF TypeOK, StoreTypeOK, Integrity, ReconcilerAssumption
<1>1. Zone' /\ Memory' /\ Counters'
  BY <1>0 DEF Environment, Zone, Memory, Counters
<1>2. ASSUME NEW c \in Configs, triggerReconcile(c)
      PROVE  Local'
  <2>1. CASE UNCHANGED <<pc, pass>>
    BY <1>0, <2>1 DEF Local
  <2>2. CASE \E p \in Callers : Goto(p, "get", [NoPass EXCEPT !.config = c])
    <3>1. [NoPass EXCEPT !.config = c] \in PassType
      BY <1>0 DEF PassType
    <3>2. QED
      BY <1>0, <2>2, <3>1, GotoType DEF PCs
  <2>3. QED
    BY <1>2, <2>1, <2>2 DEF triggerReconcile
<1>3. Local'
  <2>1. CASE noTrigger
    BY <1>0, <2>1 DEF noTrigger, Local
  <2>2. CASE HandleAddBackend \/ HandleUpdateBackend
    <3>1. \E row \in BackendRow : triggerReconcile(row.config)
      BY <1>0, <2>2 DEF HandleAddBackend, HandleUpdateBackend
    <3>2. QED
      BY <1>2, <3>1 DEF BackendRow
  <2>3. CASE HandleDeleteBackend
    BY <1>0, <1>2, <2>3 DEF HandleDeleteBackend
  <2>4. QED
    BY <2>1, <2>2, <2>3
       DEF Environment, HandleCreateConfig, HandleUpdateConfig, HandleDeleteConfig,
           HandleConfigureDNSProvider, HandleDeleteDNSProvider, HealthResult
<1>4. StoreTypeOK'
  <2>1. CASE HandleCreateConfig \/ HandleUpdateConfig \/ HandleDeleteConfig
    BY <1>0, <2>1, ConfigHandlersType
       DEF HandleCreateConfig, HandleUpdateConfig, HandleDeleteConfig
  <2>2. CASE HandleAddBackend \/ HandleUpdateBackend \/ HandleDeleteBackend \/ HealthResult
    BY <1>0, <2>2, BackendHandlersType
       DEF HandleAddBackend, HandleUpdateBackend, HandleDeleteBackend, HealthResult
  <2>3. CASE HandleConfigureDNSProvider \/ HandleDeleteDNSProvider
    <3>1. CASE HandleConfigureDNSProvider
      <4>1. PICK row \in ProviderInputs : PutDNSProvider(row.config, row.provider)
        BY <3>1 DEF HandleConfigureDNSProvider
      <4>2. row.config \in DOMAIN configs /\ row.provider \in ProviderRow
        BY <1>0, <4>1 DEF PutDNSProvider
      <4>3. QED
        BY <1>0, <4>1, <4>2, ProviderHandlersType
    <3>2. CASE HandleDeleteDNSProvider
      BY <1>0, <3>2, ProviderHandlersType DEF HandleDeleteDNSProvider
    <3>3. QED
      BY <2>3, <3>1, <3>2
  <2>4. QED
    BY <2>1, <2>2, <2>3 DEF Environment
<1>5. QED
  BY <1>1, <1>3, <1>4 DEF TypeOK, RecTypeOK, Zone, Local, Memory, Counters

(* A restart of the process. *)
LEMMA RestartType ==
    ASSUME TypeOK, Restart
    PROVE  TypeOK'
<1>0. StoreTypeOK /\ Zone /\ Counters /\ NoPass \in PassType
  BY RecTypeParts, NoPassType DEF TypeOK
<1>1. StoreTypeOK'
  BY <1>0 DEF Restart, storeVars, StoreTypeOK, Integrity
<1>2. Memory'
  BY EmptyTableType DEF Restart, Memory, EmptyTable
<1>3. Zone' /\ Local'
  BY <1>0 DEF Restart, Zone, Local, PCs
<1>4. Counters'
  BY <1>0, ReconcilerAssumption DEF ReconcilerAssumption, Restart, Counters
<1>5. QED
  BY <1>1, <1>2, <1>3, <1>4 DEF TypeOK, RecTypeOK, Zone, Local, Memory, Counters

(* Every step keeps the type. *)
LEMMA TypeNext == TypeOK /\ [Next]_vars => TypeOK'
<1> SUFFICES ASSUME TypeOK, [Next]_vars PROVE TypeOK'
  OBVIOUS
<1>1. CASE UNCHANGED vars
  BY <1>1 DEF vars, storeVars, recVars, TypeOK, StoreTypeOK, Integrity, RecTypeOK
<1>2. CASE Tick \/ NextConfig \/ EndOfList
  BY <1>2, LoopStepsType
<1>3. ASSUME NEW p \in Passes, Step(p)
      PROVE  TypeOK'
  BY <1>3, ReadStepsType, ProviderStepsType, EndStepsType DEF Step
<1>4. CASE Environment
  BY <1>4, EnvironmentType
<1>5. CASE Restart
  BY <1>5, RestartType
<1>6. QED
  BY <1>1, <1>2, <1>3, <1>4, <1>5 DEF Next

(* The database keeps its integrity and the reconciler its types.           *)
THEOREM TypeCorrect == Spec => []TypeOK
BY TypeInit, TypeNext, PTL DEF Spec
=============================================================================

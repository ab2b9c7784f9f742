------------------------------ MODULE Reconciler ------------------------------
(***************************************************************************)
(* The DNS reconciler (internal/dns/reconciler.go) with the Cloudflare     *)
(* provider it drives (internal/dns/cloudflare.go), the handlers that      *)
(* change the database under it and trigger it (internal/handlers), and    *)
(* the zones at the DNS provider.                                          *)
(*                                                                         *)
(* Passes are goroutines: "loop" is the periodic ReconcileOnce, a member   *)
(* of Callers is one goroutine started by triggerReconcile.  Every access  *)
(* of a pass to shared state (a query, lastRecords under its mutex, one    *)
(* call of the provider's API) is a step of its own, so passes interleave  *)
(* between any two of them, and a provider call may fail with or without   *)
(* having taken effect (the answer was lost).                              *)
(***************************************************************************)
EXTENDS Store, FiniteSets

CONSTANTS
    Callers,        \* bound: on-demand passes in flight; {} when no reconciler is set
    Fallback,       \* Reconciler.provider: the zone of the default provider, or NoProvider
    FaultPoints,    \* the calls that may fail, a subset of AllFaultPoints
    MaxFaults,      \* bound: failing calls in a behaviour
    MaxRestarts,    \* bound: restarts of the process in a behaviour
    ClientActs,     \* what clients of the API do, a subset of AllClientActs
    ConfigInputs,   \* config rows that clients send
    BackendInputs,  \* backend rows that clients send
    ProviderInputs, \* provider rows that clients send, each with its config
    Probed          \* statuses that the result processor may store

AllFaultPoints == {"store", "upsert_list", "upsert_write", "delete_list", "delete_write"}

(* UpdateConfig may change dns_name; backends of a config may share an IP.  *)
AllClientActs == {"rename", "share_ip"}

Passes == {"loop"} \cup Callers

NoProvider == "none"

ASSUME ReconcilerAssumption ==
    /\ "loop" \notin Callers
    /\ Fallback \in Zones \cup {NoProvider}
    /\ FaultPoints \subseteq AllFaultPoints
    /\ MaxFaults \in Nat
    /\ MaxRestarts \in Nat
    /\ ClientActs \subseteq AllClientActs
    /\ ConfigInputs \subseteq ConfigRow
    /\ BackendInputs \subseteq BackendRow
    /\ ProviderInputs \subseteq [config : Configs, provider : ProviderRow]
    /\ Probed \subseteq Statuses
    /\ Configs # {} /\ Names # {} /\ Zones # {} /\ TTLs # {}

VARIABLES
    dns,            \* dns[<<z, n>>][ip] is the TTL of A record n -> ip in zone z, 0 if there is none
    lastRecords,    \* Reconciler.lastRecords
    todo,           \* configs that the loop's ReconcileOnce listed and has not reached yet
    pc,             \* where each pass is
    pass,           \* the local variables of each pass
    ids,            \* listed records whose record id at the provider is still current
    undisturbed,    \* history: passes that listed the zone and had it to themselves since
    faults,         \* failing calls so far
    restarts        \* restarts so far

recVars == <<dns, lastRecords, todo, pc, pass, ids, undisturbed, faults, restarts>>
vars == <<storeVars, recVars>>

(***************************************************************************)
(* A sorted slice of addresses is the number of times each address occurs. *)
(* Two sorted slices are equal iff these numbers are.                      *)
(***************************************************************************)
NoIPs == [ip \in IPs |-> 0]
Set(ips) == {ip \in IPs : ips[ip] > 0}
NoRecords == [ip \in IPs |-> 0]

(* Where records are: a name in a zone. *)
Places == Zones \X Names
Published(n) == {ip \in IPs : dns[n][ip] # 0}

PCs == {"idle", "get", "next", "backends", "states", "decide", "resolve",
        "list", "prune", "apply", "dlist", "erase", "record", "finish", "fail"}

NoPass == [config |-> CHOOSE c \in Configs : TRUE,
           cfg    |-> CHOOSE r \in ConfigRow : TRUE,
           zone   |-> CHOOSE z \in Zones : TRUE,
           rows   |-> EmptyTable, want |-> NoIPs,
           found  |-> NoRecords, del |-> {}, left |-> NoIPs]

(* The variables are the ones the code keeps for the pass; of found, the    *)
(* records that were listed, only content and TTL matter (ids tracks the    *)
(* record ids), del and left are what the two loops have still to visit.    *)
(* zone is that of the provider which resolveProvider returned.             *)
PassType == [config : Configs, cfg : ConfigRow, zone : Zones,
             rows : Table(Backends, BackendRow),
             want : [IPs -> Nat], found : [IPs -> TTLs \cup {0}],
             del : SUBSET IPs, left : [IPs -> Nat]]

RecTypeOK ==
    /\ dns \in [Places -> [IPs -> TTLs \cup {0}]]
    /\ DOMAIN lastRecords \subseteq Configs
    /\ lastRecords \in [DOMAIN lastRecords -> [IPs -> Nat]]
    /\ todo \in Table(Configs, ConfigRow)
    /\ pc \in [Passes -> PCs]
    /\ pass \in [Passes -> PassType]
    /\ ids \in [Passes -> SUBSET IPs]
    /\ undisturbed \subseteq Passes
    /\ faults \in 0 .. MaxFaults
    /\ restarts \in 0 .. MaxRestarts

(* The type of the database and of the reconciler's memory. *)
TypeOK == StoreTypeOK /\ RecTypeOK

RecInit ==
    /\ dns = [n \in Places |-> NoRecords]
    /\ lastRecords = EmptyTable
    /\ todo = EmptyTable
    /\ pc = [p \in Passes |-> "idle"]
    /\ pass = [p \in Passes |-> NoPass]
    /\ ids = [p \in Passes |-> {}]
    /\ undisturbed = {}
    /\ faults = 0
    /\ restarts = 0

Init == StoreInit /\ RecInit

-----------------------------------------------------------------------------
(* Pure functions of reconciler.go.                                         *)

(* getHealthyBackends, given the two query results. *)
healthyBackends(rows, states) ==
    {b \in DOMAIN rows : rows[b].enabled /\ b \in DOMAIN states /\ states[b] = "healthy"}

(* A weight that is not positive counts as 1. *)
effectiveWeight(row) == IF row.weight <= 0 THEN 1 ELSE row.weight

(* The lowest weight wins; on a tie the first of the slice, which is sorted *)
(* by created_at DESC: the youngest backend.                                *)
selectWeighted(rows, healthy) ==
    {b \in healthy : \A o \in healthy :
        \/ effectiveWeight(rows[b]) < effectiveWeight(rows[o])
        \/ effectiveWeight(rows[b]) = effectiveWeight(rows[o]) /\ b >= o}

(* Mutant: the load balancing method is ignored. *)
allBackendsForDNS(method, rows, healthy) == healthy

backendsForDNS(method, rows, healthy) ==
    IF method = "weighted" THEN selectWeighted(rows, healthy) ELSE healthy

(* An address of a backend is never empty (CreateBackendRequest requires    *)
(* one and UpdateBackend keeps the old one), so none is left out.           *)
extractIPs(rows, bs) == [ip \in IPs |-> Cardinality({b \in bs : rows[b].ip = ip})]

(* Mutants: only the lengths are compared; only the first time counts. *)
lengthDiffers(c, ips) ==
    c \notin DOMAIN lastRecords \/ Cardinality(Set(lastRecords[c])) # Cardinality(Set(ips))
firstTime(c, ips) == c \notin DOMAIN lastRecords

needsUpdate(c, ips) == c \notin DOMAIN lastRecords \/ lastRecords[c] # ips

(* The provider of c, by its zone: its own, if usable, else the default     *)
(* one, which may be nil.                                                   *)
resolveProvider(c) ==
    IF c \in DOMAIN providers /\ providers[c] \in Zones THEN providers[c] ELSE Fallback

(* Where the pass with local variables l lists, creates and deletes. *)
place(l) == <<l.zone, l.cfg.name>>

-----------------------------------------------------------------------------
(* Steps of a pass. *)

(* The pass p goes to l with its local variables changed to v. *)
Goto(p, l, v) ==
    /\ pc' = [pc EXCEPT ![p] = l]
    /\ pass' = [pass EXCEPT ![p] = v]

(* What reconcileConfig returned is stored; the loop goes on with the next  *)
(* config, an on-demand pass ends.                                          *)
Leave(p) ==
    /\ Goto(p, IF p = "loop" THEN "next" ELSE "idle", NoPass)
    /\ ids' = [ids EXCEPT ![p] = {}]
    /\ undisturbed' = undisturbed \ {p}

(* A call at the given point fails.  A failing pass goes to l. *)
Fault(point) ==
    /\ point \in FaultPoints
    /\ faults < MaxFaults
    /\ faults' = faults + 1

noFault == UNCHANGED faults

(* ReconcileOnce, from Start or from the ticker: list the configs.  (When   *)
(* that fails it returns, and nothing has changed.)                         *)
Tick ==
    /\ pc["loop"] = "idle"
    /\ pc' = [pc EXCEPT !["loop"] = "next"]
    /\ todo' = configs
    /\ UNCHANGED <<storeVars, dns, lastRecords, pass, ids, undisturbed, faults, restarts>>

(* The next config of the list, as it was when it was listed. *)
NextConfig ==
    /\ pc["loop"] = "next"
    /\ \E c \in DOMAIN todo :
          /\ Goto("loop", "backends", [NoPass EXCEPT !.config = c, !.cfg = todo[c]])
          /\ todo' = Drop(todo, {c})
    /\ UNCHANGED <<storeVars, dns, lastRecords, ids, undisturbed, faults, restarts>>

EndOfList ==
    /\ pc["loop"] = "next"
    /\ DOMAIN todo = {}
    /\ pc' = [pc EXCEPT !["loop"] = "idle"]
    /\ UNCHANGED <<storeVars, dns, lastRecords, todo, pass, ids, undisturbed, faults, restarts>>

(* ReconcileConfig reads the config; it gives up when it is gone, and      *)
(* stores no error.                                                        *)
GetConfig(p) ==
    /\ pc[p] = "get"
    /\ LET c == pass[p].config
       IN  \/ /\ c \in DOMAIN configs
              /\ Goto(p, "backends", [pass[p] EXCEPT !.cfg = configs[c]])
              /\ noFault
           \/ /\ c \notin DOMAIN configs
              /\ Goto(p, "idle", NoPass)
              /\ noFault
           \/ Fault("store") /\ Goto(p, "idle", NoPass)
    /\ UNCHANGED <<storeVars, dns, lastRecords, todo, ids, undisturbed, restarts>>

ReadBackends(p) ==
    /\ pc[p] = "backends"
    /\ \/ /\ Goto(p, "states", [pass[p] EXCEPT !.rows = ListBackends(pass[p].config)])
          /\ noFault
       \/ Fault("store") /\ Goto(p, "fail", pass[p])
    /\ UNCHANGED <<storeVars, dns, lastRecords, todo, ids, undisturbed, restarts>>

(* The second query, and the choice of the addresses to publish. *)
ReadStates(p) ==
    /\ pc[p] = "states"
    /\ \/ LET l == pass[p]
              healthy == healthyBackends(l.rows, GetHealthStates(l.config))
              ips == extractIPs(l.rows, backendsForDNS(l.cfg.method, l.rows, healthy))
          IN  /\ Goto(p, "decide", [l EXCEPT !.want = ips, !.rows = EmptyTable])
              /\ noFault
       \/ Fault("store") /\ Goto(p, "fail", pass[p])
    /\ UNCHANGED <<storeVars, dns, lastRecords, todo, ids, undisturbed, restarts>>

(* needsUpdate: compare with lastRecords under the read lock. *)
Decide(p) ==
    /\ pc[p] = "decide"
    /\ Goto(p, IF needsUpdate(pass[p].config, pass[p].want) THEN "resolve" ELSE "finish",
            pass[p])
    /\ UNCHANGED <<storeVars, dns, lastRecords, todo, ids, undisturbed, faults, restarts>>

(* updateDNS goes on with a provider: p updates the records in its zone.    *)
(* Without one it returns, successfully, at once.                           *)
UpdateWith(p, provider) ==
    \/ /\ provider \in Zones
       /\ Goto(p, IF Set(pass[p].want) = {} THEN "dlist" ELSE "list",
               [pass[p] EXCEPT !.zone = provider])
    \/ provider = NoProvider /\ Goto(p, "finish", pass[p])

(* A query that fails counts as a config that has no provider of its own.   *)
Resolve(p) ==
    /\ pc[p] = "resolve"
    /\ \/ UpdateWith(p, resolveProvider(pass[p].config)) /\ noFault
       \/ UpdateWith(p, Fallback) /\ Fault("store")
    /\ UNCHANGED <<storeVars, dns, lastRecords, todo, ids, undisturbed, restarts>>

-----------------------------------------------------------------------------
(* The provider's API, as cloudflare.go uses it.  A write that changed the  *)
(* records at place n disturbs the other passes that listed n.              *)
Write(p, n, ip, ttl) ==
    /\ dns' = [dns EXCEPT ![n] = [@ EXCEPT ![ip] = ttl]]
    /\ undisturbed' = {q \in undisturbed : q = p \/ place(pass[q]) # n}

(* DeleteDNSRecord: the id of the deleted record is no longer valid for any *)
(* pass that listed it.                                                     *)
ApiDelete(p, n, ip) ==
    /\ Write(p, n, ip, 0)
    /\ ids' = [q \in Passes |-> IF place(pass[q]) = n THEN ids[q] \ {ip} ELSE ids[q]]

ApiPut(p, n, ip, ttl) == Write(p, n, ip, ttl) /\ UNCHANGED ids

noWrite == UNCHANGED <<dns, ids, undisturbed>>

(* ListDNSRecords: p now knows the records of n and their ids. *)
ApiList(p, n) ==
    /\ ids' = [ids EXCEPT ![p] = Published(n)]
    /\ undisturbed' = undisturbed \cup {p}
    /\ UNCHANGED dns

-----------------------------------------------------------------------------
(* UpsertRecord. *)
(* Mutant: unwanted records are left alone. *)
neverPrune(del) == "apply"

afterPrune(del) == IF del = {} THEN "apply" ELSE "prune"

(* Mutant: all listed records are deleted, and the wanted ones made again. *)
listed(n, want) == Published(n)

(* The listed records that are no longer wanted. *)
unwanted(n, want) == Published(n) \ Set(want)

UpsertList(p) ==
    /\ pc[p] = "list"
    /\ LET l == pass[p]
           n == place(l)
           del == unwanted(n, l.want)
       IN  \/ /\ ApiList(p, n)
              /\ Goto(p, afterPrune(del),
                      [l EXCEPT !.found = dns[n], !.del = del, !.left = l.want])
              /\ noFault
           \/ Fault("upsert_list") /\ Goto(p, "fail", l) /\ noWrite
    /\ UNCHANGED <<storeVars, lastRecords, todo, restarts>>

(* One iteration of "Delete records that are no longer wanted", in the      *)
(* order of a Go map: any.  A record that is already gone is an error here. *)
UpsertPrune(p) ==
    /\ pc[p] = "prune"
    /\ \E ip \in pass[p].del :
          LET n == place(pass[p])
              del == pass[p].del \ {ip}
          IN  \/ /\ ip \in ids[p]
                 /\ ApiDelete(p, n, ip)
                 /\ Goto(p, afterPrune(del), [pass[p] EXCEPT !.del = del])
                 /\ noFault
              \/ ip \notin ids[p] /\ noWrite /\ Goto(p, "fail", pass[p]) /\ noFault
              \/ /\ Fault("upsert_write")
                 /\ Goto(p, "fail", pass[p])
                 /\ noWrite \/ (ip \in ids[p] /\ ApiDelete(p, n, ip))
    /\ UNCHANGED <<storeVars, lastRecords, todo, restarts>>

afterApply(left) == IF Set(left) = {} THEN "record" ELSE "apply"

(* One iteration of "Create or update records to match desired state", in   *)
(* the order of the sorted slice: nothing to do, an update of the TTL (an   *)
(* error when the record was deleted meanwhile), or a create (an error when *)
(* an identical record exists).                                             *)
UpsertApply(p) ==
    /\ pc[p] = "apply"
    /\ \E ip \in Set(pass[p].left) :
          LET l == pass[p]
              n == place(l)
              left == [l.left EXCEPT ![ip] = @ - 1]
              exists == l.found[ip] # 0
              accepted == IF exists THEN ip \in ids[p] ELSE dns[n][ip] = 0
          IN  /\ \A o \in Set(l.left) : ip <= o
              /\ \/ /\ l.found[ip] = l.cfg.ttl
                    /\ noWrite /\ noFault
                    /\ Goto(p, afterApply(left), [l EXCEPT !.left = left])
                 \/ /\ l.found[ip] # l.cfg.ttl
                    /\ accepted
                    /\ ApiPut(p, n, ip, l.cfg.ttl) /\ noFault
                    /\ Goto(p, afterApply(left), [l EXCEPT !.left = left])
                 \/ /\ l.found[ip] # l.cfg.ttl
                    /\ ~accepted
                    /\ noWrite /\ noFault /\ Goto(p, "fail", l)
                 \/ /\ l.found[ip] # l.cfg.ttl
                    /\ Fault("upsert_write")
                    /\ Goto(p, "fail", l)
                    /\ noWrite \/ (accepted /\ ApiPut(p, n, ip, l.cfg.ttl))
    /\ UNCHANGED <<storeVars, lastRecords, todo, restarts>>

-----------------------------------------------------------------------------
(* DeleteRecord.  Whatever it returns, updateDNS goes on to Record. *)
(* Mutant: nothing is deleted. *)
neverErase(del) == "record"

afterErase(del) == IF del = {} THEN "record" ELSE "erase"

DeleteList(p) ==
    /\ pc[p] = "dlist"
    /\ LET n == place(pass[p])
       IN  \/ /\ ApiList(p, n)
              /\ Goto(p, afterErase(Published(n)), [pass[p] EXCEPT !.del = Published(n)])
              /\ noFault
           \/ Fault("delete_list") /\ Goto(p, "record", pass[p]) /\ noWrite
    /\ UNCHANGED <<storeVars, lastRecords, todo, restarts>>

(* One iteration of "Delete all matching records"; "not found" is skipped.  *)
DeleteErase(p) ==
    /\ pc[p] = "erase"
    /\ \E ip \in pass[p].del :
          LET n == place(pass[p])
              del == pass[p].del \ {ip}
          IN  \/ /\ IF ip \in ids[p] THEN ApiDelete(p, n, ip) ELSE noWrite
                 /\ Goto(p, afterErase(del), [pass[p] EXCEPT !.del = del])
                 /\ noFault
              \/ /\ Fault("delete_write")
                 /\ Goto(p, "record", pass[p])
                 /\ noWrite \/ (ip \in ids[p] /\ ApiDelete(p, n, ip))
    /\ UNCHANGED <<storeVars, lastRecords, todo, restarts>>

-----------------------------------------------------------------------------
(* "Update last known state". *)
Record(p) ==
    /\ pc[p] = "record"
    /\ lastRecords' = Put(lastRecords, pass[p].config, pass[p].want)
    /\ Goto(p, "finish", pass[p])
    /\ UNCHANGED <<storeVars, dns, todo, ids, undisturbed, faults, restarts>>

(* The outcome is stored with the config: no error, or one.  Failing to     *)
(* store it is only logged.                                                 *)
Finish(p) ==
    /\ pc[p] \in {"finish", "fail"}
    /\ \/ SetConfigReconcileError(pass[p].config, pc[p] = "fail") /\ noFault
       \/ Fault("store") /\ UNCHANGED storeVars
    /\ Leave(p)
    /\ UNCHANGED <<dns, lastRecords, todo, restarts>>

Step(p) ==
    \/ GetConfig(p) \/ ReadBackends(p) \/ ReadStates(p) \/ Decide(p) \/ Resolve(p)
    \/ UpsertList(p) \/ UpsertPrune(p) \/ UpsertApply(p)
    \/ DeleteList(p) \/ DeleteErase(p)
    \/ Record(p) \/ Finish(p)

-----------------------------------------------------------------------------
(* The handlers.  Those that change a backend start an on-demand pass for   *)
(* its config; those that change a config or a provider do not.             *)
triggerReconcile(c) ==
    \/ Callers = {} /\ UNCHANGED <<pc, pass>>
    \/ \E p \in Callers : /\ pc[p] = "idle"
                          /\ Goto(p, "get", [NoPass EXCEPT !.config = c])

noTrigger == UNCHANGED <<pc, pass>>

HandleCreateConfig == \E c \in Configs, row \in ConfigInputs : CreateConfig(c, row) /\ noTrigger

HandleUpdateConfig ==
    \E c \in DOMAIN configs, row \in ConfigInputs :
        /\ "rename" \in ClientActs \/ row.name = configs[c].name
        /\ UpdateConfig(c, row)
        /\ noTrigger

HandleDeleteConfig == \E c \in DOMAIN configs : DeleteConfig(c) /\ noTrigger

(* The client gives the address to no other backend of the config. *)
ipIsFree(b, row) ==
    \A o \in BackendsOf(row.config) \ {b} : backends[o].ip # row.ip

HandleAddBackend ==
    \E row \in BackendInputs :
        /\ "share_ip" \in ClientActs \/ ipIsFree(0, row)
        /\ CreateBackend(row)
        /\ triggerReconcile(row.config)

(* Only the fields that the request gives are replaced: any new row.  The   *)
(* pass is for the config that the backend belongs to afterwards.           *)
HandleUpdateBackend ==
    \E b \in DOMAIN backends, row \in BackendInputs :
        /\ "share_ip" \in ClientActs \/ ipIsFree(b, row)
        /\ UpdateBackend(b, row)
        /\ triggerReconcile(row.config)

HandleDeleteBackend ==
    \E b \in DOMAIN backends : DeleteBackend(b) /\ triggerReconcile(backends[b].config)

HandleConfigureDNSProvider ==
    \E row \in ProviderInputs : PutDNSProvider(row.config, row.provider) /\ noTrigger

HandleDeleteDNSProvider == \E c \in DOMAIN providers : DeleteDNSProvider(c) /\ noTrigger

(* The result processor of the health checks stores a status. *)
HealthResult ==
    \E b \in DOMAIN backends, s \in Probed : UpdateHealthState(b, s) /\ noTrigger

(* The process dies and starts again: goroutines and lastRecords are lost,  *)
(* the database and the zones stay.                                         *)
Restart ==
    /\ restarts < MaxRestarts
    /\ restarts' = restarts + 1
    /\ lastRecords' = EmptyTable
    /\ todo' = EmptyTable
    /\ pc' = [p \in Passes |-> "idle"]
    /\ pass' = [p \in Passes |-> NoPass]
    /\ ids' = [p \in Passes |-> {}]
    /\ undisturbed' = {}
    /\ UNCHANGED <<storeVars, dns, faults>>

Environment ==
    /\ \/ HandleCreateConfig \/ HandleUpdateConfig \/ HandleDeleteConfig
       \/ HandleAddBackend \/ HandleUpdateBackend \/ HandleDeleteBackend
       \/ HandleConfigureDNSProvider \/ HandleDeleteDNSProvider
       \/ HealthResult
    /\ UNCHANGED <<dns, lastRecords, todo, ids, undisturbed, faults, restarts>>

Next ==
    \/ Tick \/ NextConfig \/ EndOfList
    \/ \E p \in Passes : Step(p)
    \/ Environment
    \/ Restart

Spec == Init /\ [][Next]_vars

(* The ticker fires again and again, a goroutine that can run does, and a   *)
(* ReconcileOnce visits its list to the end.  Handlers, probes, faults and  *)
(* restarts happen or not.                                                  *)
Fairness ==
    /\ WF_vars(Tick) /\ WF_vars(NextConfig) /\ WF_vars(EndOfList)
    /\ \A p \in Passes : WF_vars(Step(p))

LiveSpec == Spec /\ Fairness
-----------------------------------------------------------------------------
(* What must be published for c, from the rows as they are now. *)
Target(c) ==
    LET rows == ListBackends(c)
    IN  extractIPs(rows, backendsForDNS(configs[c].method, rows,
                                        healthyBackends(rows, GetHealthStates(c))))

(* Where the records of c are to be: in the zone of its provider. *)
PlaceOf(c) == <<resolveProvider(c), configs[c].name>>

(* c is published as its rows say; there is nothing to say without provider. *)
Agrees(c) == resolveProvider(c) # NoProvider => Published(PlaceOf(c)) = Set(Target(c))

(* p is between its listing of the records of n and the end of its update. *)
Updating(p, n) == pc[p] \in {"prune", "apply", "erase", "record"} /\ place(pass[p]) = n

(***************************************************************************)
(* UndisturbedUpsertExact.  An upsert that listed the zone and was not     *)
(* disturbed by another pass since leaves exactly the selected addresses,  *)
(* with the TTL of the config, when it is about to write lastRecords: it   *)
(* repairs whatever earlier failed, crashed or overlapping passes left     *)
(* behind (CloudflareProvider.UpsertRecord, updateDNS).                    *)
(***************************************************************************)
UndisturbedUpsertExact ==
    \A p \in undisturbed :
        pc[p] = "record" /\ Set(pass[p].want) # {} =>
            dns[place(pass[p])] =
                [ip \in IPs |-> IF ip \in Set(pass[p].want) THEN pass[p].cfg.ttl ELSE 0]

(***************************************************************************)
(* WeightedOneRecord.  README: with the weighted method "only one backend  *)
(* is active in DNS at a time".  No step of a pass that creates records    *)
(* for a weighted config leaves two of them.                               *)
(***************************************************************************)
WeightedStep ==
    \A p \in Passes :
        /\ pc[p] = "apply" /\ pass[p].cfg.method = "weighted"
        /\ pc'[p] # pc[p] \/ pass'[p] # pass[p]
        => Cardinality({ip \in IPs : dns'[place(pass[p])][ip] # 0}) <= 1

WeightedOneRecord == [][WeightedStep]_vars

(***************************************************************************)
(* CacheTruth.  lastRecords of a config is what the zone of its provider   *)
(* holds for it, whenever no pass is updating it: needsUpdate compares     *)
(* with the truth.                                                         *)
(***************************************************************************)
CacheTruth ==
    \A c \in DOMAIN configs \cap DOMAIN lastRecords :
        /\ resolveProvider(c) # NoProvider
        /\ \A p \in Passes : ~Updating(p, PlaceOf(c))
        => Published(PlaceOf(c)) = Set(lastRecords[c])

(***************************************************************************)
(* SuppressedOnlyWhenActive.  The comment of selectWeighted: "needsUpdate  *)
(* suppresses a DNS write when the same backend is already active".  When  *)
(* the write is suppressed, the zone that would have been written to holds *)
(* what was selected.                                                      *)
(***************************************************************************)
SuppressedOnlyWhenActive ==
    \A p \in Passes :
        LET z == resolveProvider(pass[p].config)
        IN  /\ pc[p] = "decide" /\ ~needsUpdate(pass[p].config, pass[p].want)
            /\ z # NoProvider
            => Published(<<z, pass[p].cfg.name>>) = Set(pass[p].want)

(***************************************************************************)
(* NXDOMAINWhenNoneHealthy.  updateDNS: with no healthy backend "delete    *)
(* the DNS record so clients get an honest NXDOMAIN rather than sending    *)
(* traffic to unhealthy endpoints".  No record is left when such an update *)
(* is about to be remembered as done.                                      *)
(***************************************************************************)
NXDOMAINWhenNoneHealthy ==
    \A p \in Passes :
        pc[p] = "record" /\ Set(pass[p].want) = {} => Published(place(pass[p])) = {}

(***************************************************************************)
(* Converges.  README: all healthy backends (round robin), or the one with *)
(* the lowest weight (weighted), are published.  Once the database stays   *)
(* as it is, the zone of its provider agrees with it for good, for every   *)
(* config that has one.                                                    *)
(***************************************************************************)
Converges ==
    (<>[][FALSE]_<<configs, backends, status, providers>>)
        => <>[](\A c \in DOMAIN configs : Agrees(c))

(* What p has read so far for its config is what the database holds now. *)
UpToDate(p) ==
    pc[p] \notin {"idle", "next", "get", "finish", "fail"} =>
        \E c \in DOMAIN configs :
            /\ pass[p].config = c
            /\ pass[p].cfg = configs[c]
            /\ pc[p] = "states" => pass[p].rows = ListBackends(c)
            /\ pc[p] \notin {"backends", "states"} => pass[p].want = Target(c)

InStep ==
    /\ \A c \in DOMAIN configs : Agrees(c)
    /\ \A c \in DOMAIN todo : c \in DOMAIN configs /\ todo[c] = configs[c]
    /\ \A p \in Passes : UpToDate(p)

(***************************************************************************)
(* StaysInStep.  When the zones agree with the database and no pass works  *)
(* with rows that are out of date, only a change of the database can end   *)
(* this: passes that overlap, fail half-way, repeat what was done, write   *)
(* to the zone of a provider replaced since or die with the process never  *)
(* take a record away that is to be published nor publish another one, not *)
(* even for a moment.                                                      *)
(***************************************************************************)
StaysInStep ==
    [][UNCHANGED <<configs, backends, status, providers>> /\ InStep => InStep']_vars
=============================================================================

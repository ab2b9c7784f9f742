------------------------------- MODULE Access -------------------------------
(***************************************************************************)
(* Users, their roles and the roles of configurations: what a login writes *)
(* (internal/auth/oidc.go, SyncUser and syncRoles), what the handlers for  *)
(* roles write (internal/handlers/auth.go, config_roles.go and the role    *)
(* part of config.go) and the tables behind them (internal/store/user.go,  *)
(* session.go).                                                            *)
(*                                                                         *)
(* A request is a goroutine that makes one store call after the other with *)
(* no transaction around them; requests interleave between any two calls,  *)
(* and every call may fail.  A subject stands for the user it identifies   *)
(* (UNIQUE in the table users) and a role name for the role.  Tokens are   *)
(* taken as issued: their signature is not modelled.  A token that was     *)
(* issued may be used at any later time or never again, which stands for   *)
(* its expiry and for a logout that clears the cookie.                     *)
(***************************************************************************)
EXTENDS Integers

CONSTANTS
    Subjects,       \* users that may log in
    RoleNames,      \* the rows of the table roles
    OtherNames,     \* role names that are not rows of it
    DefaultRole,    \* OIDCConfig.DefaultRole
    ConfigIds,      \* ids that configurations may be given
    HTTPRequests,   \* requests in progress at the same time
    NameSets,       \* the sets of role names that requests and ID tokens carry
    MaxCalls,       \* bound: requests
    MaxStoreErrors  \* bound: store calls that fail

ASSUME AccessAssumption ==
    /\ RoleNames \cap OtherNames = {}
    /\ NameSets \subseteq SUBSET (RoleNames \cup OtherNames)
    /\ MaxCalls \in Nat
    /\ MaxStoreErrors \in Nat

Names == RoleNames \cup OtherNames

VARIABLES
    users,          \* table users
    inactive,       \* the users whose is_active is false
    userRoles,      \* table user_roles, as roles of each user
    configs,        \* table configs
    usedIds,        \* ids given so far: a new configuration has a new id
    configRoles,    \* table config_roles, as roles of each configuration
    tokens,         \* session tokens in use: the user and a copy of its roles
    req,            \* the requests in progress
    calls,          \* requests so far
    storeErrors     \* store calls that failed so far

userTables == <<users, inactive, userRoles>>
configTables == <<configs, usedIds, configRoles>>
accVars == <<userTables, configTables, tokens, req, calls, storeErrors>>

(***************************************************************************)
(* A request: where it is, the user or configuration it writes, the role   *)
(* names it was given, the roles left to add and to remove, and three      *)
(* history fields: the roles that OTHER requests gave to (given) and took  *)
(* from (taken) what this one writes, since it read the roles there, and   *)
(* the roles whose write failed and was passed over (skipped).             *)
(***************************************************************************)
LoginPCs == {"lookup", "create", "default", "update", "readRoles", "syncRoles", "session"}
ConfigPCs == {"readConfig", "removeRoles", "assignRoles", "inheritRoles"}
Idle == [pc |-> "idle"]
RequestAt(pcs, ids) ==
    [pc : pcs, id : ids, names : SUBSET Names, add : SUBSET RoleNames, remove : SUBSET RoleNames,
     given : SUBSET RoleNames, taken : SUBSET RoleNames, skipped : SUBSET RoleNames]
NewRequest(pc, id, names) ==
    [pc |-> pc, id |-> id, names |-> names, add |-> {}, remove |-> {},
     given |-> {}, taken |-> {}, skipped |-> {}]
Request == RequestAt(LoginPCs, Subjects) \cup RequestAt(ConfigPCs, ConfigIds) \cup {Idle}
Token == [user : Subjects, roles : SUBSET RoleNames]

(* The type of the tables and of the requests; user_roles and config_roles  *)
(* refer to rows that exist, as their foreign keys demand.                  *)
AccessTypeOK ==
    /\ users \subseteq Subjects
    /\ inactive \subseteq users
    /\ userRoles \in [Subjects -> SUBSET RoleNames]
    /\ \A u \in Subjects \ users : userRoles[u] = {}
    /\ configs \subseteq usedIds
    /\ usedIds \subseteq ConfigIds
    /\ configRoles \in [ConfigIds -> SUBSET RoleNames]
    /\ \A c \in ConfigIds \ configs : configRoles[c] = {}
    /\ tokens \subseteq Token
    /\ \A t \in tokens : t.user \in users
    /\ req \in [HTTPRequests -> Request]
    /\ calls \in 0 .. MaxCalls
    /\ storeErrors \in 0 .. MaxStoreErrors

(* The process starts with the database that earlier runs left: any users   *)
(* and configurations with any roles, and at most one token still in use,   *)
(* that may have been issued when the user had other roles.                 *)
AccessInit ==
    /\ users \in SUBSET Subjects
    /\ inactive = {}
    /\ userRoles \in [Subjects -> SUBSET RoleNames]
    /\ \A u \in Subjects \ users : userRoles[u] = {}
    /\ configs \in SUBSET ConfigIds
    /\ usedIds = configs
    /\ configRoles \in [ConfigIds -> SUBSET RoleNames]
    /\ \A c \in ConfigIds \ configs : configRoles[c] = {}
    /\ tokens \in {{}} \cup {{t} : t \in Token}
    /\ \A t \in tokens : t.user \in users
    /\ req = [p \in HTTPRequests |-> Idle]
    /\ calls = 0
    /\ storeErrors = 0

-----------------------------------------------------------------------------
At(p, pc) == req[p].pc = pc
Goto(p, pc) == req' = [req EXCEPT ![p].pc = pc]
Finish(p) == req' = [req EXCEPT ![p] = Idle]

(* The requests that write the roles of a user, or of a configuration, and  *)
(* have read them.                                                          *)
SyncsOf(u) == {q \in HTTPRequests : At(q, "syncRoles") /\ req[q].id = u}
UpdatesOf(c) == {q \in HTTPRequests :
                    req[q].pc \in {"removeRoles", "assignRoles", "inheritRoles"} /\ req[q].id = c}

(* The requests when roles are given or taken: those in others write the   *)
(* same roles and are told; p, that gives or takes, goes on as mine.        *)
ToldAll(others, given, taken) ==
    [q \in HTTPRequests |->
        IF q \in others
        THEN [req[q] EXCEPT !.given = @ \cup given, !.taken = @ \cup taken]
        ELSE req[q]]
Told(p, mine, others, given, taken) == [ToldAll(others, given, taken) EXCEPT ![p] = mine]

(* The store calls (internal/store/user.go).  AssignRole and                *)
(* AssignConfigRole are INSERT OR IGNORE; a name that is no role's is not   *)
(* found.                                                                   *)
GetRolesByName(names) == names \cap RoleNames
GetUserRoles(u) == userRoles[u]
GetUserByID(u) == [user |-> u, roles |-> GetUserRoles(u)]
AssignRole(u, r) == userRoles' = [userRoles EXCEPT ![u] = @ \cup {r}]
RemoveRole(u, r) == userRoles' = [userRoles EXCEPT ![u] = @ \ {r}]
GetConfigRoles(c) == configRoles[c]
PutConfigRole(c, r) == configRoles' = [configRoles EXCEPT ![c] = @ \cup {r}]
DropConfigRole(c, r) == configRoles' = [configRoles EXCEPT ![c] = @ \ {r}]

(* One more request is received. *)
Received == calls < MaxCalls /\ calls' = calls + 1

(* A store call of a request fails and its handler gives up; where it reads *)
(* on all the same, see SyncError and PassOver.                             *)
StoreFails(p) ==
    /\ req[p] # Idle
    /\ storeErrors < MaxStoreErrors
    /\ storeErrors' = storeErrors + 1
    /\ ~At(p, "syncRoles") /\ ~At(p, "inheritRoles")
    /\ Finish(p)
    /\ UNCHANGED <<userTables, configTables, tokens, calls>>

-----------------------------------------------------------------------------
(* Callback: the provider has vouched for u and for the role names of its  *)
(* ID token.                                                               *)
Callback(p, u, names) ==
    /\ Received
    /\ req[p] = Idle
    /\ req' = [req EXCEPT ![p] = NewRequest("lookup", u, names)]
    /\ UNCHANGED <<userTables, configTables, tokens, storeErrors>>

(* SyncUser: GetUserBySubject.  A user that is not active is turned away. *)
GetUserBySubject(p) ==
    /\ At(p, "lookup")
    /\ IF req[p].id \in inactive THEN Finish(p)
       ELSE Goto(p, IF req[p].id \in users THEN "update" ELSE "create")
    /\ UNCHANGED <<userTables, configTables, tokens, calls, storeErrors>>

(* CreateUser; another login may have created the user: UNIQUE. *)
CreateUser(p) ==
    /\ At(p, "create")
    /\ IF req[p].id \in users THEN Finish(p) ELSE Goto(p, "default")
    /\ users' = users \cup {req[p].id}
    /\ UNCHANGED <<inactive, userRoles, configTables, tokens, calls, storeErrors>>

(* syncRoles is called unless the token named no role (len(oidcRoles) > 0): *)
(* the user of such a token keeps the roles it has, although the comment of *)
(* SyncUser says "full diff-sync".  Then SyncUser reads the user again.     *)
afterUser(p) == IF req[p].names = {} THEN "session" ELSE "readRoles"

(* GetRoleByName(DefaultRole), AssignRole. *)
AssignDefaultRole(p) ==
    LET u == req[p].id
    IN  /\ At(p, "default")
        /\ IF DefaultRole \in RoleNames
           THEN /\ AssignRole(u, DefaultRole)
                /\ req' = Told(p, [req[p] EXCEPT !.pc = afterUser(p)], SyncsOf(u), {DefaultRole}, {})
           ELSE Finish(p) /\ UNCHANGED userRoles
        /\ UNCHANGED <<users, inactive, configTables, tokens, calls, storeErrors>>

(* UpdateUser writes the name, the address and the time of the login. *)
UpdateUser(p) ==
    /\ At(p, "update")
    /\ Goto(p, afterUser(p))
    /\ UNCHANGED <<userTables, configTables, tokens, calls, storeErrors>>

(* Mutant: the roles to remove are those of the token. *)
toRemoveNamed(current, names) == current \cap names

toAdd(current, names) == GetRolesByName(names \ current)
toRemove(current, names) == current \ names

(* syncRoles: GetUserRoles, and the difference to the names of the token.   *)
(* A name that is not a role's is skipped.                                  *)
ReadUserRoles(p) ==
    LET current == GetUserRoles(req[p].id)
    IN  /\ At(p, "readRoles")
        /\ req' = [req EXCEPT ![p].pc = "syncRoles",
                              ![p].add = toAdd(current, req[p].names),
                              ![p].remove = toRemove(current, req[p].names)]
        /\ UNCHANGED <<userTables, configTables, tokens, calls, storeErrors>>

(* ... AssignRole of a missing role, in any order, INSERT OR IGNORE. *)
SyncAssign(p, r) ==
    LET u == req[p].id
    IN  /\ At(p, "syncRoles")
        /\ r \in req[p].add
        /\ req' = Told(p, [req[p] EXCEPT !.add = @ \ {r}], SyncsOf(u), {r}, {})
        /\ AssignRole(u, r)
        /\ UNCHANGED <<users, inactive, configTables, tokens, calls, storeErrors>>

(* ... then RemoveRole of a stale one, in the order of a Go map. *)
SyncRemove(p, r) ==
    LET u == req[p].id
    IN  /\ At(p, "syncRoles")
        /\ req[p].add = {}
        /\ r \in req[p].remove
        /\ req' = Told(p, [req[p] EXCEPT !.remove = @ \ {r}], SyncsOf(u), {}, {r})
        /\ RemoveRole(u, r)
        /\ UNCHANGED <<users, inactive, configTables, tokens, calls, storeErrors>>

(* ... the errors of both are ignored: the login goes on without. *)
SyncError(p, r) ==
    /\ At(p, "syncRoles")
    /\ storeErrors < MaxStoreErrors
    /\ storeErrors' = storeErrors + 1
    /\ r \in req[p].add \/ (req[p].add = {} /\ r \in req[p].remove)
    /\ req' = [req EXCEPT ![p].add = @ \ {r}, ![p].remove = @ \ {r}, ![p].skipped = @ \cup {r}]
    /\ UNCHANGED <<userTables, configTables, tokens, calls>>

SyncDone(p) ==
    /\ At(p, "syncRoles")
    /\ req[p].add = {} /\ req[p].remove = {}
    /\ req' = [req EXCEPT ![p] = NewRequest("session", req[p].id, {})]
    /\ UNCHANGED <<userTables, configTables, tokens, calls, storeErrors>>

(* GetUserByID reads the roles again; CreateSession copies them. *)
CreateSession(p) ==
    /\ At(p, "session")
    /\ tokens' = tokens \cup {GetUserByID(req[p].id)}
    /\ Finish(p)
    /\ UNCHANGED <<userTables, configTables, calls, storeErrors>>

(* An operator of the database turns a user off; no handler does. *)
Deactivate(u) ==
    /\ u \in users \ inactive
    /\ inactive' = inactive \cup {u}
    /\ UNCHANGED <<users, userRoles, configTables, tokens, req, calls, storeErrors>>

-----------------------------------------------------------------------------
(* RequireRole looks at the roles in the token, RequireConfigAccess at the  *)
(* tables, except for an admin.                                             *)
RequireRole(t, roles) == t.roles \cap roles # {}
CanAccess(u, c) == userRoles[u] \cap configRoles[c] # {}
RequireConfigAccess(t, c) == "admin" \in t.roles \/ CanAccess(t.user, c)

(* AssignUserRole, for the admin routes. *)
AssignUserRole(t, u, r) ==
    /\ Received
    /\ RequireRole(t, {"admin"})
    /\ u \in users
    /\ AssignRole(u, r)
    /\ req' = ToldAll(SyncsOf(u), {r}, {})
    /\ UNCHANGED <<users, inactive, configTables, tokens, storeErrors>>

(* RemoveUserRole; a role the user does not have is no error. *)
RemoveUserRole(t, u, r) ==
    /\ Received
    /\ RequireRole(t, {"admin"})
    /\ RemoveRole(u, r)
    /\ req' = ToldAll(SyncsOf(u), {}, {r})
    /\ UNCHANGED <<users, inactive, configTables, tokens, storeErrors>>

-----------------------------------------------------------------------------
(* CreateConfig: the row, then the roles one by one; without roles in the   *)
(* request, those of the caller's token.                                    *)
CreateConfig(p, t, c, names) ==
    LET given == IF names = {} THEN t.roles ELSE names
    IN  /\ Received
        /\ req[p] = Idle
        /\ c \notin usedIds
        /\ configs' = configs \cup {c}
        /\ usedIds' = usedIds \cup {c}
        /\ req' = [req EXCEPT ![p] = [NewRequest("inheritRoles", c, given)
                                         EXCEPT !.add = GetRolesByName(given)]]
        /\ UNCHANGED <<userTables, configRoles, tokens, storeErrors>>

(* DeleteConfig: ON DELETE CASCADE takes the roles with it. *)
DeleteConfig(t, c) ==
    /\ Received
    /\ RequireRole(t, {"admin", "operator"}) /\ RequireConfigAccess(t, c)
    /\ c \in configs
    /\ configs' = configs \ {c}
    /\ configRoles' = [configRoles EXCEPT ![c] = {}]
    /\ req' = ToldAll(UpdatesOf(c), {}, configRoles[c])
    /\ UNCHANGED <<userTables, usedIds, tokens, storeErrors>>

(* UpdateConfigRoles: past the middleware, the configuration exists. *)
UpdateConfigRoles(p, t, c, names) ==
    /\ Received
    /\ req[p] = Idle
    /\ RequireRole(t, {"admin", "operator"}) /\ RequireConfigAccess(t, c)
    /\ c \in configs
    /\ req' = [req EXCEPT ![p] = NewRequest("readConfig", c, names)]
    /\ UNCHANGED <<userTables, configTables, tokens, storeErrors>>

(* Mutant: only the roles that are missing are added, although all of them  *)
(* are removed.                                                             *)
ReadMissingRoles(p) ==
    /\ At(p, "readConfig")
    /\ req' = [req EXCEPT ![p].pc = "removeRoles", ![p].remove = GetConfigRoles(req[p].id),
                          ![p].add = (req[p].names \cap RoleNames) \ configRoles[req[p].id]]
    /\ UNCHANGED <<userTables, configTables, tokens, calls, storeErrors>>

(* ... GetConfigRoles: the existing ones are to be removed, all of them. *)
ReadConfigRoles(p) ==
    /\ At(p, "readConfig")
    /\ req' = [req EXCEPT ![p].pc = "removeRoles", ![p].remove = GetConfigRoles(req[p].id),
                          ![p].add = GetRolesByName(req[p].names)]
    /\ UNCHANGED <<userTables, configTables, tokens, calls, storeErrors>>

RemoveConfigRole(p, r) ==
    LET c == req[p].id
    IN  /\ At(p, "removeRoles")
        /\ r \in req[p].remove
        /\ req' = Told(p, [req[p] EXCEPT !.remove = @ \ {r}], UpdatesOf(c), {}, {r})
        /\ DropConfigRole(c, r)
        /\ UNCHANGED <<userTables, configs, usedIds, tokens, calls, storeErrors>>

RemovedAll(p) ==
    /\ At(p, "removeRoles")
    /\ req[p].remove = {}
    /\ Goto(p, "assignRoles")
    /\ UNCHANGED <<userTables, configTables, tokens, calls, storeErrors>>

(* Mutant: no foreign key. *)
AssignAnyway(p, r) ==
    LET c == req[p].id
    IN  /\ req[p].pc \in {"assignRoles", "inheritRoles"}
        /\ r \in req[p].add
        /\ PutConfigRole(c, r)
        /\ req' = Told(p, [req[p] EXCEPT !.add = @ \ {r}], UpdatesOf(c), {r}, {})
        /\ UNCHANGED <<userTables, configs, usedIds, tokens, calls, storeErrors>>

(* AssignConfigRole, INSERT OR IGNORE.  When the configuration is gone the  *)
(* foreign key refuses the row: UpdateConfigRoles gives up and answers 500, *)
(* CreateConfig logs it and goes on.                                        *)
AssignConfigRole(p, r) ==
    LET c == req[p].id
    IN  /\ req[p].pc \in {"assignRoles", "inheritRoles"}
        /\ r \in req[p].add
        /\ IF c \in configs
           THEN /\ PutConfigRole(c, r)
                /\ req' = Told(p, [req[p] EXCEPT !.add = @ \ {r}], UpdatesOf(c), {r}, {})
           ELSE /\ IF At(p, "assignRoles") THEN Finish(p)
                   ELSE req' = [req EXCEPT ![p].add = @ \ {r}, ![p].skipped = @ \cup {r}]
                /\ UNCHANGED configRoles
        /\ UNCHANGED <<userTables, configs, usedIds, tokens, calls, storeErrors>>

(* Both handlers take any error of GetRoleByName for an unknown role and go *)
(* on to the next ("continue"), UpdateConfigRoles to its answer 200 too; of *)
(* AssignConfigRole an error is only logged by CreateConfig.                *)
PassOver(p, r) ==
    /\ req[p].pc \in {"assignRoles", "inheritRoles"}
    /\ r \in req[p].add
    /\ storeErrors < MaxStoreErrors
    /\ storeErrors' = storeErrors + 1
    /\ req' = [req EXCEPT ![p].add = @ \ {r}, ![p].skipped = @ \cup {r}]
    /\ UNCHANGED <<userTables, configTables, tokens, calls>>

AssignedAll(p) ==
    /\ req[p].pc \in {"assignRoles", "inheritRoles"}
    /\ req[p].add = {}
    /\ Finish(p)
    /\ UNCHANGED <<userTables, configTables, tokens, calls, storeErrors>>

-----------------------------------------------------------------------------
LoginStep(p) ==
    \/ GetUserBySubject(p) \/ CreateUser(p) \/ AssignDefaultRole(p) \/ UpdateUser(p)
    \/ ReadUserRoles(p) \/ SyncDone(p) \/ CreateSession(p)
    \/ \E r \in RoleNames : SyncAssign(p, r) \/ SyncRemove(p, r) \/ SyncError(p, r)

ConfigStep(p) ==
    \/ ReadConfigRoles(p) \/ RemovedAll(p) \/ AssignedAll(p)
    \/ \E r \in RoleNames : RemoveConfigRole(p, r) \/ AssignConfigRole(p, r) \/ PassOver(p, r)

AccessNext ==
    \/ \E p \in HTTPRequests :
          \/ \E u \in Subjects, names \in NameSets : Callback(p, u, names)
          \/ \E t \in tokens, c \in ConfigIds, names \in NameSets :
                CreateConfig(p, t, c, names) \/ UpdateConfigRoles(p, t, c, names)
          \/ LoginStep(p) \/ ConfigStep(p) \/ StoreFails(p)
    \/ \E t \in tokens :
          \/ \E u \in Subjects, r \in RoleNames : AssignUserRole(t, u, r) \/ RemoveUserRole(t, u, r)
          \/ \E c \in ConfigIds : DeleteConfig(t, c)
    \/ \E u \in Subjects : Deactivate(u)

AccessSpec == AccessInit /\ [][AccessNext]_accVars

-----------------------------------------------------------------------------
(* What a request that writes the roles have of want can answer for: a role *)
(* is missing only if it is yet to be added, was taken away by others, or   *)
(* its write failed; and one too many is yet to be removed, was given by    *)
(* others, or its removal failed.                                           *)
Accounts(p, have, want) ==
    /\ want \subseteq have \cup req[p].add \cup req[p].taken \cup req[p].skipped
    /\ have \subseteq want \cup req[p].remove \cup req[p].given \cup req[p].skipped

(***************************************************************************)
(* LoginSyncsRoles.  When syncRoles is done the user has exactly the roles *)
(* that its ID token named (oidc.go, syncRoles: "a full diff"), except for *)
(* what OTHER requests (a second login of the user, an admin) wrote after  *)
(* it read the roles, and for reads and writes of a role that failed,      *)
(* whose errors are ignored.  A token that names no role gets there never: *)
(* its user keeps all roles, though the documents promise the diff on      *)
(* every login.                                                            *)
(***************************************************************************)
LoginSyncsRoles ==
    \A p \in HTTPRequests : At(p, "syncRoles") =>
        /\ req[p].names # {}
        /\ Accounts(p, userRoles[req[p].id], req[p].names \cap RoleNames)

(***************************************************************************)
(* UpdateReplacesRoles.  UpdateConfigRoles "replaces the full set of roles *)
(* for this configuration" (config_roles.go) and CreateConfig leaves the   *)
(* roles asked for, or those of its caller when it was asked for none: at  *)
(* the end, when the answer is 200, the configuration has exactly these,   *)
(* except for what others wrote meanwhile, a deletion included, and for    *)
(* roles passed over.  So the promise of the comment is kept but for one   *)
(* thing: a role whose lookup failed is missing and the answer is 200 all  *)
(* the same.                                                               *)
(***************************************************************************)
UpdateReplacesRoles ==
    \A p \in HTTPRequests : req[p].pc \in {"assignRoles", "inheritRoles"} =>
        Accounts(p, configRoles[req[p].id], req[p].names \cap RoleNames)
=============================================================================

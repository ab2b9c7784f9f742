---------------------------- MODULE AccessProofs ----------------------------
(***************************************************************************)
(* Proofs about Access and RateLimiter, what guards the HTTP routes, for   *)
(* any users, roles, configurations and number of concurrent requests:     *)
(* the tables and requests keep their types and their foreign keys, a      *)
(* login whose ID token names roles leaves exactly these, but for what     *)
(* others wrote and what failed, and so does an update of a                *)
(* configuration's roles; the rate limiter is exact for any clients, limit *)
(* and window.                                                             *)
(*                                                                         *)
(* Neither account is inductive: what a request still has to add must be   *)
(* among the roles asked for, what a login still has to remove must not    *)
(* be, and while an update removes the old roles it still has all of the   *)
(* new ones to add.  The foreign key of user_roles holds because a login   *)
(* past its lookup works on a user that exists: no handler deletes one.    *)
(***************************************************************************)
EXTENDS Access, RateLimiter, FiniteSetTheorems, TLAPS

LoginRequest == RequestAt(LoginPCs, Subjects)
ConfigRequest == RequestAt(ConfigPCs, ConfigIds)

(* Where a request has found or created its user, and where it has read the *)
(* roles of its configuration.                                              *)
UserPCs == {"default", "update", "readRoles", "syncRoles", "session"}
UpdatePCs == {"removeRoles", "assignRoles", "inheritRoles"}

(* The account of one request r for the roles have, as Accounts states it. *)
Account(r, have) ==
    /\ r.names \cap RoleNames \subseteq have \cup r.add \cup r.taken \cup r.skipped
    /\ have \subseteq (r.names \cap RoleNames) \cup r.remove \cup r.given \cup r.skipped
SyncOK(r, have) ==
    /\ r.add \subseteq r.names /\ r.remove \cap r.names = {}
    /\ Account(r, have)
UpdateOK(r, have) ==
    /\ r.add \subseteq r.names
    /\ r.pc = "removeRoles" => r.names \cap RoleNames \subseteq r.add
    /\ Account(r, have)

(* The invariant. *)
RequestsTyped == req \in [HTTPRequests -> Request]
KnownUser(p) ==
    /\ req[p].pc \in UserPCs => req[p].id \in users
    /\ req[p].pc \in {"readRoles", "syncRoles"} => req[p].names # {}
SyncInv(p) == req[p].pc = "syncRoles" => SyncOK(req[p], userRoles[req[p].id])
UpdateInv(p) == req[p].pc \in UpdatePCs => UpdateOK(req[p], configRoles[req[p].id])
RequestOK(q) == KnownUser(q) /\ SyncInv(q) /\ UpdateInv(q)
AccessInv == AccessTypeOK /\ \A q \in HTTPRequests : RequestOK(q)

(* Where a request is tells what kind of request it is. *)
LEMMA RequestKinds ==
    ASSUME NEW r \in Request
    PROVE  /\ r.pc \in LoginPCs => r \in LoginRequest
           /\ r.pc \in ConfigPCs => r \in ConfigRequest
           /\ r.pc \notin LoginPCs \cup ConfigPCs => r = Idle
           /\ Idle.pc = "idle"
BY DEF Request, RequestAt, LoginRequest, ConfigRequest, Idle, LoginPCs, ConfigPCs

(* A new request is a request. *)
LEMMA NewRequestType ==
    ASSUME NEW names \in SUBSET Names
    PROVE  /\ \A pc \in LoginPCs, u \in Subjects : NewRequest(pc, u, names) \in LoginRequest
           /\ \A pc \in ConfigPCs, c \in ConfigIds : NewRequest(pc, c, names) \in ConfigRequest
BY DEF NewRequest, RequestAt, LoginRequest, ConfigRequest

(* Request r is request s after it was told. *)
ToldFrom(r, s, given, taken) ==
    /\ r.pc = s.pc /\ r.id = s.id /\ r.names = s.names
    /\ r.add = s.add /\ r.remove = s.remove /\ r.skipped = s.skipped
    /\ r.given = s.given \cup given /\ r.taken = s.taken \cup taken

(* Telling others of roles given and taken changes these fields only. *)
LEMMA ToldAllFields ==
    ASSUME RequestsTyped, NEW given \in SUBSET RoleNames, NEW taken \in SUBSET RoleNames,
           NEW others, \A q \in others : q \in HTTPRequests /\ req[q] # Idle
    PROVE  /\ ToldAll(others, given, taken) \in [HTTPRequests -> Request]
           /\ \A q \in HTTPRequests \ others : ToldAll(others, given, taken)[q] = req[q]
           /\ \A q \in others :
                 ToldFrom(ToldAll(others, given, taken)[q], req[q], given, taken)
<1>1. ASSUME NEW q \in others
      PROVE  /\ ToldAll(others, given, taken)[q] \in Request
             /\ ToldFrom(ToldAll(others, given, taken)[q], req[q], given, taken)
  <2>1. ToldAll(others, given, taken)[q]
           = [req[q] EXCEPT !.given = @ \cup given, !.taken = @ \cup taken]
    BY DEF ToldAll
  <2>2. req[q] \in LoginRequest \/ req[q] \in ConfigRequest
    BY DEF RequestsTyped, Request, LoginRequest, ConfigRequest
  <2>3. CASE req[q] \in LoginRequest
    BY <2>1, <2>3 DEF LoginRequest, RequestAt, Request, ToldFrom
  <2>4. CASE req[q] \in ConfigRequest
    BY <2>1, <2>4 DEF ConfigRequest, RequestAt, Request, ToldFrom
  <2>5. QED
    BY <2>2, <2>3, <2>4
<1>2. \A q \in HTTPRequests \ others : ToldAll(others, given, taken)[q] = req[q]
  BY DEF ToldAll
<1>3. ToldAll(others, given, taken) \in [HTTPRequests -> Request]
  BY <1>1, <1>2 DEF ToldAll, RequestsTyped
<1>4. QED
  BY <1>1, <1>2, <1>3

-----------------------------------------------------------------------------
(***************************************************************************)
(* What a step does to the requests that do not take it.                   *)
(***************************************************************************)
(* A step that writes no roles leaves the other requests alone. *)
LEMMA Bystander ==
    ASSUME NEW q \in HTTPRequests, RequestOK(q), req'[q] = req[q],
           users \subseteq users', UNCHANGED <<userRoles, configRoles>>
    PROVE  RequestOK(q)'
BY DEF RequestOK, KnownUser, SyncInv, UpdateInv, SyncOK, UpdateOK, Account

(* A step that gives roles to a user and takes roles from it tells the      *)
(* logins that synchronise them: their account stays right.                 *)
LEMMA OthersOfUser ==
    ASSUME RequestsTyped, NEW u, NEW given \in SUBSET RoleNames, NEW taken \in SUBSET RoleNames,
           NEW q \in HTTPRequests, RequestOK(q),
           req'[q] = ToldAll(SyncsOf(u), given, taken)[q],
           \A v \in Subjects \ {u} : userRoles'[v] = userRoles[v],
           userRoles'[u] \subseteq userRoles[u] \cup given,
           userRoles[u] \subseteq userRoles'[u] \cup taken,
           UNCHANGED <<users, configRoles>>
    PROVE  RequestOK(q)'
<1>1. \A s \in SyncsOf(u) : s \in HTTPRequests /\ req[s] # Idle
  BY RequestKinds DEF SyncsOf, At, RequestsTyped
<1>2. /\ \A s \in HTTPRequests \ SyncsOf(u) : ToldAll(SyncsOf(u), given, taken)[s] = req[s]
      /\ \A s \in SyncsOf(u) : ToldFrom(ToldAll(SyncsOf(u), given, taken)[s], req[s], given, taken)
  BY <1>1, ToldAllFields
<1>3. CASE q \in SyncsOf(u)
  <2>1. ToldFrom(req'[q], req[q], given, taken)
    BY <1>1, <1>3, <1>2
  <2>2. req[q].pc = "syncRoles" /\ req[q].id = u
    BY <1>3 DEF SyncsOf, At
  <2>3. SyncOK(req[q], userRoles[u])
    BY <2>2 DEF RequestOK, SyncInv
  <2>4. Account(req[q], userRoles[u])' /\ SyncOK(req[q], userRoles[u])'
    BY <2>1, <2>3 DEF SyncOK, Account, ToldFrom
  <2>5. QED
    BY <2>1, <2>2, <2>4 DEF ToldFrom, RequestOK, KnownUser, SyncInv, UpdateInv, UpdatePCs
<1>4. CASE q \notin SyncsOf(u)
  <2>1. req'[q] = req[q]
    BY <1>4, <1>2
  <2>2. KnownUser(q)' /\ UpdateInv(q)'
    BY <2>1 DEF RequestOK, KnownUser, UpdateInv, UpdateOK, Account
  <2>3. SyncInv(q)'
    <3>1. SUFFICES ASSUME req[q].pc = "syncRoles"
                   PROVE  SyncOK(req[q], userRoles'[req[q].id])
      BY <2>1 DEF SyncInv, SyncOK, Account
    <3>2. req[q].id \in Subjects \ {u}
      BY <1>4, <3>1, RequestKinds DEF SyncsOf, At, RequestsTyped, LoginPCs, LoginRequest, RequestAt
    <3>3. QED
      BY <3>1, <3>2 DEF RequestOK, SyncInv
  <2>4. QED
    BY <2>2, <2>3 DEF RequestOK
<1>5. QED
  BY <1>3, <1>4

(* The same for a step that writes the roles of a configuration. *)
LEMMA OthersOfConfig ==
    ASSUME RequestsTyped, NEW c, NEW given \in SUBSET RoleNames, NEW taken \in SUBSET RoleNames,
           NEW q \in HTTPRequests, RequestOK(q),
           req'[q] = ToldAll(UpdatesOf(c), given, taken)[q],
           \A d \in ConfigIds \ {c} : configRoles'[d] = configRoles[d],
           configRoles'[c] \subseteq configRoles[c] \cup given,
           configRoles[c] \subseteq configRoles'[c] \cup taken,
           UNCHANGED <<users, userRoles>>
    PROVE  RequestOK(q)'
<1>1. \A s \in UpdatesOf(c) : s \in HTTPRequests /\ req[s] # Idle
  BY RequestKinds DEF UpdatesOf, RequestsTyped
<1>2. /\ \A s \in HTTPRequests \ UpdatesOf(c) : ToldAll(UpdatesOf(c), given, taken)[s] = req[s]
      /\ \A s \in UpdatesOf(c) : ToldFrom(ToldAll(UpdatesOf(c), given, taken)[s], req[s], given, taken)
  BY <1>1, ToldAllFields
<1>3. CASE q \in UpdatesOf(c)
  <2>1. ToldFrom(req'[q], req[q], given, taken)
    BY <1>1, <1>3, <1>2
  <2>2. req[q].pc \in UpdatePCs /\ req[q].id = c
    BY <1>3 DEF UpdatesOf, UpdatePCs
  <2>3. UpdateOK(req[q], configRoles[c])
    BY <2>2 DEF RequestOK, UpdateInv
  <2>4. UpdateOK(req[q], configRoles[c])'
    BY <2>1, <2>3 DEF UpdateOK, Account, ToldFrom
  <2>5. QED
    BY <2>1, <2>2, <2>4 DEF ToldFrom, RequestOK, KnownUser, SyncInv, UpdateInv, UpdatePCs, UserPCs
<1>4. CASE q \notin UpdatesOf(c)
  <2>1. req'[q] = req[q]
    BY <1>4, <1>2
  <2>2. KnownUser(q)' /\ SyncInv(q)'
    BY <2>1 DEF RequestOK, KnownUser, SyncInv, SyncOK, Account
  <2>3. UpdateInv(q)'
    <3>1. SUFFICES ASSUME req[q].pc \in UpdatePCs
                   PROVE  UpdateOK(req[q], configRoles'[req[q].id])
      BY <2>1 DEF UpdateInv, UpdateOK, Account
    <3>2. req[q].id \in ConfigIds \ {c}
      BY <1>4, <3>1, RequestKinds DEF UpdatesOf, UpdatePCs, RequestsTyped, ConfigPCs,
                                      ConfigRequest, RequestAt
    <3>3. QED
      BY <3>1, <3>2 DEF RequestOK, UpdateInv
  <2>4. QED
    BY <2>2, <2>3 DEF RequestOK
<1>5. QED
  BY <1>3, <1>4

-----------------------------------------------------------------------------
(***************************************************************************)
(* What a step does to the request that takes it: it goes on as m.         *)
(***************************************************************************)
Fine(m) ==
    /\ m \in Request
    /\ m.pc \in UserPCs => m.id \in users
    /\ m.pc \in {"readRoles", "syncRoles"} => m.names # {}
    /\ m.pc = "syncRoles" => SyncOK(m, userRoles[m.id])
    /\ m.pc \in UpdatePCs => UpdateOK(m, configRoles[m.id])

(* The requests are typed and can answer for what they write. *)
RequestsOK == RequestsTyped /\ \A q \in HTTPRequests : RequestOK(q)

(* A step of a request that writes no roles. *)
LEMMA OwnStep ==
    ASSUME RequestsOK, NEW p \in HTTPRequests, NEW m, Fine(m)',
           req' = [req EXCEPT ![p] = m],
           users \subseteq users', UNCHANGED <<userRoles, configRoles>>
    PROVE  RequestsOK'
<1>1. RequestsTyped'
  BY DEF RequestsOK, RequestsTyped, Fine
<1>2. RequestOK(p)'
  <2>1. req'[p] = m
    BY DEF RequestsOK, RequestsTyped
  <2>2. Fine(req[p])'
    BY <2>1 DEF Fine
  <2>3. QED
    BY <2>2 DEF Fine, RequestOK, KnownUser, SyncInv, UpdateInv
<1>3. ASSUME NEW q \in HTTPRequests, q # p
      PROVE  RequestOK(q)'
  <2>1. req'[q] = req[q] /\ RequestOK(q)
    BY <1>3 DEF RequestsOK, RequestsTyped
  <2>2. QED
    BY <2>1, Bystander
<1>4. QED
  BY <1>1, <1>2, <1>3 DEF RequestsOK

(* A request that has ended answers for nothing. *)
LEMMA FinishKeeps ==
    ASSUME RequestsOK, NEW p \in HTTPRequests, Finish(p),
           users \subseteq users', UNCHANGED <<userRoles, configRoles>>
    PROVE  RequestsOK'
<1>1. Fine(Idle)'
  BY RequestKinds DEF Fine, Request, Idle, UserPCs, UpdatePCs
<1>2. QED
  BY <1>1, OwnStep DEF Finish

(* A step of nobody in req that writes the roles of a user, as an admin does. *)
LEMMA UserToldStep ==
    ASSUME RequestsOK, NEW u, NEW given \in SUBSET RoleNames, NEW taken \in SUBSET RoleNames,
           req' = ToldAll(SyncsOf(u), given, taken),
           \A v \in Subjects \ {u} : userRoles'[v] = userRoles[v],
           userRoles'[u] \subseteq userRoles[u] \cup given,
           userRoles[u] \subseteq userRoles'[u] \cup taken,
           UNCHANGED <<users, configRoles>>
    PROVE  RequestsOK'
<1>1. \A s \in SyncsOf(u) : s \in HTTPRequests /\ req[s] # Idle
  BY RequestKinds DEF SyncsOf, At, RequestsTyped, RequestsOK
<1>2. RequestsTyped'
  BY <1>1, ToldAllFields DEF RequestsOK, RequestsTyped
<1>3. \A q \in HTTPRequests : RequestOK(q)'
  BY OthersOfUser DEF RequestsOK
<1>4. QED
  BY <1>2, <1>3 DEF RequestsOK

(* A step of a request that writes the roles of a user. *)
LEMMA UserStep ==
    ASSUME RequestsOK, NEW p \in HTTPRequests, NEW m, Fine(m)',
           NEW u, NEW given \in SUBSET RoleNames, NEW taken \in SUBSET RoleNames,
           req' = Told(p, m, SyncsOf(u), given, taken),
           \A v \in Subjects \ {u} : userRoles'[v] = userRoles[v],
           userRoles'[u] \subseteq userRoles[u] \cup given,
           userRoles[u] \subseteq userRoles'[u] \cup taken,
           UNCHANGED <<users, configRoles>>
    PROVE  RequestsOK'
<1>1. \A s \in SyncsOf(u) : s \in HTTPRequests /\ req[s] # Idle
  BY RequestKinds DEF SyncsOf, At, RequestsTyped, RequestsOK
<1>2. ToldAll(SyncsOf(u), given, taken) \in [HTTPRequests -> Request]
  BY <1>1, ToldAllFields DEF RequestsOK
<1>3. /\ req' \in [HTTPRequests -> Request]
      /\ req'[p] = m
      /\ \A q \in HTTPRequests \ {p} : req'[q] = ToldAll(SyncsOf(u), given, taken)[q]
  BY <1>2 DEF Told, Fine
<1>4. ASSUME NEW q \in HTTPRequests, q # p
      PROVE  RequestOK(q)'
  BY <1>3, <1>4, OthersOfUser DEF RequestsOK
<1>5. RequestOK(p)'
  <2>1. Fine(req[p])'
    BY <1>3 DEF Fine
  <2>2. QED
    BY <2>1 DEF Fine, RequestOK, KnownUser, SyncInv, UpdateInv
<1>6. QED
  BY <1>3, <1>4, <1>5 DEF RequestsOK, RequestsTyped

(* A step of a request that writes the roles of a configuration. *)
LEMMA ConfigToldStep ==
    ASSUME RequestsOK, NEW p \in HTTPRequests, NEW m, Fine(m)',
           NEW c, NEW given \in SUBSET RoleNames, NEW taken \in SUBSET RoleNames,
           req' = Told(p, m, UpdatesOf(c), given, taken),
           \A d \in ConfigIds \ {c} : configRoles'[d] = configRoles[d],
           configRoles'[c] \subseteq configRoles[c] \cup given,
           configRoles[c] \subseteq configRoles'[c] \cup taken,
           UNCHANGED <<users, userRoles>>
    PROVE  RequestsOK'
<1>1. \A s \in UpdatesOf(c) : s \in HTTPRequests /\ req[s] # Idle
  BY RequestKinds DEF UpdatesOf, RequestsTyped, RequestsOK
<1>2. ToldAll(UpdatesOf(c), given, taken) \in [HTTPRequests -> Request]
  BY <1>1, ToldAllFields DEF RequestsOK
<1>3. /\ req' \in [HTTPRequests -> Request]
      /\ req'[p] = m
      /\ \A q \in HTTPRequests \ {p} : req'[q] = ToldAll(UpdatesOf(c), given, taken)[q]
  BY <1>2 DEF Told, Fine
<1>4. ASSUME NEW q \in HTTPRequests, q # p
      PROVE  RequestOK(q)'
  BY <1>3, <1>4, OthersOfConfig DEF RequestsOK
<1>5. RequestOK(p)'
  <2>1. Fine(req[p])'
    BY <1>3 DEF Fine
  <2>2. QED
    BY <2>1 DEF Fine, RequestOK, KnownUser, SyncInv, UpdateInv
<1>6. QED
  BY <1>3, <1>4, <1>5 DEF RequestsOK, RequestsTyped

-----------------------------------------------------------------------------
(* The steps of a login keep the requests typed and their accounts right. *)
LEMMA LoginKeeps ==
    ASSUME AccessInv, NEW p \in HTTPRequests, LoginStep(p)
    PROVE  RequestsOK'
<1>1. /\ RequestsOK
      /\ req[p] \in Request
      /\ userRoles \in [Subjects -> SUBSET RoleNames]
  BY DEF AccessInv, AccessTypeOK, RequestsOK, RequestsTyped
<1>2. /\ KnownUser(p)
      /\ req[p].pc = "syncRoles" => SyncOK(req[p], userRoles[req[p].id])
  BY <1>1 DEF RequestsOK, RequestOK, SyncInv
<1>3. req[p].pc \in LoginPCs
  BY DEF LoginStep, GetUserBySubject, CreateUser, AssignDefaultRole, UpdateUser, ReadUserRoles,
         SyncDone, CreateSession, SyncAssign, SyncRemove, SyncError, At, LoginPCs
<1>4. req[p] \in LoginRequest
  BY <1>1, <1>3, RequestKinds
<1>5. ASSUME NEW pc \in LoginPCs, pc # "syncRoles", pc \in UserPCs => req[p].id \in users',
             pc = "readRoles" => req[p].names # {},
             NEW m, m = [req[p] EXCEPT !.pc = pc]
      PROVE  Fine(m)'
  <2>1. m \in LoginRequest /\ m.pc = pc /\ m.id = req[p].id /\ m.names = req[p].names
    BY <1>4, <1>5 DEF LoginRequest, RequestAt
  <2>2. QED
    BY <1>5, <2>1 DEF Fine, Request, LoginRequest, LoginPCs, UpdatePCs
<1>6. ASSUME NEW pc \in LoginPCs, pc # "syncRoles", pc \in UserPCs => req[p].id \in users',
             pc = "readRoles" => req[p].names # {},
             Goto(p, pc), users \subseteq users', UNCHANGED <<userRoles, configRoles>>
      PROVE  RequestsOK'
  <2>1. PICK m : m = [req[p] EXCEPT !.pc = pc]
    OBVIOUS
  <2>2. Fine(m)'
    BY <1>5, <1>6, <2>1
  <2>3. req' = [req EXCEPT ![p] = m]
    BY <1>6, <2>1 DEF Goto
  <2>4. QED
    BY <1>1, <1>6, <2>2, <2>3, OwnStep
<1>7. ASSUME Finish(p), users \subseteq users', UNCHANGED <<userRoles, configRoles>>
      PROVE  RequestsOK'
  BY <1>1, <1>7, FinishKeeps
<1>8. CASE GetUserBySubject(p) \/ CreateUser(p) \/ UpdateUser(p)
  <2>1. users \subseteq users' /\ UNCHANGED <<userRoles, configRoles>>
    BY <1>8 DEF GetUserBySubject, CreateUser, UpdateUser, userTables, configTables
  <2>2. CASE GetUserBySubject(p)
    BY <1>6, <1>7, <2>1, <2>2 DEF GetUserBySubject, LoginPCs, UserPCs, userTables
  <2>3. CASE CreateUser(p)
    BY <1>6, <1>7, <2>1, <2>3 DEF CreateUser, LoginPCs
  <2>4. CASE UpdateUser(p)
    BY <1>2, <1>6, <2>1, <2>4 DEF UpdateUser, afterUser, LoginPCs, UserPCs, KnownUser, At, userTables
  <2>5. QED
    BY <1>8, <2>2, <2>3, <2>4
<1>9. CASE CreateSession(p)
  BY <1>7, <1>9 DEF CreateSession, userTables, configTables
<1>10. CASE AssignDefaultRole(p)
  <2>1. CASE DefaultRole \notin RoleNames
    BY <1>7, <1>10, <2>1 DEF AssignDefaultRole, configTables
  <2>2. CASE DefaultRole \in RoleNames
    <3>1. PICK u, m : u = req[p].id /\ m = [req[p] EXCEPT !.pc = afterUser(p)]
      OBVIOUS
    <3>2. /\ req' = Told(p, m, SyncsOf(u), {DefaultRole}, {})
          /\ userRoles' = [userRoles EXCEPT ![u] = @ \cup {DefaultRole}]
          /\ UNCHANGED <<users, configRoles>>
      BY <1>10, <2>2, <3>1 DEF AssignDefaultRole, AssignRole, configTables
    <3>3. u \in Subjects /\ u \in users
      BY <1>2, <1>4, <1>10, <3>1 DEF AssignDefaultRole, At, KnownUser, UserPCs, LoginRequest, RequestAt
    <3>4. Fine(m)'
      BY <1>5, <3>1, <3>2, <3>3 DEF afterUser, LoginPCs
    <3>5. /\ \A v \in Subjects \ {u} : userRoles'[v] = userRoles[v]
          /\ userRoles'[u] = userRoles[u] \cup {DefaultRole}
      BY <1>1, <3>2, <3>3
    <3>6. QED
      BY <1>1, <2>2, <3>2, <3>4, <3>5, UserStep
  <2>3. QED
    BY <2>1, <2>2
<1>11. CASE ReadUserRoles(p)
  <2>1. PICK u, m : /\ u = req[p].id
                    /\ m = [req[p] EXCEPT !.pc = "syncRoles",
                                          !.add = toAdd(userRoles[u], req[p].names),
                                          !.remove = toRemove(userRoles[u], req[p].names)]
    OBVIOUS
  <2>2. req' = [req EXCEPT ![p] = m] /\ UNCHANGED <<users, userRoles, configRoles>>
    BY <1>11, <2>1 DEF ReadUserRoles, GetUserRoles, userTables, configTables
  <2>3. /\ u \in Subjects /\ u \in users /\ userRoles[u] \subseteq RoleNames
        /\ req[p].names # {}
    BY <1>1, <1>2, <1>4, <1>11, <2>1 DEF ReadUserRoles, At, KnownUser, UserPCs, LoginRequest, RequestAt
  <2>4. /\ m \in LoginRequest /\ m.pc = "syncRoles" /\ m.id = u /\ m.names = req[p].names
        /\ m.add = (m.names \ userRoles[u]) \cap RoleNames /\ m.remove = userRoles[u] \ m.names
    BY <1>4, <2>1, <2>3 DEF LoginRequest, LoginPCs, RequestAt, toAdd, toRemove, GetRolesByName
  <2>5. SyncOK(m, userRoles[u])
    BY <2>3, <2>4 DEF SyncOK, Account
  <2>6. Fine(m)'
    BY <2>2, <2>3, <2>4, <2>5 DEF Fine, Request, LoginRequest, UpdatePCs
  <2>7. QED
    BY <1>1, <2>2, <2>6, OwnStep
<1>12. CASE SyncDone(p)
  <2>1. PICK u, m : u = req[p].id /\ m = NewRequest("session", u, {})
    OBVIOUS
  <2>2. req' = [req EXCEPT ![p] = m] /\ UNCHANGED <<users, userRoles, configRoles>>
    BY <1>12, <2>1 DEF SyncDone, userTables, configTables
  <2>3. u \in Subjects /\ u \in users
    BY <1>2, <1>4, <1>12, <2>1 DEF SyncDone, At, KnownUser, UserPCs, LoginRequest, RequestAt
  <2>4. m \in LoginRequest /\ m.pc = "session" /\ m.id = u
    BY <2>1, <2>3 DEF NewRequest, LoginRequest, LoginPCs, RequestAt
  <2>5. Fine(m)'
    BY <2>2, <2>3, <2>4 DEF Fine, Request, LoginRequest, UpdatePCs
  <2>6. QED
    BY <1>1, <2>2, <2>5, OwnStep
<1>13. ASSUME NEW r \in RoleNames, SyncAssign(p, r) \/ SyncRemove(p, r) \/ SyncError(p, r)
       PROVE  RequestsOK'
  <2>1. PICK u : u = req[p].id
    OBVIOUS
  <2>2. /\ req[p].pc = "syncRoles" /\ u \in Subjects /\ u \in users
        /\ req[p].names # {} /\ SyncOK(req[p], userRoles[u])
    BY <1>2, <1>4, <1>13, <2>1 DEF SyncAssign, SyncRemove, SyncError, At, KnownUser, UserPCs,
                                   LoginRequest, RequestAt
  <2>3. CASE SyncAssign(p, r)
    <3>1. PICK m : m = [req[p] EXCEPT !.add = @ \ {r}]
      OBVIOUS
    <3>2. /\ req' = Told(p, m, SyncsOf(u), {r}, {}) /\ r \in req[p].add
          /\ userRoles' = [userRoles EXCEPT ![u] = @ \cup {r}]
          /\ UNCHANGED <<users, configRoles>>
      BY <2>1, <2>3, <3>1 DEF SyncAssign, AssignRole, configTables
    <3>3. /\ \A v \in Subjects \ {u} : userRoles'[v] = userRoles[v]
          /\ userRoles'[u] = userRoles[u] \cup {r}
      BY <1>1, <2>2, <3>2
    <3>4. /\ m \in LoginRequest /\ m.pc = "syncRoles" /\ m.id = u /\ m.names = req[p].names
          /\ m.add = req[p].add \ {r} /\ m.remove = req[p].remove /\ m.given = req[p].given
          /\ m.taken = req[p].taken /\ m.skipped = req[p].skipped
      BY <1>4, <2>1, <2>2, <3>1 DEF LoginRequest, RequestAt
    <3>5. SyncOK(m, userRoles'[u])
      BY <2>2, <3>2, <3>3, <3>4 DEF SyncOK, Account
    <3>6. Fine(m)'
      BY <2>2, <3>2, <3>4, <3>5 DEF Fine, Request, LoginRequest, UpdatePCs, SyncOK, Account
    <3>7. QED
      BY <1>1, <3>2, <3>3, <3>6, UserStep
  <2>4. CASE SyncRemove(p, r)
    <3>1. PICK m : m = [req[p] EXCEPT !.remove = @ \ {r}]
      OBVIOUS
    <3>2. /\ req' = Told(p, m, SyncsOf(u), {}, {r}) /\ r \in req[p].remove
          /\ userRoles' = [userRoles EXCEPT ![u] = @ \ {r}]
          /\ UNCHANGED <<users, configRoles>>
      BY <2>1, <2>4, <3>1 DEF SyncRemove, RemoveRole, configTables
    <3>3. /\ \A v \in Subjects \ {u} : userRoles'[v] = userRoles[v]
          /\ userRoles'[u] = userRoles[u] \ {r}
      BY <1>1, <2>2, <3>2
    <3>4. /\ m \in LoginRequest /\ m.pc = "syncRoles" /\ m.id = u /\ m.names = req[p].names
          /\ m.add = req[p].add /\ m.remove = req[p].remove \ {r} /\ m.given = req[p].given
          /\ m.taken = req[p].taken /\ m.skipped = req[p].skipped
      BY <1>4, <2>1, <2>2, <3>1 DEF LoginRequest, RequestAt
    <3>5. SyncOK(m, userRoles'[u])
      BY <2>2, <3>2, <3>3, <3>4 DEF SyncOK, Account
    <3>6. Fine(m)'
      BY <2>2, <3>2, <3>4, <3>5 DEF Fine, Request, LoginRequest, UpdatePCs, SyncOK, Account
    <3>7. QED
      BY <1>1, <3>2, <3>3, <3>6, UserStep
  <2>5. CASE SyncError(p, r)
    <3>1. PICK m : m = [req[p] EXCEPT !.add = @ \ {r}, !.remove = @ \ {r}, !.skipped = @ \cup {r}]
      OBVIOUS
    <3>2. req' = [req EXCEPT ![p] = m] /\ UNCHANGED <<users, userRoles, configRoles>>
      BY <2>5, <3>1 DEF SyncError, userTables, configTables
    <3>3. /\ m \in LoginRequest /\ m.pc = "syncRoles" /\ m.id = u /\ m.names = req[p].names
          /\ m.add = req[p].add \ {r} /\ m.remove = req[p].remove \ {r} /\ m.given = req[p].given
          /\ m.taken = req[p].taken /\ m.skipped = req[p].skipped \cup {r}
      BY <1>4, <2>1, <2>2, <3>1 DEF LoginRequest, RequestAt
    <3>4. SyncOK(m, userRoles[u])
      BY <2>2, <3>3 DEF SyncOK, Account
    <3>5. Fine(m)'
      BY <2>2, <3>2, <3>3, <3>4 DEF Fine, Request, LoginRequest, UpdatePCs, SyncOK, Account
    <3>6. QED
      BY <1>1, <3>2, <3>5, OwnStep
  <2>6. QED
    BY <1>13, <2>3, <2>4, <2>5
<1>14. QED
  BY <1>8, <1>9, <1>10, <1>11, <1>12, <1>13 DEF LoginStep
-----------------------------------------------------------------------------
(* The steps of a request that writes the roles of a configuration do so,   *)
(* too.                                                                     *)
LEMMA ConfigKeeps ==
    ASSUME AccessInv, NEW p \in HTTPRequests, ConfigStep(p)
    PROVE  RequestsOK'
<1>1. /\ RequestsOK
      /\ req[p] \in Request
      /\ configRoles \in [ConfigIds -> SUBSET RoleNames]
  BY DEF AccessInv, AccessTypeOK, RequestsOK, RequestsTyped
<1>2. req[p].pc \in ConfigPCs
  BY DEF ConfigStep, ReadConfigRoles, RemovedAll, AssignedAll, RemoveConfigRole, AssignConfigRole,
         PassOver, At, ConfigPCs
<1>3. req[p] \in ConfigRequest
  BY <1>1, <1>2, RequestKinds
<1>4. PICK c : c = req[p].id
  OBVIOUS
<1>5. /\ c \in ConfigIds /\ configRoles[c] \subseteq RoleNames
      /\ req[p].pc \in UpdatePCs => UpdateOK(req[p], configRoles[c])
  BY <1>1, <1>3, <1>4 DEF ConfigRequest, RequestAt, RequestsOK, RequestOK, UpdateInv
<1>6. ASSUME NEW m \in ConfigRequest, m.id = c,
             m.pc \in UpdatePCs => UpdateOK(m, configRoles'[c])
      PROVE  Fine(m)'
  BY <1>6 DEF Fine, Request, ConfigRequest, RequestAt, ConfigPCs, UserPCs
<1>7. CASE ReadConfigRoles(p)
  <2>1. PICK m : m = [req[p] EXCEPT !.pc = "removeRoles", !.remove = configRoles[c],
                                    !.add = GetRolesByName(req[p].names)]
    OBVIOUS
  <2>2. req' = [req EXCEPT ![p] = m] /\ UNCHANGED <<users, userRoles, configRoles>>
    BY <1>4, <1>7, <2>1 DEF ReadConfigRoles, GetConfigRoles, userTables, configTables
  <2>3. /\ m \in ConfigRequest /\ m.pc = "removeRoles" /\ m.id = c /\ m.names = req[p].names
        /\ m.add = m.names \cap RoleNames /\ m.remove = configRoles[c]
    BY <1>3, <1>4, <1>5, <2>1 DEF ConfigRequest, ConfigPCs, RequestAt, GetRolesByName
  <2>4. UpdateOK(m, configRoles[c])
    BY <2>3 DEF UpdateOK, Account
  <2>5. Fine(m)'
    BY <1>6, <2>2, <2>3, <2>4
  <2>6. QED
    BY <1>1, <2>2, <2>5, OwnStep
<1>8. CASE RemovedAll(p)
  <2>1. PICK m : m = [req[p] EXCEPT !.pc = "assignRoles"]
    OBVIOUS
  <2>2. req' = [req EXCEPT ![p] = m] /\ UNCHANGED <<users, userRoles, configRoles>>
    BY <1>8, <2>1 DEF RemovedAll, Goto, userTables, configTables
  <2>3. /\ m \in ConfigRequest /\ m.pc = "assignRoles" /\ m.id = c /\ m.names = req[p].names
        /\ m.add = req[p].add /\ m.remove = req[p].remove /\ m.given = req[p].given
        /\ m.taken = req[p].taken /\ m.skipped = req[p].skipped
    BY <1>3, <1>4, <2>1 DEF ConfigRequest, ConfigPCs, RequestAt
  <2>4. UpdateOK(m, configRoles[c])
    BY <1>5, <1>8, <2>3 DEF RemovedAll, At, UpdatePCs, UpdateOK, Account
  <2>5. Fine(m)'
    BY <1>6, <2>2, <2>3, <2>4
  <2>6. QED
    BY <1>1, <2>2, <2>5, OwnStep
<1>9. CASE AssignedAll(p)
  BY <1>1, <1>9, FinishKeeps DEF AssignedAll, userTables, configTables
<1>10. ASSUME NEW r \in RoleNames, RemoveConfigRole(p, r)
       PROVE  RequestsOK'
  <2>1. PICK m : m = [req[p] EXCEPT !.remove = @ \ {r}]
    OBVIOUS
  <2>2. /\ req' = Told(p, m, UpdatesOf(c), {}, {r})
        /\ req[p].pc = "removeRoles"
        /\ configRoles' = [configRoles EXCEPT ![c] = @ \ {r}]
        /\ UNCHANGED <<users, userRoles>>
    BY <1>4, <1>10, <2>1 DEF RemoveConfigRole, DropConfigRole, At, userTables
  <2>3. /\ \A d \in ConfigIds \ {c} : configRoles'[d] = configRoles[d]
        /\ configRoles'[c] = configRoles[c] \ {r}
    BY <1>1, <1>5, <2>2
  <2>4. /\ m \in ConfigRequest /\ m.pc = "removeRoles" /\ m.id = c /\ m.names = req[p].names
        /\ m.add = req[p].add /\ m.remove = req[p].remove \ {r} /\ m.given = req[p].given
        /\ m.taken = req[p].taken /\ m.skipped = req[p].skipped
    BY <1>3, <1>4, <2>1, <2>2 DEF ConfigRequest, RequestAt
  <2>5. UpdateOK(m, configRoles'[c])
    BY <1>5, <2>2, <2>3, <2>4 DEF UpdatePCs, UpdateOK, Account
  <2>6. Fine(m)'
    BY <1>6, <2>4, <2>5
  <2>7. QED
    BY <1>1, <2>2, <2>3, <2>6, ConfigToldStep
<1>11. ASSUME NEW r \in RoleNames, AssignConfigRole(p, r), c \in configs
       PROVE  RequestsOK'
  <2>1. PICK m : m = [req[p] EXCEPT !.add = @ \ {r}]
    OBVIOUS
  <2>2. /\ req' = Told(p, m, UpdatesOf(c), {r}, {})
        /\ req[p].pc \in {"assignRoles", "inheritRoles"} /\ r \in req[p].add
        /\ configRoles' = [configRoles EXCEPT ![c] = @ \cup {r}]
        /\ UNCHANGED <<users, userRoles>>
    BY <1>4, <1>11, <2>1 DEF AssignConfigRole, PutConfigRole, userTables
  <2>3. /\ \A d \in ConfigIds \ {c} : configRoles'[d] = configRoles[d]
        /\ configRoles'[c] = configRoles[c] \cup {r}
    BY <1>1, <1>5, <2>2
  <2>4. /\ m \in ConfigRequest /\ m.pc = req[p].pc /\ m.id = c /\ m.names = req[p].names
        /\ m.add = req[p].add \ {r} /\ m.remove = req[p].remove /\ m.given = req[p].given
        /\ m.taken = req[p].taken /\ m.skipped = req[p].skipped
    BY <1>3, <1>4, <2>1 DEF ConfigRequest, RequestAt
  <2>5. UpdateOK(m, configRoles'[c])
    BY <1>5, <2>2, <2>3, <2>4 DEF UpdatePCs, UpdateOK, Account
  <2>6. Fine(m)'
    BY <1>6, <2>4, <2>5
  <2>7. QED
    BY <1>1, <2>2, <2>3, <2>6, ConfigToldStep
<1>12. ASSUME NEW r \in RoleNames,
              (AssignConfigRole(p, r) /\ c \notin configs) \/ PassOver(p, r)
       PROVE  RequestsOK'
  <2>1. UNCHANGED <<users, userRoles, configRoles>>
    BY <1>4, <1>12 DEF AssignConfigRole, PassOver, userTables, configTables
  <2>2. CASE Finish(p)
    BY <1>1, <2>1, <2>2, FinishKeeps
  <2>3. CASE ~Finish(p)
    <3>1. PICK m : m = [req[p] EXCEPT !.add = @ \ {r}, !.skipped = @ \cup {r}]
      OBVIOUS
    <3>2. /\ req' = [req EXCEPT ![p] = m]
          /\ req[p].pc \in {"assignRoles", "inheritRoles"} /\ r \in req[p].add
      BY <1>4, <1>12, <2>3, <3>1 DEF AssignConfigRole, PassOver, At
    <3>3. /\ m \in ConfigRequest /\ m.pc = req[p].pc /\ m.id = c /\ m.names = req[p].names
          /\ m.add = req[p].add \ {r} /\ m.remove = req[p].remove /\ m.given = req[p].given
          /\ m.taken = req[p].taken /\ m.skipped = req[p].skipped \cup {r}
      BY <1>3, <1>4, <3>1 DEF ConfigRequest, RequestAt
    <3>4. UpdateOK(m, configRoles[c])
      BY <1>5, <3>2, <3>3 DEF UpdatePCs, UpdateOK, Account
    <3>5. Fine(m)'
      BY <1>6, <2>1, <3>3, <3>4
    <3>6. QED
      BY <1>1, <2>1, <3>2, <3>5, OwnStep
  <2>4. QED
    BY <2>2, <2>3
<1>13. QED
  BY <1>7, <1>8, <1>9, <1>10, <1>11, <1>12 DEF ConfigStep
-----------------------------------------------------------------------------
(* So does a request that begins or that gives up. *)
LEMMA BeginKeeps ==
    ASSUME AccessInv, NEW p \in HTTPRequests,
           \/ \E u \in Subjects, names \in NameSets : Callback(p, u, names)
           \/ \E t \in tokens, c \in ConfigIds, names \in NameSets :
                 CreateConfig(p, t, c, names) \/ UpdateConfigRoles(p, t, c, names)
           \/ StoreFails(p)
    PROVE  RequestsOK'
<1>1. RequestsOK /\ tokens \subseteq Token
  BY DEF AccessInv, AccessTypeOK, RequestsOK, RequestsTyped
<1>2. \A names \in NameSets : names \in SUBSET Names
  BY AccessAssumption DEF AccessAssumption, Names
<1>3. ASSUME NEW u \in Subjects, NEW names \in NameSets, Callback(p, u, names)
      PROVE  RequestsOK'
  <2>1. PICK m : m = NewRequest("lookup", u, names)
    OBVIOUS
  <2>2. req' = [req EXCEPT ![p] = m] /\ UNCHANGED <<users, userRoles, configRoles>>
    BY <1>3, <2>1 DEF Callback, userTables, configTables
  <2>3. m \in LoginRequest /\ m.pc = "lookup"
    BY <1>2, <2>1, NewRequestType DEF NewRequest, LoginPCs
  <2>4. Fine(m)'
    BY <2>3 DEF Fine, Request, LoginRequest, UserPCs, UpdatePCs
  <2>5. QED
    BY <1>1, <2>2, <2>4, OwnStep
<1>4. ASSUME NEW t \in tokens, NEW c \in ConfigIds, NEW names \in NameSets,
             UpdateConfigRoles(p, t, c, names)
      PROVE  RequestsOK'
  <2>1. PICK m : m = NewRequest("readConfig", c, names)
    OBVIOUS
  <2>2. req' = [req EXCEPT ![p] = m] /\ UNCHANGED <<users, userRoles, configRoles>>
    BY <1>4, <2>1 DEF UpdateConfigRoles, userTables, configTables
  <2>3. m \in ConfigRequest /\ m.pc = "readConfig"
    BY <1>2, <2>1, NewRequestType DEF NewRequest, ConfigPCs
  <2>4. Fine(m)'
    BY <2>3 DEF Fine, Request, ConfigRequest, UserPCs, UpdatePCs
  <2>5. QED
    BY <1>1, <2>2, <2>4, OwnStep
<1>5. ASSUME NEW t \in tokens, NEW c \in ConfigIds, NEW names \in NameSets,
             CreateConfig(p, t, c, names)
      PROVE  RequestsOK'
  <2>1. PICK roles \in SUBSET Names : roles = IF names = {} THEN t.roles ELSE names
    BY <1>1, <1>2 DEF Token, Names
  <2>2. PICK m : m = [NewRequest("inheritRoles", c, roles) EXCEPT !.add = GetRolesByName(roles)]
    OBVIOUS
  <2>3. /\ req' = [req EXCEPT ![p] = m] /\ UNCHANGED <<users, userRoles, configRoles>>
        /\ c \notin usedIds
    BY <1>5, <2>1, <2>2 DEF CreateConfig, userTables
  <2>4. configRoles[c] = {}
    BY <2>3 DEF AccessInv, AccessTypeOK
  <2>5. /\ m \in ConfigRequest /\ m.pc = "inheritRoles" /\ m.id = c /\ m.names = roles
        /\ m.add = roles \cap RoleNames
    BY <2>1, <2>2 DEF NewRequest, ConfigRequest, ConfigPCs, RequestAt, GetRolesByName
  <2>6. UpdateOK(m, configRoles[c])
    BY <2>4, <2>5 DEF UpdateOK, Account
  <2>7. Fine(m)'
    BY <2>3, <2>5, <2>6 DEF Fine, Request, ConfigRequest, UserPCs
  <2>8. QED
    BY <1>1, <2>3, <2>7, OwnStep
<1>6. CASE StoreFails(p)
  BY <1>1, <1>6, FinishKeeps DEF StoreFails, userTables, configTables
<1>7. QED
  BY <1>3, <1>4, <1>5, <1>6

(* So do the requests that are served in one call of the store. *)
LEMMA AtOnceKeeps ==
    ASSUME AccessInv,
           \/ \E t \in tokens, u \in Subjects, r \in RoleNames :
                 AssignUserRole(t, u, r) \/ RemoveUserRole(t, u, r)
           \/ \E t \in tokens, c \in ConfigIds : DeleteConfig(t, c)
           \/ \E u \in Subjects : Deactivate(u)
           \/ UNCHANGED accVars
    PROVE  RequestsOK'
<1>1. /\ RequestsOK
      /\ userRoles \in [Subjects -> SUBSET RoleNames]
      /\ configRoles \in [ConfigIds -> SUBSET RoleNames]
  BY DEF AccessInv, AccessTypeOK, RequestsOK, RequestsTyped
<1>2. ASSUME NEW t \in tokens, NEW u \in Subjects, NEW r \in RoleNames,
             AssignUserRole(t, u, r) \/ RemoveUserRole(t, u, r)
      PROVE  RequestsOK'
  <2>1. UNCHANGED <<users, configRoles>>
    BY <1>2 DEF AssignUserRole, RemoveUserRole, configTables
  <2>2. CASE AssignUserRole(t, u, r)
    <3>1. /\ req' = ToldAll(SyncsOf(u), {r}, {})
          /\ \A v \in Subjects \ {u} : userRoles'[v] = userRoles[v]
          /\ userRoles'[u] = userRoles[u] \cup {r}
      BY <1>1, <2>2 DEF AssignUserRole, AssignRole
    <3>2. QED
      BY <1>1, <2>1, <3>1, UserToldStep
  <2>3. CASE RemoveUserRole(t, u, r)
    <3>1. /\ req' = ToldAll(SyncsOf(u), {}, {r})
          /\ \A v \in Subjects \ {u} : userRoles'[v] = userRoles[v]
          /\ userRoles'[u] = userRoles[u] \ {r}
      BY <1>1, <2>3 DEF RemoveUserRole, RemoveRole
    <3>2. QED
      BY <1>1, <2>1, <3>1, UserToldStep
  <2>4. QED
    BY <1>2, <2>2, <2>3
<1>3. ASSUME NEW t \in tokens, NEW c \in ConfigIds, DeleteConfig(t, c)
      PROVE  RequestsOK'
  <2>1. PICK taken \in SUBSET RoleNames : taken = configRoles[c]
    BY <1>1
  <2>2. /\ UNCHANGED <<users, userRoles>>
        /\ req' = ToldAll(UpdatesOf(c), {}, taken)
        /\ \A d \in ConfigIds \ {c} : configRoles'[d] = configRoles[d]
        /\ configRoles'[c] = {}
    BY <1>1, <1>3, <2>1 DEF DeleteConfig, userTables
  <2>3. \A s \in UpdatesOf(c) : s \in HTTPRequests /\ req[s] # Idle
    BY <1>1, RequestKinds DEF UpdatesOf, RequestsTyped, RequestsOK
  <2>4. RequestsTyped'
    BY <1>1, <2>2, <2>3, ToldAllFields DEF RequestsOK, RequestsTyped
  <2>5. \A q \in HTTPRequests : RequestOK(q)'
    BY <1>1, <2>1, <2>2, OthersOfConfig DEF RequestsOK
  <2>6. QED
    BY <2>4, <2>5 DEF RequestsOK
<1>4. CASE (\E u \in Subjects : Deactivate(u)) \/ UNCHANGED accVars
  <2>1. UNCHANGED <<users, userRoles, configRoles, req>>
    BY <1>4 DEF Deactivate, accVars, userTables, configTables
  <2>2. \A q \in HTTPRequests : RequestOK(q)'
    BY <1>1, <2>1, Bystander DEF RequestsOK
  <2>3. QED
    BY <1>1, <2>1, <2>2 DEF RequestsOK, RequestsTyped
<1>5. QED
  BY <1>2, <1>3, <1>4

-----------------------------------------------------------------------------
(* The tables keep their types and their foreign keys in every step. *)
LEMMA TablesKeepTypes ==
    ASSUME AccessInv, [AccessNext]_accVars, RequestsTyped'
    PROVE  AccessTypeOK'
<1> USE AccessAssumption DEF AccessAssumption, userTables, configTables
<1>1. AccessTypeOK /\ \A p \in HTTPRequests : KnownUser(p)
  BY DEF AccessInv, RequestOK
<1>2. ASSUME NEW p \in HTTPRequests, req[p] \in Request, req[p].pc \in LoginPCs
      PROVE  req[p].id \in Subjects
  BY <1>2, RequestKinds DEF LoginRequest, RequestAt
<1>3. ASSUME NEW p \in HTTPRequests, LoginStep(p)
      PROVE  AccessTypeOK'
  <2>1. req[p].pc \in LoginPCs
    BY <1>3 DEF LoginStep, GetUserBySubject, CreateUser, AssignDefaultRole, UpdateUser,
                ReadUserRoles, SyncDone, CreateSession, SyncAssign, SyncRemove, SyncError, At, LoginPCs
  <2>2. req[p].id \in Subjects
    BY <1>1, <1>2, <2>1 DEF AccessTypeOK
  <2>3. CASE GetUserBySubject(p) \/ UpdateUser(p) \/ ReadUserRoles(p) \/ SyncDone(p)
    BY <1>1, <2>3 DEF GetUserBySubject, UpdateUser, ReadUserRoles, SyncDone, AccessTypeOK,
                      RequestsTyped
  <2>4. CASE CreateUser(p)
    BY <1>1, <2>2, <2>4 DEF CreateUser, AccessTypeOK, RequestsTyped
  <2>5. CASE CreateSession(p)
    <3>1. req[p].id \in users
      BY <1>1, <2>5 DEF CreateSession, At, KnownUser, UserPCs
    <3>2. GetUserByID(req[p].id) \in Token /\ GetUserByID(req[p].id).user \in users
      BY <1>1, <2>2, <3>1 DEF GetUserByID, GetUserRoles, Token, AccessTypeOK
    <3>3. QED
      BY <1>1, <2>5, <3>2 DEF CreateSession, AccessTypeOK, RequestsTyped
  <2>6. CASE AssignDefaultRole(p)
    <3>1. req[p].id \in users
      BY <1>1, <2>6 DEF AssignDefaultRole, At, KnownUser, UserPCs
    <3>2. QED
      BY <1>1, <2>2, <2>6, <3>1 DEF AssignDefaultRole, AssignRole, AccessTypeOK, RequestsTyped
  <2>7. ASSUME NEW r \in RoleNames, SyncAssign(p, r) \/ SyncRemove(p, r) \/ SyncError(p, r)
        PROVE  AccessTypeOK'
    <3>1. req[p].id \in users
      BY <1>1, <2>7 DEF SyncAssign, SyncRemove, SyncError, At, KnownUser, UserPCs
    <3>2. QED
      BY <1>1, <2>2, <2>7, <3>1 DEF SyncAssign, SyncRemove, SyncError, AssignRole, RemoveRole,
                                    AccessTypeOK, RequestsTyped
  <2>8. QED
    BY <1>3, <2>3, <2>4, <2>5, <2>6, <2>7 DEF LoginStep
<1>4. ASSUME NEW p \in HTTPRequests, ConfigStep(p)
      PROVE  AccessTypeOK'
  <2>1. req[p] \in ConfigRequest
    BY <1>1, <1>4, RequestKinds
       DEF ConfigStep, ReadConfigRoles, RemovedAll, AssignedAll, RemoveConfigRole,
           AssignConfigRole, PassOver, At, ConfigPCs, AccessTypeOK
  <2>2. req[p].id \in ConfigIds
    BY <2>1 DEF ConfigRequest, RequestAt
  <2>3. CASE ReadConfigRoles(p) \/ RemovedAll(p) \/ AssignedAll(p)
    BY <1>1, <2>3 DEF ReadConfigRoles, RemovedAll, AssignedAll, AccessTypeOK, RequestsTyped
  <2>4. ASSUME NEW r \in RoleNames,
               RemoveConfigRole(p, r) \/ AssignConfigRole(p, r) \/ PassOver(p, r)
        PROVE  AccessTypeOK'
    BY <1>1, <2>2, <2>4 DEF RemoveConfigRole, AssignConfigRole, PassOver, PutConfigRole,
                            DropConfigRole, AccessTypeOK, RequestsTyped
  <2>5. QED
    BY <1>4, <2>3, <2>4 DEF ConfigStep
<1>5. ASSUME NEW p \in HTTPRequests,
             \/ \E u \in Subjects, names \in NameSets : Callback(p, u, names)
             \/ \E t \in tokens, c \in ConfigIds, names \in NameSets :
                   CreateConfig(p, t, c, names) \/ UpdateConfigRoles(p, t, c, names)
             \/ StoreFails(p)
      PROVE  AccessTypeOK'
  BY <1>1, <1>5 DEF Callback, CreateConfig, UpdateConfigRoles, StoreFails, Received,
                    AccessTypeOK, RequestsTyped
<1>6. ASSUME NEW t \in tokens,
             \/ \E u \in Subjects, r \in RoleNames : AssignUserRole(t, u, r) \/ RemoveUserRole(t, u, r)
             \/ \E c \in ConfigIds : DeleteConfig(t, c)
      PROVE  AccessTypeOK'
  <2>1. ASSUME NEW u \in Subjects, NEW r \in RoleNames, AssignUserRole(t, u, r)
        PROVE  AccessTypeOK'
    <3>1. /\ userRoles' \in [Subjects -> SUBSET RoleNames]
          /\ \A v \in Subjects \ users : userRoles'[v] = {}
      BY <1>1, <2>1 DEF AssignUserRole, AssignRole, AccessTypeOK
    <3>2. calls' \in 0 .. MaxCalls
      BY <1>1, <2>1 DEF AssignUserRole, Received, AccessTypeOK
    <3>3. QED
      BY <1>1, <2>1, <3>1, <3>2 DEF AssignUserRole, AccessTypeOK, RequestsTyped
  <2>2. ASSUME NEW u \in Subjects, NEW r \in RoleNames, RemoveUserRole(t, u, r)
        PROVE  AccessTypeOK'
    <3>1. /\ userRoles' \in [Subjects -> SUBSET RoleNames]
          /\ \A v \in Subjects \ users : userRoles'[v] = {}
      BY <1>1, <2>2 DEF RemoveUserRole, RemoveRole, AccessTypeOK
    <3>2. calls' \in 0 .. MaxCalls
      BY <1>1, <2>2 DEF RemoveUserRole, Received, AccessTypeOK
    <3>3. QED
      BY <1>1, <2>2, <3>1, <3>2 DEF RemoveUserRole, AccessTypeOK, RequestsTyped
  <2>3. ASSUME NEW c \in ConfigIds, DeleteConfig(t, c)
        PROVE  AccessTypeOK'
    BY <1>1, <2>3 DEF DeleteConfig, Received, AccessTypeOK, RequestsTyped
  <2>4. QED
    BY <1>6, <2>1, <2>2, <2>3
<1>7. ASSUME NEW u \in Subjects, Deactivate(u)
      PROVE  AccessTypeOK'
  BY <1>1, <1>7 DEF Deactivate, AccessTypeOK, RequestsTyped
<1>8. CASE UNCHANGED accVars
  BY <1>1, <1>8 DEF accVars, AccessTypeOK
<1>9. QED
  BY <1>3, <1>4, <1>5, <1>6, <1>7, <1>8 DEF AccessNext

-----------------------------------------------------------------------------
(* The invariant holds of any database that earlier runs may have left. *)
LEMMA AccessInvInit == AccessInit => AccessInv
<1> SUFFICES ASSUME AccessInit PROVE AccessInv
  OBVIOUS
<1>1. tokens \subseteq Token
  BY DEF AccessInit
<1>2. AccessTypeOK
  BY <1>1, AccessAssumption DEF AccessInit, AccessTypeOK, AccessAssumption, Request
<1>3. ASSUME NEW q \in HTTPRequests
      PROVE  RequestOK(q)
  BY DEF AccessInit, RequestOK, KnownUser, SyncInv, UpdateInv, Idle, UserPCs, UpdatePCs
<1>4. QED
  BY <1>2, <1>3 DEF AccessInv

(* Every step of any request keeps it. *)
LEMMA AccessInvNext ==
    ASSUME AccessInv, [AccessNext]_accVars
    PROVE  AccessInv'
<1>1. RequestsOK'
  BY LoginKeeps, ConfigKeeps, BeginKeeps, AtOnceKeeps DEF AccessNext
<1>2. AccessTypeOK'
  BY <1>1, TablesKeepTypes DEF RequestsOK
<1>3. QED
  BY <1>1, <1>2 DEF AccessInv, RequestsOK

(* The invariant gives both accounts. *)
LEMMA AccessInvAccounts == AccessInv => LoginSyncsRoles /\ UpdateReplacesRoles
BY DEF AccessInv, RequestOK, KnownUser, SyncInv, UpdateInv, SyncOK, UpdateOK, Account, Accounts,
       At, LoginSyncsRoles, UpdateReplacesRoles, UpdatePCs

(* Tables and requests keep their types, and the foreign keys of user_roles *)
(* and config_roles hold between any two store calls of any requests.       *)
THEOREM AccessTypeCorrect == AccessSpec => []AccessTypeOK
<1>1. AccessInv => AccessTypeOK
  BY DEF AccessInv
<1>2. QED
  BY <1>1, AccessInvInit, AccessInvNext, PTL DEF AccessSpec

(* A login reaches syncRoles only with a token that names roles, and gives  *)
(* its user exactly these, but for what others wrote after it read them and *)
(* for calls that failed.                                                   *)
THEOREM LoginLeavesTokenRoles == AccessSpec => []LoginSyncsRoles
<1>1. AccessInv => LoginSyncsRoles
  BY AccessInvAccounts
<1>2. QED
  BY <1>1, AccessInvInit, AccessInvNext, PTL DEF AccessSpec

(* UpdateConfigRoles and CreateConfig leave a configuration exactly the     *)
(* roles asked for, but for what others wrote and for the roles that they   *)
(* passed over because a call failed.                                       *)
THEOREM UpdateLeavesRolesAskedFor == AccessSpec => []UpdateReplacesRoles
<1>1. AccessInv => UpdateReplacesRoles
  BY AccessInvAccounts
<1>2. QED
  BY <1>1, AccessInvInit, AccessInvNext, PTL DEF AccessSpec
-----------------------------------------------------------------------------
(* The rate limiter: entries, and the invariant of RateExact.  What the map *)
(* holds of a client need not be all that was let through, for cleanup and  *)
(* Allow drop what is old; it is all of it that the window still sees.      *)
Entry == [at : Instants, no : Nat \ {0}]
Recent(ip) == {g \in granted[ip] : g.at > clock - Window}

RateTypeOK ==
    /\ clock \in Instants
    /\ granted \in [Clients -> SUBSET Entry]
    /\ DOMAIN requests \subseteq Clients
    /\ refused \subseteq Clients
Numbered(ip) ==
    /\ IsFiniteSet(granted[ip])
    /\ \A g \in granted[ip] : g.at <= clock /\ g.no <= Cardinality(granted[ip])
RateInv ==
    /\ RateTypeOK
    /\ \A ip \in Clients :
        /\ Numbered(ip)
        /\ timesOf(ip) \subseteq granted[ip]
        /\ valid(timesOf(ip)) = Recent(ip)
        /\ \A t \in Instants : InWindow(ip, t) <= Limit
        /\ ip \in refused => InWindow(ip, clock) = Limit

(* A window holds no more than what is recent, if it ends now or later, and *)
(* what is recent is the window that ends now.                              *)
LEMMA WindowOfRecent ==
    ASSUME RateTypeOK, NEW ip \in Clients, Numbered(ip)
    PROVE  /\ IsFiniteSet(Recent(ip))
           /\ Cardinality(Recent(ip)) \in Nat
           /\ Cardinality(Recent(ip)) = InWindow(ip, clock)
           /\ \A t \in Instants : t >= clock => InWindow(ip, t) <= Cardinality(Recent(ip))
<1>1. IsFiniteSet(Recent(ip)) /\ Cardinality(Recent(ip)) \in Nat
  BY FS_Subset, FS_CardinalityType DEF Numbered, Recent
<1>2. Recent(ip) = {g \in granted[ip] : clock - Window < g.at /\ g.at <= clock}
  BY RateAssumption DEF Recent, Numbered, RateTypeOK, Entry, Instants
<1>3. ASSUME NEW t \in Instants, t >= clock
      PROVE  InWindow(ip, t) <= Cardinality(Recent(ip))
  <2>1. {g \in granted[ip] : t - Window < g.at /\ g.at <= t} \subseteq Recent(ip)
    BY <1>3, RateAssumption DEF Recent, RateTypeOK, Entry, Instants
  <2>. QED  BY <1>1, <2>1, FS_Subset DEF InWindow
<1>. QED  BY <1>1, <1>2, <1>3 DEF InWindow

(* Initially nothing was let through. *)
LEMMA RateStart == RateInit => RateInv
<1>. SUFFICES ASSUME RateInit PROVE RateInv
  OBVIOUS
<1>1. RateTypeOK
  BY RateAssumption DEF RateInit, RateTypeOK, Instants
<1>2. ASSUME NEW ip \in Clients
      PROVE  /\ Numbered(ip)
             /\ timesOf(ip) \subseteq granted[ip]
             /\ valid(timesOf(ip)) = Recent(ip)
             /\ \A t \in Instants : InWindow(ip, t) <= Limit
             /\ ip \notin refused
  <2>1. granted[ip] = {} /\ timesOf(ip) = {}
    BY DEF RateInit, timesOf
  <2>2. Numbered(ip) /\ valid(timesOf(ip)) = Recent(ip) /\ ip \notin refused
    BY <2>1, FS_EmptySet DEF Numbered, valid, Recent, RateInit
  <2>3. \A t \in Instants : InWindow(ip, t) = 0
    <3>. TAKE t \in Instants
    <3>1. {g \in granted[ip] : t - Window < g.at /\ g.at <= t} = {}
      BY <2>1
    <3>. QED  BY <3>1, FS_EmptySet DEF InWindow
  <2>. QED  BY <2>1, <2>2, <2>3, RateAssumption
<1>. QED  BY <1>1, <1>2 DEF RateInv

(* As time passes, what the window no longer sees is neither recent nor    *)
(* valid.                                                                  *)
LEMMA RateAdvance == RateInv /\ Advance => RateInv'
<1>. SUFFICES ASSUME RateInv, Advance PROVE RateInv'
  OBVIOUS
<1>1. RateTypeOK'
  BY RateAssumption DEF RateInv, Advance, RateTypeOK, Instants
<1>2. ASSUME NEW ip \in Clients
      PROVE  /\ Numbered(ip)'
             /\ (timesOf(ip) \subseteq granted[ip])'
             /\ (valid(timesOf(ip)) = Recent(ip))'
             /\ \A t \in Instants : InWindow(ip, t)' <= Limit
             /\ ip \notin refused'
  <2>1. granted' = granted /\ requests' = requests /\ refused' = {} /\ clock' = clock + 1 /\ clock \in Nat
    BY RateAssumption DEF Advance, RateInv, RateTypeOK, Instants
  <2>2. Numbered(ip)'
    BY <2>1 DEF RateInv, RateTypeOK, Numbered, Entry, Instants
  <2>3. Recent(ip)' = {g \in Recent(ip) : g.at > clock + 1 - Window}
    BY <2>1, RateAssumption DEF Recent, RateInv, RateTypeOK, Entry, Instants
  <2>4. timesOf(ip)' = timesOf(ip) /\ timesOf(ip) \subseteq granted[ip]
    BY <2>1 DEF timesOf, RateInv
  <2>5. valid(timesOf(ip))' = {g \in timesOf(ip) : g.at > clock + 1 - Window}
    <3>1. valid(timesOf(ip))' = {g \in timesOf(ip)' : g.at > clock' - Window}
      BY DEF valid
    <3>. QED  BY <2>1, <2>4, <3>1, RateAssumption
  <2>6. Recent(ip) = {g \in timesOf(ip) : g.at > clock - Window}
    BY DEF RateInv, valid
  <2>7. \A g \in timesOf(ip) : g.at > clock + 1 - Window => g.at > clock - Window
    BY <2>4, <2>1, RateAssumption DEF RateInv, RateTypeOK, Entry, Instants
  <2>8. \A t \in Instants : InWindow(ip, t)' <= Limit
    BY <2>1 DEF RateInv, InWindow
  <2>9. (valid(timesOf(ip)) = Recent(ip))'
    BY <2>3, <2>5, <2>6, <2>7
  <2>. QED  BY <2>1, <2>2, <2>4, <2>8, <2>9
<1>. QED  BY <1>1, <1>2 DEF RateInv

(* The client of a request. Either nothing is added, because Limit entries *)
(* are recent, or one entry is, which no entry before it equals.           *)
LEMMA RateAllow == ASSUME RateInv, NEW ip \in Clients, Allow(ip) PROVE RateInv'
<1>. DEFINE refuse == Cardinality(valid(timesOf(ip))) >= Limit
            entry == [at |-> clock, no |-> Cardinality(granted[ip]) + 1]
            new == IF refuse THEN {} ELSE {entry}
<1>0. /\ clock' = clock
      /\ requests' = withTimes(ip, valid(timesOf(ip)) \cup new)
      /\ granted' = [granted EXCEPT ![ip] = @ \cup new]
      /\ refused' = IF refuse THEN {ip} ELSE {}
  BY DEF Allow
<1>1. /\ RateTypeOK /\ Numbered(ip) /\ clock \in Nat
      /\ timesOf(ip) \subseteq granted[ip]
      /\ valid(timesOf(ip)) = Recent(ip)
  BY RateAssumption DEF RateInv, RateTypeOK, Instants
<1>2. Cardinality(granted[ip]) \in Nat
  BY <1>1, FS_CardinalityType DEF Numbered
<1>3. entry \in Entry /\ entry \notin granted[ip] /\ entry.at = clock
  BY <1>1, <1>2 DEF Entry, Numbered, RateTypeOK
<1>. HIDE DEF entry
<1>4. granted'[ip] = granted[ip] \cup new /\ \A c \in Clients \ {ip} : granted'[c] = granted[c]
  BY <1>0, <1>1 DEF RateTypeOK
<1>5. timesOf(ip)' = valid(timesOf(ip)) \cup new /\ \A c \in Clients \ {ip} : timesOf(c)' = timesOf(c)
  BY <1>0, <1>1 DEF withTimes, timesOf
<1>6. RateTypeOK'
  <2>1. new \subseteq Entry
    BY <1>3
  <2>2. granted' \in [Clients -> SUBSET Entry]
    BY <1>0, <1>1, <2>1 DEF RateTypeOK
  <2>3. DOMAIN requests' \subseteq Clients
    BY <1>0, <1>1 DEF withTimes, RateTypeOK
  <2>. QED  BY <1>0, <1>1, <2>2, <2>3 DEF RateTypeOK
<1>7. ASSUME NEW c \in Clients, c # ip
      PROVE  /\ Numbered(c)'
             /\ (timesOf(c) \subseteq granted[c])'
             /\ (valid(timesOf(c)) = Recent(c))'
             /\ \A t \in Instants : InWindow(c, t)' <= Limit
             /\ c \notin refused'
  <2>1. granted'[c] = granted[c] /\ timesOf(c)' = timesOf(c) /\ clock' = clock /\ c \notin refused'
    BY <1>7, <1>0, <1>4, <1>5
  <2>2. valid(timesOf(c))' = valid(timesOf(c))
    <3>1. valid(timesOf(c))' = {g \in timesOf(c)' : g.at > clock' - Window}
      BY DEF valid
    <3>. QED  BY <2>1, <3>1 DEF valid
  <2>3. /\ Numbered(c) /\ timesOf(c) \subseteq granted[c] /\ valid(timesOf(c)) = Recent(c)
        /\ \A t \in Instants : InWindow(c, t) <= Limit
    BY DEF RateInv
  <2>. QED  BY <2>1, <2>2, <2>3 DEF Numbered, Recent, InWindow
<1>8. Numbered(ip)'
  <2>1. CASE refuse
    BY <2>1, <1>0, <1>1, <1>4 DEF Numbered
  <2>2. CASE ~refuse
    <3>1. granted'[ip] = granted[ip] \cup {entry}
      BY <1>4, <2>2
    <3>2. IsFiniteSet(granted'[ip]) /\ Cardinality(granted'[ip]) = Cardinality(granted[ip]) + 1
      <4>1. IsFiniteSet(granted[ip])
        BY <1>1 DEF Numbered
      <4>. QED  BY <3>1, <4>1, <1>3, FS_AddElement
    <3>3. entry.no = Cardinality(granted[ip]) + 1 /\ entry.at <= clock
      BY <1>1, <1>3 DEF entry
    <3>4. \A g \in granted[ip] : g.no \in Nat
      BY <1>1 DEF RateTypeOK, Entry
    <3>5. \A g \in granted'[ip] : g.at <= clock /\ g.no <= Cardinality(granted[ip]) + 1
      BY <3>1, <3>3, <3>4, <1>1, <1>2 DEF Numbered
    <3>. QED  BY <3>2, <3>5, <1>0 DEF Numbered
  <2>. QED  BY <2>1, <2>2
<1>9. Recent(ip)' = Recent(ip) \cup new
  BY <1>0, <1>1, <1>3, <1>4, RateAssumption DEF Recent
<1>10. (timesOf(ip) \subseteq granted[ip])' /\ (valid(timesOf(ip)) = Recent(ip))'
  <2>1. timesOf(ip)' = Recent(ip)'
    BY <1>1, <1>5, <1>9
  <2>2. Recent(ip)' \subseteq granted'[ip]
    BY DEF Recent
  <2>3. \A g \in Recent(ip)' : g.at > clock' - Window
    BY DEF Recent
  <2>. QED  BY <2>1, <2>2, <2>3 DEF valid
<1>11. /\ IsFiniteSet(Recent(ip)) /\ Cardinality(Recent(ip)) \in Nat
       /\ Cardinality(Recent(ip)) = InWindow(ip, clock)
       /\ InWindow(ip, clock) <= Limit
  BY <1>1, WindowOfRecent DEF RateInv, RateTypeOK
<1>12. Cardinality(Recent(ip)') <= Limit
  <2>1. CASE refuse
    BY <2>1, <1>9, <1>11
  <2>2. CASE ~refuse
    <3>1. Recent(ip)' = Recent(ip) \cup {entry} /\ entry \notin Recent(ip)
      BY <2>2, <1>3, <1>9 DEF Recent
    <3>2. Cardinality(Recent(ip)') = Cardinality(Recent(ip)) + 1
      BY <3>1, <1>11, FS_AddElement
    <3>3. Cardinality(Recent(ip)) < Limit
      BY <2>2, <1>1, <1>11, RateAssumption
    <3>. QED  BY <3>2, <3>3, <1>11, RateAssumption
  <2>. QED  BY <2>1, <2>2
<1>13. ASSUME NEW t \in Instants
       PROVE  InWindow(ip, t)' <= Limit
  <2>1. CASE t >= clock
    <3>1. IsFiniteSet(Recent(ip)')
      BY <1>9, <1>11, FS_AddElement, FS_EmptySet
    <3>2. {g \in granted'[ip] : t - Window < g.at /\ g.at <= t} \subseteq Recent(ip)'
      BY <2>1, <1>0, <1>6, RateAssumption DEF Recent, RateTypeOK, Entry, Instants
    <3>3. InWindow(ip, t)' <= Cardinality(Recent(ip)') /\ InWindow(ip, t)' \in Nat /\ Cardinality(Recent(ip)') \in Nat
      BY <3>1, <3>2, FS_Subset, FS_CardinalityType DEF InWindow
    <3>. QED  BY <3>3, <1>12, RateAssumption
  <2>2. CASE ~(t >= clock)
    <3>1. {g \in granted'[ip] : t - Window < g.at /\ g.at <= t}
            = {g \in granted[ip] : t - Window < g.at /\ g.at <= t}
      BY <2>2, <1>1, <1>3, <1>4 DEF Instants
    <3>. QED  BY <3>1 DEF InWindow, RateInv
  <2>. QED  BY <2>1, <2>2
<1>14. ip \in refused' => (InWindow(ip, clock) = Limit)'
  <2>1. SUFFICES ASSUME refuse PROVE (InWindow(ip, clock) = Limit)'
    BY <1>0
  <2>2. granted'[ip] = granted[ip]
    BY <1>4, <2>1
  <2>3. InWindow(ip, clock) = Limit
    BY <2>1, <1>1, <1>11, RateAssumption
  <2>. QED  BY <2>2, <2>3, <1>0 DEF InWindow
<1>. QED  BY <1>6, <1>7, <1>8, <1>10, <1>13, <1>14 DEF RateInv

(* The cleanup leaves of every client what is valid, which is all that     *)
(* Allow looks at.                                                         *)
LEMMA RateCleanup == RateInv /\ cleanup => RateInv'
<1>. SUFFICES ASSUME RateInv, cleanup PROVE RateInv'
  OBVIOUS
<1>1. clock' = clock /\ granted' = granted /\ refused' = {}
  BY DEF cleanup
<1>2. RateTypeOK'
  BY <1>1 DEF RateInv, RateTypeOK, cleanup
<1>3. ASSUME NEW ip \in Clients
      PROVE  timesOf(ip)' = valid(timesOf(ip))
  BY DEF cleanup, timesOf, valid
<1>4. ASSUME NEW ip \in Clients
      PROVE  (timesOf(ip) \subseteq granted[ip])' /\ (valid(timesOf(ip)) = Recent(ip))'
  <2>1. valid(timesOf(ip)) = Recent(ip) /\ Recent(ip)' = Recent(ip)
    BY <1>1 DEF RateInv, Recent
  <2>2. \A g \in Recent(ip) : g \in granted[ip] /\ g.at > clock - Window
    BY DEF Recent
  <2>. QED  BY <1>1, <1>3, <2>1, <2>2 DEF valid
<1>. QED  BY <1>1, <1>2, <1>4 DEF RateInv, Numbered, InWindow

(* RateExact, as the runs check it.  For any clients, limit and window: no *)
(* window lets more than Limit requests of a client through, and a refusal *)
(* means that the window that ends now is full.                            *)
THEOREM RateLimited == RateSpec => []RateExact
<1>1. RateInv => RateExact
  BY DEF RateInv, RateExact, RateTypeOK
<1>2. RateInv /\ UNCHANGED rateVars => RateInv'
  BY DEF rateVars, RateInv, RateTypeOK, Numbered, timesOf, valid, Recent, InWindow
<1>3. RateInv /\ [RateNext]_rateVars => RateInv'
  BY <1>2, RateAdvance, RateAllow, RateCleanup DEF RateNext
<1>. QED  BY <1>1, <1>3, RateStart, PTL DEF RateSpec
=============================================================================

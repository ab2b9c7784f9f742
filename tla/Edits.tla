-------------------------------- MODULE Edits --------------------------------
(***************************************************************************)
(* The handlers that change configurations, backends, health checks and    *)
(* DNS providers (internal/handlers/config.go, backend.go, health.go,      *)
(* dns.go), each as the store calls it makes, one step per call: they look *)
(* at rows, write one of them and insert a line into audit_logs, with no   *)
(* transaction around the calls, while other requests do the same.         *)
(* Reconciler has the same handlers as single steps; what they start there *)
(* (triggerReconcile) is left out here.  Left out too are the roles that   *)
(* CreateConfig assigns between its INSERT and its line, whose errors it   *)
(* ignores, and the handlers of roles and of the login (config_roles.go,   *)
(* auth.go): what they write is in Access, their lines are not.            *)
(*                                                                         *)
(* The tables are one partial function from keys, pairs of a table and an  *)
(* id, to rows; a row is a record of its columns.  health_checks and       *)
(* dns_providers are keyed by their UNIQUE column config_id.               *)
(***************************************************************************)
EXTENDS Integers

CONSTANTS
    Editors,        \* requests in progress at the same time
    OwnerIds,       \* ids of configurations
    HostIds,        \* ids of backends
    Values,         \* values of a column
    Databases,      \* the contents the database may have at the start
    MaxEdits,       \* bound: requests
    MaxEditErrors   \* bound: store calls that fail

VARIABLES
    db,             \* the tables
    used,           \* keys of configurations and backends given so far (uuid.New)
    edit,           \* the requests in progress
    edits,          \* requests so far
    editErrors,     \* store calls that failed so far
    trail,          \* table audit_logs
    commits,        \* history: the writes, as they changed their row
    unlogged        \* history: the requests whose audit_logs insert failed

editVars == <<db, used, edit, edits, editErrors, trail, commits, unlogged>>

Settings == {"health_checks", "dns_providers"}
ConfigKey(c) == <<"configs", c>>
HostKey(b) == <<"backends", b>>
RowKeys == {ConfigKey(c) : c \in OwnerIds} \cup {HostKey(b) : b \in HostIds}
            \cup (Settings \X OwnerIds)

NoRow == [f \in {} |-> 0]
Rows(k) ==
    IF k[1] = "backends" THEN [config_id : OwnerIds, ip : Values] ELSE [value : Values]

(* The rows a row refers to by a foreign key, all of them ON DELETE CASCADE. *)
References(k, row) ==
    CASE k[1] = "configs" -> {}
      [] k[1] = "backends" -> {ConfigKey(row.config_id)}
      [] OTHER -> {ConfigKey(k[2])}

Consistent(t) == \A k \in DOMAIN t : t[k] \in Rows(k) /\ References(k, t[k]) \subseteq DOMAIN t

ASSUME EditsAssumption ==
    /\ \A t \in Databases : DOMAIN t \subseteq RowKeys /\ Consistent(t)
    /\ MaxEdits \in Nat
    /\ MaxEditErrors \in Nat

(***************************************************************************)
(* A request has a number, the key it writes, the configuration it checks  *)
(* first, the columns it was given and the row it has read.  touched is    *)
(* history: the columns of that row that others wrote since it was read.   *)
(***************************************************************************)
NoEdit == [pc |-> "idle"]
Columns == {"config_id", "ip", "value"}
Audited == Columns \ {"config_id"}

(* The type of tables and requests; the foreign keys hold in every state,  *)
(* whatever the order in which requests check, write and delete rows.      *)
EditTypeOK ==
    /\ DOMAIN db \subseteq RowKeys /\ Consistent(db)
    /\ {k \in DOMAIN db : k[1] \notin Settings} \subseteq used
    /\ edits \in 0 .. MaxEdits
    /\ editErrors \in 0 .. MaxEditErrors
    /\ \A e \in Editors : edit[e] = NoEdit \/
          /\ edit[e].pc \in {"verify", "lookup", "read", "write", "log"}
          /\ edit[e].op \in {"create", "update", "delete", "configure"}
          /\ edit[e].n \in 1 .. edits
          /\ edit[e].key \in RowKeys
          /\ edit[e].touched \subseteq Columns
    /\ {t.n : t \in trail} \cup unlogged \subseteq 1 .. edits

EditInit ==
    /\ db \in Databases
    /\ used = {k \in DOMAIN db : k[1] \notin Settings}
    /\ edit = [e \in Editors |-> NoEdit]
    /\ edits = 0
    /\ editErrors = 0
    /\ trail = {}
    /\ commits = {}
    /\ unlogged = {}

-----------------------------------------------------------------------------
InEdit(e, pc) == edit[e].pc = pc
Answered(e) == edit' = [edit EXCEPT ![e] = NoEdit]
history == <<trail, commits, unlogged>>

Begin(e, pc, op, key, given) ==
    /\ edit[e] = NoEdit
    /\ edits < MaxEdits
    /\ edits' = edits + 1
    /\ edit' = [edit EXCEPT ![e] = [pc |-> pc, op |-> op, n |-> edits + 1, key |-> key,
                                    given |-> given, old |-> NoRow, touched |-> {}]]
    /\ UNCHANGED <<db, editErrors, history>>

(* The handlers: the row each of them writes, what it is given, and the     *)
(* store call it begins with; the calls that follow are the steps below.    *)
AddBackend(e, b, c, v) ==
    /\ HostKey(b) \notin used
    /\ used' = used \cup {HostKey(b)}
    /\ Begin(e, "verify", "create", HostKey(b), [config_id |-> c, ip |-> v])
UpdateBackend(e, b, given) == Begin(e, "read", "update", HostKey(b), given) /\ UNCHANGED used
DeleteBackend(e, b) == Begin(e, "read", "delete", HostKey(b), NoRow) /\ UNCHANGED used
AddConfig(e, c, v) ==
    /\ ConfigKey(c) \notin used
    /\ used' = used \cup {ConfigKey(c)}
    /\ Begin(e, "write", "create", ConfigKey(c), [value |-> v])
UpdateConfig(e, c, v) ==
    Begin(e, "read", "update", ConfigKey(c), [value |-> v]) /\ UNCHANGED used
RemoveConfig(e, c) == Begin(e, "read", "delete", ConfigKey(c), NoRow) /\ UNCHANGED used
ConfigureHealthCheck(e, c, v) ==
    /\ Begin(e, "verify", "configure", <<"health_checks", c>>, [value |-> v])
    /\ UNCHANGED used
ConfigureDNSProvider(e, c, v) ==
    /\ Begin(e, "verify", "configure", <<"dns_providers", c>>, [value |-> v])
    /\ UNCHANGED used
DeleteHealthCheck(e, c) ==
    Begin(e, "verify", "delete", <<"health_checks", c>>, NoRow) /\ UNCHANGED used
DeleteDNSProvider(e, c) ==
    Begin(e, "verify", "delete", <<"dns_providers", c>>, NoRow) /\ UNCHANGED used

(* GetConfig of the configuration in the path: not found is a 404. *)
VerifyConfig(e) ==
    LET r == edit[e]
    IN  /\ InEdit(e, "verify")
        /\ IF References(r.key, r.given) \subseteq DOMAIN db
           THEN edit' = [edit EXCEPT ![e].pc = CASE r.op = "create" -> "write"
                                                 [] r.op = "delete" -> "read"
                                                 [] OTHER -> "lookup"]
           ELSE Answered(e)
        /\ UNCHANGED <<db, used, edits, editErrors, history>>

(* Configure...: whether there is a row decides between UPDATE and INSERT. *)
LookupSetting(e) ==
    LET k == edit[e].key
    IN  /\ InEdit(e, "lookup")
        /\ edit' = [edit EXCEPT ![e].pc = "write",
                       ![e].op = IF k \in DOMAIN db THEN "update" ELSE "create",
                       ![e].old = IF k \in DOMAIN db THEN db[k] ELSE NoRow]
        /\ UNCHANGED <<db, used, edits, editErrors, history>>

(* ... and so does any other error of the lookup, a row that does not       *)
(* decrypt included: it is taken for "no row".                              *)
LookupFails(e) ==
    /\ InEdit(e, "lookup")
    /\ editErrors < MaxEditErrors
    /\ editErrors' = editErrors + 1
    /\ edit' = [edit EXCEPT ![e].pc = "write", ![e].op = "create"]
    /\ UNCHANGED <<db, used, edits, history>>

(* The row that is changed or deleted, read for the merge and the log. *)
ReadRow(e) ==
    LET k == edit[e].key
    IN  /\ InEdit(e, "read")
        /\ IF k \in DOMAIN db
           THEN edit' = [edit EXCEPT ![e].pc = "write", ![e].old = db[k]]
           ELSE Answered(e)
        /\ UNCHANGED <<db, used, edits, editErrors, history>>

(* The columns of one row, and those of another that it does not have. *)
Over(new, old) ==
    [f \in DOMAIN new \cup DOMAIN old |-> IF f \in DOMAIN new THEN new[f] ELSE old[f]]

(* Mutant: a column that was not provided gets the column's first value. *)
MergeZero(given, old) ==
    Over(given, [f \in DOMAIN old |-> IF f = "ip" THEN CHOOSE v \in Values : TRUE ELSE old[f]])

(* "Apply updates only for fields that were provided." *)
Merge(given, old) == Over(given, old)

(* Mutant: the foreign keys of the settings without ON DELETE CASCADE. *)
CascadeToBackends(k) ==
    {k} \cup {j \in DOMAIN db : j[1] = "backends" /\ k \in References(j, db[j])}

(* DELETE takes with it what refers to the row. *)
Cascade(k) == {k} \cup {j \in DOMAIN db : k \in References(j, db[j])}

(* The statement of the request: UPDATE and DELETE need the row, INSERT     *)
(* must not find one (UNIQUE), and what a new row refers to must be there.  *)
Row(r) == IF r.op = "delete" THEN NoRow ELSE Merge(r.given, r.old)
Accepted(r) ==
    /\ (r.key \in DOMAIN db) <=> (r.op # "create")
    /\ r.op # "delete" => References(r.key, Row(r)) \subseteq DOMAIN db
Written(r) ==
    IF r.op = "delete" THEN [j \in DOMAIN db \ Cascade(r.key) |-> db[j]]
    ELSE [j \in DOMAIN db \cup {r.key} |-> IF j = r.key THEN Row(r) ELSE db[j]]

RowOf(t, k) == IF k \in DOMAIN t THEN t[k] ELSE NoRow
Changed(before, after) ==
    {f \in Columns : \/ (f \in DOMAIN before) # (f \in DOMAIN after)
                     \/ f \in DOMAIN before /\ before[f] # after[f]}

(* The others that have read a row, or found none, of a key that changes. *)
Touch(e, q, after) ==
    IF q # e /\ edit[q].pc = "write"
    THEN [edit[q] EXCEPT !.touched = @ \cup Changed(RowOf(db, edit[q].key), RowOf(after, edit[q].key))]
    ELSE edit[q]

WriteRow(e) ==
    LET r == edit[e]
    IN  /\ InEdit(e, "write")
        /\ IF Accepted(r)
           THEN /\ db' = Written(r)
                /\ edit' = [q \in Editors |-> IF q = e THEN [r EXCEPT !.pc = "log"]
                                              ELSE Touch(e, q, Written(r))]
                /\ commits' = commits \cup
                      {[n |-> r.n, key |-> r.key, before |-> RowOf(db, r.key),
                        after |-> Row(r), touched |-> r.touched]}
           ELSE Answered(e) /\ UNCHANGED <<db, commits>>
        /\ UNCHANGED <<used, edits, editErrors, trail, unlogged>>

(* The changes the handler lists: the columns that differ between the row   *)
(* it read and the one it wrote; config_id is not among them.               *)
Details(before, after) ==
    {[field |-> f, old |-> RowOf(before, f), new |-> RowOf(after, f)] :
        f \in Changed(before, after) \cap Audited}

(* An INSERT into audit_logs. *)
CreateAuditLog(r, details) == trail' = trail \cup {[n |-> r.n, key |-> r.key, details |-> details]}

(* Mutant: nothing is logged for an update that changes no audited column. *)
logChanges(e) ==
    LET r == edit[e]
        details == Details(r.old, Row(r))
    IN  /\ InEdit(e, "log")
        /\ IF details = {} THEN UNCHANGED trail ELSE CreateAuditLog(r, details)
        /\ Answered(e)
        /\ UNCHANGED <<db, used, edits, editErrors, commits, unlogged>>

(* Mutant: the old values are read after the write. *)
logAfterWrite(e) ==
    LET r == edit[e]
    IN  /\ InEdit(e, "log")
        /\ CreateAuditLog(r, Details(RowOf(db, r.key), Row(r)))
        /\ Answered(e)
        /\ UNCHANGED <<db, used, edits, editErrors, commits, unlogged>>

(* logAudit, after a write that succeeded ... *)
logAudit(e) ==
    LET r == edit[e]
    IN  /\ InEdit(e, "log")
        /\ CreateAuditLog(r, Details(r.old, Row(r)))
        /\ Answered(e)
        /\ UNCHANGED <<db, used, edits, editErrors, commits, unlogged>>

(* ... whose error is only written to the process log. *)
logAuditFails(e) ==
    /\ InEdit(e, "log")
    /\ editErrors < MaxEditErrors
    /\ editErrors' = editErrors + 1
    /\ unlogged' = unlogged \cup {edit[e].n}
    /\ Answered(e)
    /\ UNCHANGED <<db, used, edits, trail, commits>>

(* Any other call that fails ends the request: handleStoreError. *)
handleStoreError(e) ==
    /\ edit[e].pc \in {"verify", "read", "write"}
    /\ editErrors < MaxEditErrors
    /\ editErrors' = editErrors + 1
    /\ Answered(e)
    /\ UNCHANGED <<db, used, edits, history>>

-----------------------------------------------------------------------------
Givens == [config_id : OwnerIds, ip : Values] \cup [config_id : OwnerIds] \cup [ip : Values]

StartEdit(e) ==
    \/ \E b \in HostIds :
          \/ \E c \in OwnerIds, v \in Values : AddBackend(e, b, c, v)
          \/ \E given \in Givens : UpdateBackend(e, b, given)
          \/ DeleteBackend(e, b)
    \/ \E c \in OwnerIds :
          \/ \E v \in Values : \/ AddConfig(e, c, v)
                               \/ UpdateConfig(e, c, v)
                               \/ ConfigureHealthCheck(e, c, v)
                               \/ ConfigureDNSProvider(e, c, v)
          \/ RemoveConfig(e, c) \/ DeleteHealthCheck(e, c) \/ DeleteDNSProvider(e, c)

EditStep(e) ==
    \/ VerifyConfig(e) \/ LookupSetting(e) \/ LookupFails(e) \/ ReadRow(e) \/ WriteRow(e)
    \/ logAudit(e) \/ logAuditFails(e) \/ handleStoreError(e)

EditNext == \E e \in Editors : StartEdit(e) \/ EditStep(e)

EditSpec == EditInit /\ [][EditNext]_editVars

-----------------------------------------------------------------------------
(***************************************************************************)
(* OnlyProvidedFields.  "Apply updates only for fields that were provided" *)
(* (UpdateBackend): a successful update changes a column that its request  *)
(* did not give only by writing back what it had read over what another    *)
(* request has written there since.  So of two updates that do not overlap *)
(* neither disturbs the other, and an overlap harms no other column.       *)
(***************************************************************************)
OnlyProvidedFields ==
    [][\A e \in Editors :
          LET r == edit[e]
          IN  InEdit(e, "write") /\ r.op = "update" /\ edit'[e].pc = "log" =>
                 \A f \in DOMAIN db[r.key] \ (DOMAIN r.given \cup r.touched) :
                     db'[r.key][f] = db[r.key][f]]_editVars

(***************************************************************************)
(* TrailTrue.  A line of the audit log stands for one write that took      *)
(* place, and tells of every audited column how that write changed it,     *)
(* except for columns that others changed between the read that the line   *)
(* is computed from and the write.                                         *)
(***************************************************************************)
TrailTrue ==
    \A t \in trail : \E w \in commits :
        /\ w.n = t.n /\ w.key = t.key
        /\ \A f \in Audited \ w.touched :
              {d \in t.details : d.field = f} = {d \in Details(w.before, w.after) : d.field = f}

(***************************************************************************)
(* TrailComplete.  "Full action trail for all write operations" (README),  *)
(* for the handlers of this module: the write of a request that has been   *)
(* answered is in the audit log, unless the insert itself failed; a        *)
(* request that wrote nothing left no line.  Each of them writes once and  *)
(* logs next; UpdateConfigRoles does not (config_roles.go:67-82: an error  *)
(* after some of its writes ends it without a line), and is not covered.   *)
(***************************************************************************)
TrailComplete ==
    LET logging == {e \in Editors : InEdit(e, "log")}
    IN  {w.n : w \in commits} =
            {t.n : t \in trail} \cup unlogged \cup {edit[e].n : e \in logging}
=============================================================================

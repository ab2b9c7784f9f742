----------------------------- MODULE EditsProofs -----------------------------
(***************************************************************************)
(* Proofs about Edits, for any tables and any number of concurrent         *)
(* requests: the foreign keys hold in every state, an update changes only  *)
(* the columns it was given but for what others wrote since its read, and  *)
(* the audit log has a true line for every write and no other.             *)
(*                                                                         *)
(* The argument is about one request at a time.  The row it has read       *)
(* agrees with the row in the table on every column that nobody touched    *)
(* since (this is what the history field touched is for), so what it       *)
(* writes back, and what it later logs, is right for these columns.  A     *)
(* request that inserts has read no row, and its insert is accepted only   *)
(* if there is none.                                                       *)
(***************************************************************************)
EXTENDS Edits, TLAPS

(* The record of a request in progress. *)
AnyRow == [config_id : OwnerIds, ip : Values] \cup [value : Values] \cup {NoRow}
EditRecord ==
    [pc : {"verify", "lookup", "read", "write", "log"},
     op : {"create", "update", "delete", "configure"},
     n : Nat, key : RowKeys, given : Givens \cup AnyRow, old : AnyRow, touched : SUBSET Columns]

(* What an update of a row of key k may be given. *)
Provided(k) == IF k[1] = "backends" THEN Givens ELSE [value : Values]

(* Columns given, over a row that was read, make a row again. *)
LEMMA MergeRow ==
    ASSUME NEW k, NEW given, NEW old,
           \/ given \in Rows(k) /\ old = NoRow
           \/ given \in Provided(k) /\ old \in Rows(k)
    PROVE  Merge(given, old) \in Rows(k)
<1>1. CASE k[1] = "backends" /\ given \in Rows(k) /\ old = NoRow
  BY <1>1 DEF Merge, Over, Rows, NoRow
<1>2. CASE k[1] # "backends" /\ given \in Rows(k) /\ old = NoRow
  BY <1>2 DEF Merge, Over, Rows, NoRow
<1>3. CASE k[1] = "backends" /\ given \in Provided(k) /\ old \in Rows(k)
  BY <1>3 DEF Merge, Over, Rows, Provided, Givens
<1>4. CASE k[1] # "backends" /\ given \in Provided(k) /\ old \in Rows(k)
  BY <1>4 DEF Merge, Over, Rows, Provided
<1>5. QED
  BY <1>1, <1>2, <1>3, <1>4

(* The columns two rows agree on. *)
Agree(a, b, f) ==
    /\ (f \in DOMAIN a) <=> (f \in DOMAIN b)
    /\ f \in DOMAIN a => a[f] = b[f]

(* A column that is not changed is one the rows agree on. *)
LEMMA ChangedAgree ==
    ASSUME NEW before, NEW after, NEW f \in Columns
    PROVE  f \notin Changed(before, after) <=> Agree(before, after, f)
BY DEF Changed, Agree

(* What the log says of a column depends on that column only. *)
LEMMA DetailsAgree ==
    ASSUME NEW a, NEW b, NEW row, NEW f \in Audited, Agree(a, b, f)
    PROVE  {d \in Details(a, row) : d.field = f} = {d \in Details(b, row) : d.field = f}
<1>1. f \in Columns
  BY DEF Audited
<1>2. f \in Changed(a, row) <=> f \in Changed(b, row)
  BY <1>1 DEF Changed, Agree
<1>3. RowOf(a, f) = RowOf(b, f)
  BY DEF RowOf, Agree
<1>4. \A d : d \in Details(a, row) /\ d.field = f
               <=> f \in Changed(a, row) /\ d = [field |-> f, old |-> RowOf(a, f), new |-> RowOf(row, f)]
  BY DEF Details
<1>5. \A d : d \in Details(b, row) /\ d.field = f
               <=> f \in Changed(b, row) /\ d = [field |-> f, old |-> RowOf(b, f), new |-> RowOf(row, f)]
  BY DEF Details
<1>6. QED
  BY <1>2, <1>3, <1>4, <1>5
-----------------------------------------------------------------------------
(* What a request of each kind has been given and has read, by where it is. *)
Shape(r) ==
    /\ r.op = "create" => r.given \in Rows(r.key) /\ r.old = NoRow
    /\ r.op = "configure" =>
          /\ r.given \in Rows(r.key) /\ r.old = NoRow
          /\ r.key[1] \in Settings /\ r.pc \in {"verify", "lookup"}
    /\ r.op = "update" => r.given \in Provided(r.key) /\ r.pc \notin {"verify", "lookup"}
    /\ r.op \in {"update", "delete"} /\ r.pc \in {"write", "log"} => r.old \in Rows(r.key)
    /\ r.pc = "lookup" => r.op = "configure"
    /\ r.pc = "read" => r.op \in {"update", "delete"}

(* It has read the row that is in the table, but for touched columns. *)
ReadAgrees(r) ==
    r.pc = "write" /\ r.op \in {"update", "delete"} =>
        \A f \in Columns \ r.touched : Agree(r.old, RowOf(db, r.key), f)

(* Once it has written, its write is in commits, and the row it has read    *)
(* agrees with the row that was replaced.                                   *)
Committed(r) ==
    \E w \in commits :
        /\ w.n = r.n /\ w.key = r.key /\ w.after = Row(r)
        /\ \A f \in Audited \ w.touched : Agree(r.old, w.before, f)

EditOK(r) ==
    /\ r \in EditRecord
    /\ r.n \in 1 .. edits
    /\ Shape(r)
    /\ r.op = "create" /\ r.key[1] \notin Settings => r.key \in used
    /\ ReadAgrees(r)
    /\ r.pc = "log" => Committed(r)

IdsUsed == \A k \in DOMAIN db : k[1] \notin Settings => k \in used
TrailNumbers == (\A t \in trail : t.n \in 1 .. edits) /\ unlogged \subseteq 1 .. edits
EditRequests ==
    /\ edit \in [Editors -> EditRecord \cup {NoEdit}]
    /\ \A e \in Editors : edit[e] # NoEdit => EditOK(edit[e])
DatabaseOK == DOMAIN db \subseteq RowKeys /\ Consistent(db) /\ IdsUsed
CountersOK == edits \in 0 .. MaxEdits /\ editErrors \in 0 .. MaxEditErrors

(* The invariant. *)
EditInv ==
    /\ DatabaseOK
    /\ CountersOK
    /\ EditRequests
    /\ TrailNumbers
    /\ TrailTrue
    /\ TrailComplete

(* It gives the type invariant. *)
LEMMA EditInvType == EditInv => EditTypeOK
<1> SUFFICES ASSUME EditInv PROVE EditTypeOK
  OBVIOUS
<1>1. {k \in DOMAIN db : k[1] \notin Settings} \subseteq used
  BY DEF EditInv, DatabaseOK, IdsUsed
<1>2. {t.n : t \in trail} \cup unlogged \subseteq 1 .. edits
  BY DEF EditInv, TrailNumbers
<1>3. ASSUME NEW e \in Editors, edit[e] # NoEdit
      PROVE  /\ edit[e].pc \in {"verify", "lookup", "read", "write", "log"}
             /\ edit[e].op \in {"create", "update", "delete", "configure"}
             /\ edit[e].n \in 1 .. edits
             /\ edit[e].key \in RowKeys
             /\ edit[e].touched \subseteq Columns
  <2>1. edit[e] \in EditRecord /\ edit[e].n \in 1 .. edits
    BY <1>3 DEF EditInv, EditRequests, EditOK
  <2>2. QED
    BY <2>1 DEF EditRecord
<1>4. QED
  BY <1>1, <1>2, <1>3 DEF EditInv, EditTypeOK, DatabaseOK, CountersOK

(* A request is in progress exactly when it is not idle. *)
LEMMA NotIdle ==
    ASSUME EditRequests, NEW e \in Editors, edit[e].pc # "idle"
    PROVE  edit[e] # NoEdit /\ edit[e] \in EditRecord /\ EditOK(edit[e])
<1>1. edit[e] # NoEdit
  BY DEF NoEdit
<1>2. QED
  BY <1>1 DEF EditRequests

(* What a request answers for does not depend on the steps of others that   *)
(* leave the tables alone.                                                  *)
LEMMA EditOKKept ==
    ASSUME NEW r, EditOK(r), edits \in Nat, edits' \in Nat, edits <= edits',
           used \subseteq used', commits \subseteq commits', UNCHANGED db
    PROVE  EditOK(r)'
<1>1. Committed(r) => Committed(r)'
  BY DEF Committed, Row, Agree
<1>2. ReadAgrees(r)'
  BY DEF EditOK, ReadAgrees, RowOf, Agree
<1>3. QED
  BY <1>1, <1>2 DEF EditOK

(* One request goes on as m, or ends; the others and the tables stay. *)
LEMMA OneEdit ==
    ASSUME EditRequests, CountersOK, NEW e \in Editors, NEW m,
           m = NoEdit \/ (EditOK(m))', edit' = [edit EXCEPT ![e] = m],
           edits' \in Nat, edits <= edits',
           used \subseteq used', commits \subseteq commits', UNCHANGED db
    PROVE  EditRequests'
<1>1. m \in EditRecord \cup {NoEdit}
  BY DEF EditOK
<1>2. edit' \in [Editors -> EditRecord \cup {NoEdit}]
  BY <1>1 DEF EditRequests
<1>3. ASSUME NEW q \in Editors, edit'[q] # NoEdit
      PROVE  EditOK(edit[q])'
  <2>1. CASE q = e
    <3>1. edit'[q] = m
      BY <2>1 DEF EditRequests
    <3>2. QED
      BY <1>3, <3>1 DEF EditOK, ReadAgrees, Committed
  <2>2. CASE q # e
    <3>1. edit'[q] = edit[q]
      BY <2>2 DEF EditRequests
    <3>2. PICK r : r = edit[q]
      OBVIOUS
    <3>3. EditOK(r)
      BY <1>3, <3>1, <3>2 DEF EditRequests
    <3>4. EditOK(r)'
      BY <3>3, EditOKKept DEF CountersOK
    <3>5. QED
      BY <3>1, <3>2, <3>4 DEF EditOK, ReadAgrees, Committed
  <2>3. QED
    BY <2>1, <2>2
<1>4. QED
  BY <1>2, <1>3 DEF EditRequests
-----------------------------------------------------------------------------
(* The row an accepted INSERT or UPDATE writes is a row of its table. *)
LEMMA RowType ==
    ASSUME NEW r \in EditRecord, Shape(r), r.pc = "write", r.op # "delete"
    PROVE  Row(r) \in Rows(r.key)
<1>1. r.op \in {"create", "update"}
  BY DEF EditRecord, Shape
<1>2. \/ r.given \in Rows(r.key) /\ r.old = NoRow
      \/ r.given \in Provided(r.key) /\ r.old \in Rows(r.key)
  BY <1>1 DEF Shape
<1>3. QED
  BY <1>1, <1>2, MergeRow DEF Row

(* Only keys of configs are referred to, and rows of configs refer to none. *)
LEMMA ReferencesConfigs ==
    ASSUME NEW k \in RowKeys, NEW row, NEW j \in References(k, row)
    PROVE  j[1] = "configs" /\ k[1] # "configs"
<1>1. CASE k[1] = "configs"
  BY <1>1 DEF References
<1>2. CASE k[1] = "backends"
  BY <1>2 DEF References, ConfigKey
<1>3. CASE k[1] # "configs" /\ k[1] # "backends"
  BY <1>3 DEF References, ConfigKey
<1>4. QED
  BY <1>1, <1>2, <1>3

(* An accepted statement keeps the tables consistent: a DELETE takes with   *)
(* it all rows that refer to its row, and nothing refers to those.          *)
LEMMA WriteKeepsTables ==
    ASSUME DatabaseOK, NEW r, EditOK(r), r.pc = "write", Accepted(r), NEW t, t = Written(r)
    PROVE  /\ DOMAIN t \subseteq RowKeys
           /\ Consistent(t)
           /\ \A k \in DOMAIN t : k[1] \notin Settings => k \in used
<1>1. r \in EditRecord /\ r.key \in RowKeys /\ Shape(r)
  BY DEF EditOK, EditRecord
<1>2. CASE r.op = "delete"
  <2>1. /\ DOMAIN t = DOMAIN db \ Cascade(r.key)
        /\ \A k \in DOMAIN t : t[k] = db[k]
    BY <1>2 DEF Written
  <2>2. ASSUME NEW k \in DOMAIN t
        PROVE  t[k] \in Rows(k) /\ References(k, t[k]) \subseteq DOMAIN t
    <3>1. /\ k \in DOMAIN db /\ k \in RowKeys /\ k \notin Cascade(r.key) /\ t[k] = db[k]
          /\ db[k] \in Rows(k) /\ References(k, db[k]) \subseteq DOMAIN db
      BY <2>1 DEF DatabaseOK, Consistent
    <3>2. ASSUME NEW j \in References(k, db[k])
          PROVE  j \notin Cascade(r.key)
      <4>1. j # r.key
        BY <3>1, <3>2 DEF Cascade
      <4>2. j[1] = "configs" /\ j \in DOMAIN db /\ j \in RowKeys
        BY <3>1, <3>2, ReferencesConfigs DEF DatabaseOK
      <4>3. References(j, db[j]) = {}
        BY <4>2 DEF References
      <4>4. QED
        BY <4>1, <4>3 DEF Cascade
    <3>3. QED
      BY <2>1, <3>1, <3>2
  <2>3. QED
    BY <2>1, <2>2 DEF Consistent, DatabaseOK, IdsUsed
<1>3. CASE r.op # "delete"
  <2>1. /\ DOMAIN t = DOMAIN db \cup {r.key}
        /\ t[r.key] = Row(r)
        /\ \A k \in DOMAIN db \ {r.key} : t[k] = db[k]
    BY <1>3 DEF Written
  <2>2. Row(r) \in Rows(r.key) /\ References(r.key, Row(r)) \subseteq DOMAIN db
    BY <1>1, <1>3, RowType DEF Accepted
  <2>3. Consistent(t)
    BY <2>1, <2>2 DEF Consistent, DatabaseOK
  <2>4. r.key[1] \notin Settings => r.key \in used
    BY DEF EditOK, Accepted, DatabaseOK, IdsUsed
  <2>5. QED
    BY <1>1, <2>1, <2>3, <2>4 DEF DatabaseOK, IdsUsed
<1>4. QED
  BY <1>2, <1>3

(* A request that was not asked takes note of what changed in its row. *)
LEMMA TouchKeeps ==
    ASSUME NEW e \in Editors, NEW q \in Editors, q # e, EditOK(edit[q]),
           NEW m, m = Touch(e, q, db'), edits' = edits, used' = used,
           commits \subseteq commits'
    PROVE  EditOK(m)' /\ m.pc = edit[q].pc /\ m.n = edit[q].n
<1>1. PICK r : r = edit[q]
  OBVIOUS
<1>2. EditOK(r)
  BY <1>1
<1>3. Committed(r) => Committed(r)'
  BY DEF Committed, Row, Agree
<1>4. CASE r.pc # "write"
  <2>1. m = r
    BY <1>1, <1>4 DEF Touch
  <2>2. QED
    BY <1>1, <1>2, <1>3, <1>4, <2>1 DEF EditOK, ReadAgrees
<1>5. CASE r.pc = "write"
  <2>1. PICK c \in SUBSET Columns : c = Changed(RowOf(db, r.key), RowOf(db', r.key))
    BY DEF Changed
  <2>2. m = [r EXCEPT !.touched = @ \cup c]
    BY <1>1, <1>5, <2>1 DEF Touch
  <2>3. r \in EditRecord
    BY <1>2 DEF EditOK
  <2>4. /\ m \in EditRecord /\ m.pc = r.pc /\ m.op = r.op /\ m.n = r.n /\ m.key = r.key
        /\ m.given = r.given /\ m.old = r.old /\ m.touched = r.touched \cup c
    BY <2>2, <2>3 DEF EditRecord
  <2>5. ASSUME NEW f \in Columns \ m.touched, r.op \in {"update", "delete"}
        PROVE  Agree(r.old, RowOf(db', r.key), f)
    <3>1. Agree(r.old, RowOf(db, r.key), f)
      BY <1>2, <1>5, <2>4, <2>5 DEF EditOK, ReadAgrees
    <3>2. Agree(RowOf(db, r.key), RowOf(db', r.key), f)
      BY <2>1, <2>4, <2>5, ChangedAgree
    <3>3. QED
      BY <3>1, <3>2 DEF Agree
  <2>6. ReadAgrees(m)'
    BY <2>4, <2>5 DEF ReadAgrees, RowOf
  <2>7. Shape(m)
    BY <1>2, <2>4 DEF EditOK, Shape
  <2>8. QED
    BY <1>1, <1>2, <1>5, <2>4, <2>6, <2>7 DEF EditOK
<1>6. QED
  BY <1>4, <1>5
-----------------------------------------------------------------------------
(* A step of a request that neither writes nor logs. *)
LEMMA QuietStep ==
    ASSUME EditInv, NEW e \in Editors, NEW m, m = NoEdit \/ (EditOK(m))',
           m.pc # "log", edit[e].pc # "log", edit' = [edit EXCEPT ![e] = m],
           edits <= edits', CountersOK', used \subseteq used',
           UNCHANGED <<db, history>>
    PROVE  EditInv'
<1>1. edits \in Nat /\ edits' \in Nat /\ UNCHANGED <<trail, commits, unlogged>>
  BY DEF EditInv, CountersOK, history
<1>2. EditRequests'
  BY <1>1, OneEdit DEF EditInv
<1>3. DatabaseOK'
  BY DEF EditInv, DatabaseOK, IdsUsed, Consistent
<1>4. TrailNumbers' /\ TrailTrue'
  BY <1>1 DEF EditInv, TrailNumbers, TrailTrue
<1>5. \A q \in Editors : /\ edit'[q].pc = "log" <=> edit[q].pc = "log"
                         /\ edit[q].pc = "log" => edit'[q] = edit[q]
  BY DEF EditInv, EditRequests
<1>6. {edit[q].n : q \in {d \in Editors : InEdit(d, "log")}}'
        = {edit[q].n : q \in {d \in Editors : InEdit(d, "log")}}
  BY <1>5 DEF InEdit
<1>7. TrailComplete'
  BY <1>1, <1>6 DEF EditInv, TrailComplete
<1>8. QED
  BY <1>2, <1>3, <1>4, <1>7 DEF EditInv

(* A request that is answered without a write. *)
LEMMA AnsweredKeeps ==
    ASSUME EditInv, NEW e \in Editors, edit[e].pc # "log", Answered(e),
           edits' = edits, CountersOK', UNCHANGED <<db, used, history>>
    PROVE  EditInv'
<1>1. NoEdit.pc # "log"
  BY DEF NoEdit
<1>2. edits <= edits'
  BY DEF EditInv, CountersOK
<1>3. QED
  BY <1>1, <1>2, QuietStep DEF Answered

(* A request that begins: each handler with what it is given. *)
LEMMA BeginKeeps ==
    ASSUME EditInv, NEW e \in Editors, NEW pc, NEW op, NEW key \in RowKeys, NEW given,
           Begin(e, pc, op, key, given), used \subseteq used',
           \/ pc \in {"verify", "write"} /\ op = "create" /\ given \in Rows(key) /\ key \in used'
           \/ /\ pc = "verify" /\ op = "configure" /\ given \in Rows(key) /\ key[1] \in Settings
           \/ /\ pc \in {"verify", "read"} /\ op = "delete" /\ given = NoRow
           \/ /\ pc = "read" /\ op = "update" /\ given \in Provided(key)
    PROVE  EditInv'
<1>1. edits \in Nat /\ edits' = edits + 1 /\ CountersOK'
  BY EditsAssumption DEF EditInv, CountersOK, Begin, EditsAssumption
<1>2. PICK m : m = [pc |-> pc, op |-> op, n |-> edits + 1, key |-> key,
                    given |-> given, old |-> NoRow, touched |-> {}]
  OBVIOUS
<1>3. given \in Givens \cup AnyRow
  BY DEF Rows, Provided, AnyRow
<1>4. m \in EditRecord
  BY <1>1, <1>2, <1>3 DEF EditRecord, AnyRow
<1>5. Shape(m)
  BY <1>2 DEF Shape
<1>6. EditOK(m)'
  BY <1>1, <1>2, <1>4, <1>5 DEF EditOK, ReadAgrees
<1>7. edit' = [edit EXCEPT ![e] = m] /\ UNCHANGED <<db, history>> /\ edit[e].pc # "log"
  BY <1>2 DEF Begin, NoEdit
<1>8. m.pc # "log" /\ edits <= edits'
  BY <1>1, <1>2
<1>9. QED
  BY <1>1, <1>6, <1>7, <1>8, QuietStep

(* Every handler begins so. *)
LEMMA StartKeeps ==
    ASSUME EditInv, NEW e \in Editors, StartEdit(e)
    PROVE  EditInv'
<1>1. ASSUME NEW b \in HostIds
      PROVE  HostKey(b) \in RowKeys /\ HostKey(b)[1] = "backends"
  BY DEF RowKeys, HostKey
<1>2. ASSUME NEW c \in OwnerIds
      PROVE  ConfigKey(c) \in RowKeys /\ ConfigKey(c)[1] = "configs"
  BY DEF RowKeys, ConfigKey
<1>3. ASSUME NEW c \in OwnerIds, NEW s \in Settings
      PROVE  <<s, c>> \in RowKeys /\ <<s, c>>[1] = s
  BY DEF RowKeys
<1>4. "health_checks" \in Settings /\ "dns_providers" \in Settings /\ "backends" \notin Settings
  BY DEF Settings
<1>5. ASSUME NEW b \in HostIds, NEW c \in OwnerIds, NEW v \in Values, AddBackend(e, b, c, v)
      PROVE  EditInv'
  <2>1. [config_id |-> c, ip |-> v] \in Rows(HostKey(b))
    BY <1>1 DEF Rows
  <2>2. used \subseteq used' /\ HostKey(b) \in used'
    BY <1>5 DEF AddBackend
  <2>3. QED
    BY <1>1, <1>5, <2>1, <2>2, BeginKeeps DEF AddBackend
<1>6. ASSUME NEW b \in HostIds, NEW given \in Givens, UpdateBackend(e, b, given)
      PROVE  EditInv'
  BY <1>1, <1>6, BeginKeeps DEF UpdateBackend, Provided
<1>7. ASSUME NEW b \in HostIds, DeleteBackend(e, b)
      PROVE  EditInv'
  BY <1>1, <1>7, BeginKeeps DEF DeleteBackend
<1>8. ASSUME NEW c \in OwnerIds, NEW v \in Values, UpdateConfig(e, c, v)
      PROVE  EditInv'
  <2>1. [value |-> v] \in Provided(ConfigKey(c))
    BY <1>2 DEF Provided
  <2>2. QED
    BY <1>2, <1>8, <2>1, BeginKeeps DEF UpdateConfig
<1>9. ASSUME NEW c \in OwnerIds, RemoveConfig(e, c)
      PROVE  EditInv'
  BY <1>2, <1>9, BeginKeeps DEF RemoveConfig
<1>10. ASSUME NEW c \in OwnerIds, NEW v \in Values,
              ConfigureHealthCheck(e, c, v) \/ ConfigureDNSProvider(e, c, v)
       PROVE  EditInv'
  <2>1. ASSUME NEW s \in Settings
        PROVE  [value |-> v] \in Rows(<<s, c>>)
    BY <1>3, <1>4 DEF Rows
  <2>2. QED
    BY <1>3, <1>4, <1>10, <2>1, BeginKeeps DEF ConfigureHealthCheck, ConfigureDNSProvider
<1>11. ASSUME NEW c \in OwnerIds, DeleteHealthCheck(e, c) \/ DeleteDNSProvider(e, c)
       PROVE  EditInv'
  BY <1>3, <1>4, <1>11, BeginKeeps DEF DeleteHealthCheck, DeleteDNSProvider
<1>12. ASSUME NEW c \in OwnerIds, NEW v \in Values, AddConfig(e, c, v)
       PROVE  EditInv'
  <2>1. [value |-> v] \in Rows(ConfigKey(c))
    BY <1>2 DEF Rows
  <2>2. used \subseteq used' /\ ConfigKey(c) \in used'
    BY <1>12 DEF AddConfig
  <2>3. QED
    BY <1>2, <1>12, <2>1, <2>2, BeginKeeps DEF AddConfig
<1>13. QED
  BY <1>5, <1>6, <1>7, <1>8, <1>9, <1>10, <1>11, <1>12 DEF StartEdit

(* The calls before the write, and a call that fails. *)
LEMMA ReadsKeep ==
    ASSUME EditInv, NEW e \in Editors,
           VerifyConfig(e) \/ LookupSetting(e) \/ LookupFails(e) \/ ReadRow(e) \/ handleStoreError(e)
    PROVE  EditInv'
<1>1. PICK r : r = edit[e]
  OBVIOUS
<1>2. r.pc \in {"verify", "lookup", "read", "write"}
  BY <1>1 DEF VerifyConfig, LookupSetting, LookupFails, ReadRow, handleStoreError, InEdit
<1>3. edit[e].pc # "idle" /\ edit[e].pc # "log" /\ EditRequests
  BY <1>1, <1>2 DEF EditInv
<1>4. EditOK(r) /\ r \in EditRecord
  BY <1>1, <1>3, NotIdle
<1>5. CountersOK' /\ edits' = edits /\ edits \in Nat /\ UNCHANGED <<db, used, history>>
  BY EditsAssumption DEF EditInv, CountersOK, EditsAssumption, VerifyConfig, LookupSetting,
     LookupFails, ReadRow, handleStoreError
<1>6. CASE Answered(e)
  BY <1>3, <1>5, <1>6, AnsweredKeeps
<1>7. ASSUME NEW m, EditOK(m), m.pc # "log", edit' = [edit EXCEPT ![e] = m]
      PROVE  EditInv'
  <2>1. commits' = commits
    BY <1>5 DEF history
  <2>2. edits <= edits' /\ edits' \in Nat
    BY <1>5
  <2>3. EditOK(m)'
    BY <1>5, <1>7, <2>1, <2>2, EditOKKept
  <2>4. QED
    BY <1>3, <1>5, <1>7, <2>2, <2>3, QuietStep
<1>8. CASE VerifyConfig(e) /\ ~Answered(e)
  <2>1. PICK pc : pc = CASE r.op = "create" -> "write"
                         [] r.op = "delete" -> "read"
                         [] OTHER -> "lookup"
    OBVIOUS
  <2>2. PICK m : m = [r EXCEPT !.pc = pc]
    OBVIOUS
  <2>3. edit' = [edit EXCEPT ![e] = m] /\ r.pc = "verify"
    BY <1>1, <1>8, <2>1, <2>2 DEF VerifyConfig, InEdit
  <2>4. Shape(r) /\ r.op # "update" /\ r.op \in {"create", "delete", "configure"}
    BY <1>4, <2>3 DEF EditOK, Shape, EditRecord
  <2>5. /\ r.op = "create" => pc = "write"
        /\ r.op = "delete" => pc = "read"
        /\ r.op = "configure" => pc = "lookup"
    BY <2>1
  <2>6. /\ m \in EditRecord /\ m.pc = pc /\ m.op = r.op /\ m.n = r.n /\ m.key = r.key
        /\ m.given = r.given /\ m.old = r.old
    BY <1>4, <2>2, <2>4, <2>5 DEF EditRecord
  <2>7. Shape(m)
    BY <2>4, <2>5, <2>6 DEF Shape
  <2>8. EditOK(m) /\ m.pc # "log"
    BY <1>4, <2>4, <2>5, <2>6, <2>7 DEF EditOK, ReadAgrees
  <2>9. QED
    BY <1>7, <2>3, <2>8
<1>9. CASE LookupFails(e)
  <2>1. PICK m : m = [r EXCEPT !.pc = "write", !.op = "create"]
    OBVIOUS
  <2>2. edit' = [edit EXCEPT ![e] = m] /\ r.pc = "lookup"
    BY <1>1, <1>9, <2>1 DEF LookupFails, InEdit
  <2>3. /\ m \in EditRecord /\ m.pc = "write" /\ m.op = "create" /\ m.n = r.n /\ m.key = r.key
        /\ m.given = r.given /\ m.old = r.old
    BY <1>4, <2>1 DEF EditRecord
  <2>4. Shape(m) /\ m.key[1] \in Settings
    BY <1>4, <2>2, <2>3 DEF EditOK, Shape, Settings
  <2>5. EditOK(m)
    BY <1>4, <2>3, <2>4 DEF EditOK, ReadAgrees
  <2>6. QED
    BY <1>7, <2>2, <2>3, <2>5
<1>10. CASE LookupSetting(e)
  <2>1. PICK op, row : /\ op = IF r.key \in DOMAIN db THEN "update" ELSE "create"
                       /\ row = IF r.key \in DOMAIN db THEN db[r.key] ELSE NoRow
    OBVIOUS
  <2>2. PICK m : m = [r EXCEPT !.pc = "write", !.op = op, !.old = row]
    OBVIOUS
  <2>3. edit' = [edit EXCEPT ![e] = m] /\ r.pc = "lookup"
    BY <1>1, <1>10, <2>1, <2>2 DEF LookupSetting, InEdit
  <2>4. r.op = "configure" /\ r.given \in Rows(r.key) /\ r.old = NoRow /\ r.key[1] \in Settings
    BY <1>4, <2>3 DEF EditOK, Shape
  <2>5. r.key[1] # "backends" /\ r.given \in Provided(r.key)
    BY <2>4 DEF Settings, Rows, Provided
  <2>6. row \in AnyRow /\ (op = "update" => row \in Rows(r.key)) /\ (op = "create" => row = NoRow)
    BY <2>1, <2>5 DEF EditInv, DatabaseOK, Consistent, Rows, AnyRow
  <2>7. /\ m \in EditRecord /\ m.pc = "write" /\ m.op = op /\ m.n = r.n /\ m.key = r.key
        /\ m.given = r.given /\ m.old = row
    BY <1>4, <2>1, <2>2, <2>6 DEF EditRecord
  <2>8. Shape(m)
    BY <2>1, <2>4, <2>5, <2>6, <2>7 DEF Shape
  <2>9. ReadAgrees(m)
    BY <2>1, <2>7 DEF ReadAgrees, RowOf, Agree
  <2>10. EditOK(m)
    BY <1>4, <2>4, <2>7, <2>8, <2>9 DEF EditOK
  <2>11. QED
    BY <1>7, <2>3, <2>7, <2>10
<1>11. CASE ReadRow(e) /\ ~Answered(e)
  <2>1. PICK row : row = db[r.key]
    OBVIOUS
  <2>2. PICK m : m = [r EXCEPT !.pc = "write", !.old = row]
    OBVIOUS
  <2>3. edit' = [edit EXCEPT ![e] = m] /\ r.pc = "read" /\ r.key \in DOMAIN db
    BY <1>1, <1>11, <2>1, <2>2 DEF ReadRow, InEdit
  <2>4. row \in Rows(r.key)
    BY <2>1, <2>3 DEF EditInv, DatabaseOK, Consistent
  <2>5. row \in AnyRow
    BY <2>4 DEF Rows, AnyRow
  <2>6. /\ m \in EditRecord /\ m.pc = "write" /\ m.op = r.op /\ m.n = r.n /\ m.key = r.key
        /\ m.given = r.given /\ m.old = row
    BY <1>4, <2>2, <2>5 DEF EditRecord
  <2>7. Shape(m) /\ m.op \in {"update", "delete"}
    BY <1>4, <2>3, <2>4, <2>6 DEF EditOK, Shape
  <2>8. ReadAgrees(m)
    BY <2>1, <2>3, <2>6 DEF ReadAgrees, RowOf, Agree
  <2>9. EditOK(m)
    BY <1>4, <2>6, <2>7, <2>8 DEF EditOK
  <2>10. QED
    BY <1>7, <2>3, <2>6, <2>9
<1>12. QED
  BY <1>6, <1>8, <1>9, <1>10, <1>11 DEF handleStoreError
-----------------------------------------------------------------------------
(* The write: what it changes, for the tables, the request, the others that *)
(* have read and the history of writes.                                     *)
LEMMA WriteKeeps ==
    ASSUME EditInv, NEW e \in Editors, WriteRow(e)
    PROVE  EditInv'
<1>1. PICK r : r = edit[e]
  OBVIOUS
<1>2. r.pc = "write" /\ EditRequests /\ edit[e].pc # "idle"
  BY <1>1 DEF WriteRow, InEdit, EditInv
<1>3. EditOK(r) /\ r \in EditRecord
  BY <1>1, <1>2, NotIdle
<1>4. UNCHANGED <<used, edits, editErrors, trail, unlogged>> /\ CountersOK'
  BY DEF WriteRow, EditInv, CountersOK
<1>5. CASE ~Accepted(r)
  <2>1. Answered(e) /\ UNCHANGED <<db, used, history>> /\ edits' = edits
    BY <1>1, <1>4, <1>5 DEF WriteRow, history
  <2>2. QED
    BY <1>1, <1>2, <1>4, <2>1, AnsweredKeeps
<1>6. CASE Accepted(r)
  <2>1. PICK m : m = [r EXCEPT !.pc = "log"]
    OBVIOUS
  <2>2. PICK w : w = [n |-> r.n, key |-> r.key, before |-> RowOf(db, r.key),
                      after |-> Row(r), touched |-> r.touched]
    OBVIOUS
  <2>3. /\ db' = Written(r)
        /\ edit' = [q \in Editors |-> IF q = e THEN m ELSE Touch(e, q, Written(r))]
        /\ commits' = commits \cup {w}
    BY <1>1, <1>6, <2>1, <2>2 DEF WriteRow
  <2>4. DatabaseOK'
    <3>1. PICK t : t = Written(r)
      OBVIOUS
    <3>2. /\ DOMAIN t \subseteq RowKeys
          /\ Consistent(t)
          /\ \A k \in DOMAIN t : k[1] \notin Settings => k \in used
      BY <1>2, <1>3, <1>6, <3>1, WriteKeepsTables DEF EditInv
    <3>3. QED
      BY <1>4, <2>3, <3>1, <3>2 DEF DatabaseOK, IdsUsed, Consistent
  <2>5. /\ m \in EditRecord /\ m.pc = "log" /\ m.op = r.op /\ m.n = r.n /\ m.key = r.key
        /\ m.given = r.given /\ m.old = r.old /\ m.touched = r.touched
    BY <1>3, <2>1 DEF EditRecord
  <2>6. Row(m) = Row(r)
    BY <2>5 DEF Row
  <2>7. \A f \in Audited \ w.touched : Agree(r.old, w.before, f)
    <3>1. w.before = RowOf(db, r.key) /\ w.touched = r.touched
      BY <2>2
    <3>2. CASE r.op = "create"
      <4>1. r.old = NoRow /\ RowOf(db, r.key) = NoRow
        BY <1>3, <1>6, <3>2 DEF EditOK, Shape, Accepted, RowOf
      <4>2. QED
        BY <3>1, <4>1 DEF Agree
    <3>3. CASE r.op # "create"
      <4>1. r.op \in {"update", "delete"}
        BY <1>2, <1>3, <3>3 DEF EditOK, Shape, EditRecord
      <4>2. \A f \in Columns \ r.touched : Agree(r.old, RowOf(db, r.key), f)
        BY <1>2, <1>3, <4>1 DEF EditOK, ReadAgrees
      <4>3. QED
        BY <3>1, <4>2 DEF Audited
    <3>4. QED
      BY <3>2, <3>3
  <2>8. Committed(m)'
    <3>1. w \in commits' /\ w.n = m.n /\ w.key = m.key /\ w.after = Row(m)
      BY <2>2, <2>3, <2>5, <2>6
    <3>2. \A f \in Audited \ w.touched : Agree(m.old, w.before, f)
      BY <2>5, <2>7
    <3>3. QED
      BY <3>1, <3>2 DEF Committed
  <2>9. Shape(m)
    BY <1>2, <1>3, <2>5 DEF EditOK, Shape
  <2>10. EditOK(m)'
    BY <1>3, <1>4, <2>5, <2>8, <2>9 DEF EditOK, ReadAgrees
  <2>11. ASSUME NEW q \in Editors, q # e
         PROVE  /\ edit'[q] \in EditRecord \cup {NoEdit}
                /\ edit'[q] # NoEdit => EditOK(edit[q])'
                /\ edit'[q].pc = edit[q].pc
                /\ edit[q].pc = "log" => edit'[q].n = edit[q].n
    <3>1. PICK s : s = Touch(e, q, db')
      OBVIOUS
    <3>2. edit'[q] = s
      BY <2>3, <2>11, <3>1
    <3>3. CASE edit[q] = NoEdit
      <4>1. s = NoEdit
        BY <3>1, <3>3 DEF Touch, NoEdit
      <4>2. QED
        BY <3>2, <3>3, <4>1 DEF NoEdit
    <3>4. CASE edit[q] # NoEdit
      <4>1. EditOK(edit[q])
        BY <1>2, <3>4 DEF EditRequests
      <4>2. EditOK(s)' /\ s.pc = edit[q].pc /\ s.n = edit[q].n
        BY <1>4, <2>3, <2>11, <3>1, <4>1, TouchKeeps
      <4>3. s \in EditRecord
        BY <4>2 DEF EditOK
      <4>4. QED
        BY <3>2, <4>2, <4>3 DEF EditOK, ReadAgrees, Committed
    <3>5. QED
      BY <3>3, <3>4
  <2>12. edit'[e] = m
    BY <2>3
  <2>13. EditOK(edit[e])'
    BY <2>10, <2>12 DEF EditOK, ReadAgrees, Committed
  <2>14. EditRequests'
    <3>1. edit' \in [Editors -> EditRecord \cup {NoEdit}]
      BY <2>3, <2>5, <2>11, <2>12
    <3>2. ASSUME NEW q \in Editors, edit'[q] # NoEdit
          PROVE  EditOK(edit[q])'
      <4>1. CASE q = e
        BY <2>13, <4>1
      <4>2. CASE q # e
        BY <2>11, <3>2, <4>2
      <4>3. QED
        BY <4>1, <4>2
    <3>3. QED
      BY <3>1, <3>2 DEF EditRequests
  <2>15. TrailNumbers' /\ TrailTrue'
    BY <1>4, <2>3 DEF EditInv, TrailNumbers, TrailTrue
  <2>16. TrailComplete'
    <3>1. {edit[q].n : q \in {d \in Editors : InEdit(d, "log")}}'
            = {edit[q].n : q \in {d \in Editors : InEdit(d, "log")}} \cup {r.n}
      BY <1>1, <1>2, <2>5, <2>11, <2>12 DEF InEdit
    <3>2. {c.n : c \in commits}' = {c.n : c \in commits} \cup {r.n}
      BY <2>2, <2>3
    <3>3. QED
      BY <1>4, <3>1, <3>2 DEF EditInv, TrailComplete
  <2>17. QED
    BY <1>4, <2>4, <2>14, <2>15, <2>16 DEF EditInv
<1>7. QED
  BY <1>5, <1>6

(* The line of the log, or the failure to write it. *)
LEMMA LogKeeps ==
    ASSUME EditInv, NEW e \in Editors, logAudit(e) \/ logAuditFails(e)
    PROVE  EditInv'
<1>1. PICK r : r = edit[e]
  OBVIOUS
<1>2. r.pc = "log" /\ EditRequests /\ edit[e].pc # "idle"
  BY <1>1 DEF logAudit, logAuditFails, InEdit, EditInv
<1>3. EditOK(r) /\ r \in EditRecord /\ Committed(r) /\ r.n \in 1 .. edits
  BY <1>1, <1>2, NotIdle DEF EditOK
<1>4. /\ UNCHANGED <<db, used, edits, commits>>
      /\ Answered(e)
      /\ CountersOK'
  BY EditsAssumption DEF logAudit, logAuditFails, EditInv, CountersOK, EditsAssumption
<1>5. DatabaseOK'
  BY <1>4 DEF EditInv, DatabaseOK, IdsUsed, Consistent
<1>6. EditRequests'
  <2>1. edits' \in Nat /\ edits <= edits'
    BY <1>4 DEF EditInv, CountersOK
  <2>2. QED
    BY <1>2, <1>4, <2>1, OneEdit DEF EditInv, Answered
<1>7. \A q \in Editors : /\ edit'[q].pc = "log" <=> edit[q].pc = "log" /\ q # e
                         /\ edit'[q].pc = "log" => edit'[q] = edit[q]
  BY <1>2, <1>4 DEF Answered, EditRequests, NoEdit
<1>8. {edit[q].n : q \in {d \in Editors : InEdit(d, "log")}}
        = {edit[q].n : q \in {d \in Editors : InEdit(d, "log")}}' \cup {r.n}
  BY <1>1, <1>2, <1>7 DEF InEdit
<1>9. CASE logAuditFails(e)
  <2>1. unlogged' = unlogged \cup {r.n} /\ trail' = trail
    BY <1>1, <1>9 DEF logAuditFails
  <2>2. TrailNumbers' /\ TrailTrue'
    BY <1>3, <1>4, <2>1 DEF EditInv, TrailNumbers, TrailTrue
  <2>3. TrailComplete'
    BY <1>4, <1>8, <2>1 DEF EditInv, TrailComplete
  <2>4. QED
    BY <1>4, <1>5, <1>6, <2>2, <2>3 DEF EditInv
<1>10. CASE logAudit(e)
  <2>1. PICK l : l = [n |-> r.n, key |-> r.key, details |-> Details(r.old, Row(r))]
    OBVIOUS
  <2>2. trail' = trail \cup {l} /\ unlogged' = unlogged
    BY <1>1, <1>10, <2>1 DEF logAudit, CreateAuditLog
  <2>3. TrailNumbers'
    BY <1>3, <1>4, <2>1, <2>2 DEF EditInv, TrailNumbers
  <2>4. TrailTrue'
    <3>1. PICK w \in commits :
             /\ w.n = r.n /\ w.key = r.key /\ w.after = Row(r)
             /\ \A f \in Audited \ w.touched : Agree(r.old, w.before, f)
      BY <1>3 DEF Committed
    <3>2. ASSUME NEW f \in Audited \ w.touched
          PROVE  {d \in l.details : d.field = f} = {d \in Details(w.before, w.after) : d.field = f}
      <4>1. l.details = Details(r.old, w.after)
        BY <2>1, <3>1
      <4>2. QED
        BY <3>1, <4>1, DetailsAgree
    <3>3. l.n = w.n /\ l.key = w.key
      BY <2>1, <3>1
    <3>4. QED
      BY <1>4, <2>2, <3>2, <3>3 DEF EditInv, TrailTrue
  <2>5. TrailComplete'
    <3>1. {t.n : t \in trail}' = {t.n : t \in trail} \cup {r.n}
      BY <2>1, <2>2
    <3>2. QED
      BY <1>4, <1>8, <2>2, <3>1 DEF EditInv, TrailComplete
  <2>6. QED
    BY <1>4, <1>5, <1>6, <2>3, <2>4, <2>5 DEF EditInv
<1>11. QED
  BY <1>9, <1>10
-----------------------------------------------------------------------------
(* The invariant holds of any consistent database at the start. *)
LEMMA EditInvInit == EditInit => EditInv
<1> SUFFICES ASSUME EditInit PROVE EditInv
  OBVIOUS
<1>1. DOMAIN db \subseteq RowKeys /\ Consistent(db) /\ CountersOK
  BY EditsAssumption DEF EditInit, EditsAssumption, CountersOK
<1>2. IdsUsed
  BY DEF EditInit, IdsUsed
<1>3. EditRequests
  BY DEF EditInit, EditRequests
<1>4. TrailNumbers /\ TrailTrue
  BY DEF EditInit, TrailNumbers, TrailTrue
<1>5. TrailComplete
  BY DEF EditInit, TrailComplete, InEdit, NoEdit
<1>6. QED
  BY <1>1, <1>2, <1>3, <1>4, <1>5 DEF EditInv, DatabaseOK

(* Every step of any request keeps it. *)
LEMMA EditInvNext ==
    ASSUME EditInv, [EditNext]_editVars
    PROVE  EditInv'
<1>1. CASE EditNext
  BY <1>1, StartKeeps, ReadsKeep, WriteKeeps, LogKeeps DEF EditNext, EditStep
<1>2. CASE UNCHANGED editVars
  <2>1. UNCHANGED <<db, used, edit, edits, editErrors, trail, commits, unlogged>>
    BY <1>2 DEF editVars
  <2>2. DatabaseOK' /\ CountersOK' /\ TrailNumbers'
    BY <2>1 DEF EditInv, DatabaseOK, CountersOK, TrailNumbers, IdsUsed, Consistent
  <2>3. EditRequests'
    <3>1. ASSUME NEW q \in Editors, edit[q] # NoEdit
          PROVE  EditOK(edit[q])'
      <4>1. EditOK(edit[q])
        BY <3>1 DEF EditInv, EditRequests
      <4>2. QED
        BY <2>1, <4>1 DEF EditOK, ReadAgrees, Committed, RowOf
    <3>2. QED
      BY <2>1, <3>1 DEF EditInv, EditRequests
  <2>4. TrailTrue' /\ TrailComplete'
    <3>1. TrailTrue'
      BY <2>1 DEF EditInv, TrailTrue
    <3>2. {edit[q].n : q \in {d \in Editors : InEdit(d, "log")}}'
            = {edit[q].n : q \in {d \in Editors : InEdit(d, "log")}}
      BY <2>1 DEF InEdit
    <3>3. QED
      BY <2>1, <3>1, <3>2 DEF EditInv, TrailComplete
  <2>5. QED
    BY <2>2, <2>3, <2>4 DEF EditInv
<1>3. QED
  BY <1>1, <1>2

(* The write of an update leaves the columns alone that it was not given    *)
(* and that nobody touched since it read the row.                           *)
LEMMA UpdateStep ==
    ASSUME EditInv, [EditNext]_editVars, NEW e \in Editors,
           InEdit(e, "write"), edit[e].op = "update", edit'[e].pc = "log",
           NEW f \in DOMAIN db[edit[e].key] \ (DOMAIN edit[e].given \cup edit[e].touched)
    PROVE  db'[edit[e].key][f] = db[edit[e].key][f]
<1>1. PICK r : r = edit[e]
  OBVIOUS
<1>2. r.pc = "write" /\ EditRequests /\ edit[e].pc # "idle"
  BY <1>1 DEF InEdit, EditInv
<1>3. EditOK(r) /\ r \in EditRecord /\ Shape(r)
  BY <1>1, <1>2, NotIdle DEF EditOK
<1>4. ASSUME NEW q \in Editors, q # e, StartEdit(q) \/ EditStep(q)
      PROVE  edit'[e].pc = edit[e].pc
  <2>1. CASE \E m : edit' = [edit EXCEPT ![q] = m]
    BY <1>2, <1>4, <2>1 DEF EditRequests
  <2>2. ASSUME NEW pc, NEW op, NEW key, NEW given, Begin(q, pc, op, key, given)
        PROVE  \E m : edit' = [edit EXCEPT ![q] = m]
    BY <2>2 DEF Begin
  <2>3. CASE StartEdit(q)
    BY <2>1, <2>2, <2>3 DEF StartEdit, AddBackend, UpdateBackend, DeleteBackend, AddConfig,
       UpdateConfig, RemoveConfig, ConfigureHealthCheck, ConfigureDNSProvider, DeleteHealthCheck, DeleteDNSProvider
  <2>4. CASE Answered(q)
    BY <2>1, <2>4 DEF Answered
  <2>5. CASE VerifyConfig(q) \/ LookupSetting(q) \/ LookupFails(q) \/ ReadRow(q)
    BY <1>2, <1>4, <2>4, <2>5 DEF VerifyConfig, LookupSetting, LookupFails, ReadRow, EditRequests
  <2>6. CASE logAudit(q) \/ logAuditFails(q) \/ handleStoreError(q)
    BY <2>4, <2>6 DEF logAudit, logAuditFails, handleStoreError
  <2>7. CASE WriteRow(q)
    <3>1. Answered(q) \/ edit'[e] = Touch(q, e, Written(edit[q]))
      BY <1>4, <2>7 DEF WriteRow
    <3>2. Touch(q, e, Written(edit[q])).pc = edit[e].pc
      BY <1>1, <1>3 DEF Touch, EditRecord
    <3>3. QED
      BY <2>4, <3>1, <3>2
  <2>8. QED
    BY <1>4, <2>3, <2>5, <2>6, <2>7 DEF EditStep
<1>5. StartEdit(e) \/ EditStep(e)
  <2>1. ~UNCHANGED editVars
    BY <1>1, <1>2 DEF editVars
  <2>2. PICK q \in Editors : StartEdit(q) \/ EditStep(q)
    BY <2>1 DEF EditNext
  <2>3. QED
    BY <1>1, <1>2, <1>4, <2>2
<1>6. ~StartEdit(e)
  BY <1>1, <1>2 DEF StartEdit, AddBackend, UpdateBackend, DeleteBackend, AddConfig, UpdateConfig, RemoveConfig,
     ConfigureHealthCheck, ConfigureDNSProvider, DeleteHealthCheck, DeleteDNSProvider, Begin, NoEdit
<1>7. ~Answered(e)
  BY <1>2 DEF Answered, EditRequests, NoEdit
<1>8. WriteRow(e) /\ Accepted(r) /\ db' = Written(r)
  <2>1. WriteRow(e)
    BY <1>1, <1>2, <1>5, <1>6, <1>7 DEF EditStep, VerifyConfig, LookupSetting, LookupFails, ReadRow,
       logAudit, logAuditFails, handleStoreError, InEdit
  <2>2. QED
    BY <1>1, <1>7, <2>1 DEF WriteRow
<1>9. db'[r.key] = Merge(r.given, r.old) /\ r.key \in DOMAIN db
  BY <1>1, <1>8 DEF Written, Row, Accepted
<1>10. db[r.key] \in Rows(r.key)
  BY <1>9 DEF EditInv, DatabaseOK, Consistent
<1>11. f \in Columns
  BY <1>1, <1>10 DEF Rows, Columns
<1>12. Agree(r.old, db[r.key], f)
  BY <1>1, <1>2, <1>3, <1>9, <1>11 DEF EditOK, ReadAgrees, RowOf
<1>13. f \in DOMAIN r.old \ DOMAIN r.given /\ r.old[f] = db[r.key][f]
  BY <1>1, <1>12 DEF Agree
<1>14. Merge(r.given, r.old)[f] = r.old[f]
  BY <1>13 DEF Merge, Over
<1>15. QED
  BY <1>1, <1>9, <1>13, <1>14

(* Tables, requests and log keep their types, and the foreign keys hold     *)
(* between any two store calls, whatever the order of checks and deletes.   *)
THEOREM EditTypeCorrect == EditSpec => []EditTypeOK
<1>1. EditInv => EditTypeOK
  BY EditInvType
<1>2. QED
  BY <1>1, EditInvInit, EditInvNext, PTL DEF EditSpec

(* Every line of the audit log tells the truth about a write that took      *)
(* place, but for columns others changed between the read and the write.    *)
THEOREM AuditTrailIsTrue == EditSpec => []TrailTrue
<1>1. EditInv => TrailTrue
  BY DEF EditInv
<1>2. QED
  BY <1>1, EditInvInit, EditInvNext, PTL DEF EditSpec

(* Of the handlers of configurations, backends, health checks and DNS       *)
(* providers: every write to one of these tables is in the audit log, is    *)
(* about to be or failed to be logged, and nothing else is there.           *)
THEOREM AuditTrailIsComplete == EditSpec => []TrailComplete
<1>1. EditInv => TrailComplete
  BY DEF EditInv
<1>2. QED
  BY <1>1, EditInvInit, EditInvNext, PTL DEF EditSpec

(* A successful update changes a column it was not given only by writing    *)
(* back what it had read over what another request wrote there since.       *)
THEOREM UpdatesOnlyProvidedFields == EditSpec => OnlyProvidedFields
<1>1. ASSUME EditInv, [EditNext]_editVars
      PROVE  [\A e \in Editors :
                LET r == edit[e]
                IN  InEdit(e, "write") /\ r.op = "update" /\ edit'[e].pc = "log" =>
                       \A f \in DOMAIN db[r.key] \ (DOMAIN r.given \cup r.touched) :
                           db'[r.key][f] = db[r.key][f]]_editVars
  BY <1>1, UpdateStep
<1>2. QED
  BY <1>1, EditInvInit, EditInvNext, PTL DEF EditSpec, OnlyProvidedFields
=============================================================================

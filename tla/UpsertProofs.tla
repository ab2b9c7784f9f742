---------------------------- MODULE UpsertProofs ----------------------------
(***************************************************************************)
(* Theorems about what an update leaves in the zone: UndisturbedUpsertExact*)
(* for any number of overlapping passes, faults and restarts, then         *)
(* WeightedOneRecord when the loop is the only pass, CacheTruth,           *)
(* SuppressedOnlyWhenActive and NXDOMAINWhenNoneHealthy when, besides, no  *)
(* update is left half done, and StaysInStep, again without conditions.    *)
(***************************************************************************)
EXTENDS ReconcilerProofs

(***************************************************************************)
(* What the zone holds while p, undisturbed, is in the middle of           *)
(* UpsertRecord.  The loops of UpsertRecord work on what was listed        *)
(* (found); the invariant ties the zone to it by how far they have come:   *)
(* del are the records still to be deleted, an address of which left is    *)
(* less than want has been visited.                                        *)
(***************************************************************************)
Pruning(p) ==
    LET l == pass[p]
    IN  /\ l.left = l.want
        /\ l.del \cap Set(l.want) = {}
        /\ \A ip \in IPs :
              dns[place(l)][ip] = IF ip \in Set(l.want) \cup l.del THEN l.found[ip] ELSE 0

Applying(p) ==
    LET l == pass[p]
    IN  \A ip \in IPs :
           /\ l.left[ip] <= l.want[ip]
           /\ dns[place(l)][ip] =
                 IF ip \notin Set(l.want) THEN 0
                 ELSE IF l.left[ip] = l.want[ip] THEN l.found[ip] ELSE l.cfg.ttl

Applied(p) ==
    LET l == pass[p]
    IN  \A ip \in IPs :
           dns[place(l)][ip] = IF ip \in Set(l.want) THEN l.cfg.ttl ELSE 0

MidUpsert(p) ==
    /\ pc[p] = "prune" => Pruning(p)
    /\ pc[p] = "apply" => Applying(p)
    /\ pc[p] = "record" /\ Set(pass[p].want) # {} => Applied(p)

UpsertInv ==
    /\ \A p \in Passes : pc[p] \in {"dlist", "erase"} => Set(pass[p].want) = {}
    /\ \A p \in undisturbed : MidUpsert(p)

-----------------------------------------------------------------------------
(* A pass is not affected by steps that leave it and its records alone. *)
LEMMA MidUpsertStable ==
    ASSUME NEW p, MidUpsert(p), pc'[p] = pc[p], pass'[p] = pass[p],
           dns'[place(pass[p])] = dns[place(pass[p])]
    PROVE  MidUpsert(p)'
BY DEF MidUpsert, Pruning, Applying, Applied, Set

(* ... nor by a pass that has not listed its records. *)
LEMMA MidUpsertElsewhere ==
    ASSUME NEW p, pc'[p] \notin {"prune", "apply", "record"}
    PROVE  MidUpsert(p)'
BY DEF MidUpsert

(* A step of q leaves the others alone, or disturbs them. *)
LEMMA OtherPasses ==
    ASSUME TypeOK, UpsertInv, NEW q \in Passes, NEW l, NEW v, Goto(q, l, v),
           \/ UNCHANGED dns /\ undisturbed' \subseteq undisturbed \cup {q}
           \/ \E ip \in IPs, ttl \in TTLs \cup {0} : Write(q, place(pass[q]), ip, ttl)
    PROVE  \A p \in undisturbed' \ {q} : MidUpsert(p)'
<1>0. /\ dns \in [Places -> [IPs -> TTLs \cup {0}]] /\ undisturbed \subseteq Passes
      /\ pc \in [Passes -> PCs] /\ pass \in [Passes -> PassType]
  BY DEF TypeOK, RecTypeOK
<1> SUFFICES ASSUME NEW p \in undisturbed' \ {q} PROVE MidUpsert(p)'
  OBVIOUS
<1>1. p \in undisturbed
  BY DEF Write
<1>2. pc'[p] = pc[p] /\ pass'[p] = pass[p]
  BY <1>0, <1>1 DEF Goto
<1>3. dns'[place(pass[p])] = dns[place(pass[p])]
  <2>1. place(pass[p]) \in Places
    BY <1>0, <1>1, PlaceType
  <2>2. CASE \E ip \in IPs, ttl \in TTLs \cup {0} : Write(q, place(pass[q]), ip, ttl)
    BY <1>0, <2>1, <2>2 DEF Write
  <2>3. QED
    BY <2>2
<1>4. MidUpsert(p)
  BY <1>1 DEF UpsertInv
<1>5. QED
  BY <1>2, <1>3, <1>4, MidUpsertStable

(* The first conjunct of UpsertInv after a step of q. *)
LEMMA OtherErasers ==
    ASSUME TypeOK, UpsertInv, NEW q \in Passes, NEW l, NEW v, Goto(q, l, v),
           l \in {"dlist", "erase"} => Set(v.want) = {}
    PROVE  \A p \in Passes : pc'[p] \in {"dlist", "erase"} => Set(pass'[p].want) = {}
<1>0. DOMAIN pc = Passes /\ DOMAIN pass = Passes
  BY DEF TypeOK, RecTypeOK
<1>1. QED
  BY <1>0 DEF UpsertInv, Goto

-----------------------------------------------------------------------------
(* No pass has listed anything at first. *)
LEMMA UpsertInvInit == Init => UpsertInv
BY DEF Init, RecInit, UpsertInv

(* Steps before the listing: the pass is not undisturbed, and nothing is    *)
(* written.                                                                 *)
LEMMA ReadStepsUpsert ==
    ASSUME TypeOK, UpsertInv, NEW q \in Passes,
           GetConfig(q) \/ ReadBackends(q) \/ ReadStates(q) \/ Decide(q) \/ Resolve(q)
    PROVE  UpsertInv'
<1>1. UNCHANGED <<dns, undisturbed>>
  BY DEF GetConfig, ReadBackends, ReadStates, Decide, Resolve
<1>2. PICK l, v : /\ Goto(q, l, v)
                  /\ l \notin {"prune", "apply", "record", "erase"}
                  /\ l = "dlist" => Set(v.want) = {}
  <2>1. CASE GetConfig(q)
    BY <2>1 DEF GetConfig
  <2>2. CASE ReadBackends(q)
    BY <2>2 DEF ReadBackends
  <2>3. CASE ReadStates(q)
    BY <2>3 DEF ReadStates
  <2>4. CASE Decide(q)
    BY <2>4 DEF Decide
  <2>5. CASE Resolve(q)
    <3>1. \A z : [pass[q] EXCEPT !.zone = z].want = pass[q].want
      BY DEF TypeOK, RecTypeOK, PassType
    <3>2. PICK z : \/ /\ Goto(q, IF Set(pass[q].want) = {} THEN "dlist" ELSE "list",
                             [pass[q] EXCEPT !.zone = z])
                  \/ Goto(q, "finish", pass[q])
      BY <2>5 DEF Resolve, UpdateWith
    <3> DEFINE v == [pass[q] EXCEPT !.zone = z]
    <3>3. /\ v.want = pass[q].want
          /\ \/ Goto(q, IF Set(pass[q].want) = {} THEN "dlist" ELSE "list", v)
             \/ Goto(q, "finish", pass[q])
      BY <3>1, <3>2
    <3> HIDE DEF v
    <3>4. QED
      BY <3>3 DEF Set
  <2>6. QED
    BY <2>1, <2>2, <2>3, <2>4, <2>5
<1>3. pc'[q] = l
  BY <1>2 DEF Goto, TypeOK, RecTypeOK
<1>4. MidUpsert(q)'
  BY <1>2, <1>3, MidUpsertElsewhere
<1>5. \A p \in undisturbed' \ {q} : MidUpsert(p)'
  BY <1>1, <1>2, OtherPasses
<1>6. QED
  BY <1>2, <1>4, <1>5, OtherErasers DEF UpsertInv

(* The listing establishes the invariant of the pass that listed. *)
LEMMA UpsertListUpsert ==
    ASSUME TypeOK, UpsertInv, NEW q \in Passes, UpsertList(q)
    PROVE  UpsertInv'
<1> DEFINE l == pass[q]
           n == place(l)
           del == Published(n) \ Set(l.want)
           v == [l EXCEPT !.found = dns[n], !.del = del, !.left = l.want]
<1>0. /\ l \in PassType /\ n \in Places /\ dns[n] \in [IPs -> TTLs \cup {0}]
      /\ DOMAIN pc = Passes /\ DOMAIN pass = Passes
      /\ undisturbed \subseteq Passes
  BY PlaceType DEF TypeOK, RecTypeOK
<1>1. CASE Goto(q, "fail", l) /\ noWrite
  <2>1. MidUpsert(q)'
    BY <1>0, <1>1, MidUpsertElsewhere DEF Goto
  <2>2. \A p \in undisturbed' \ {q} : MidUpsert(p)'
    BY <1>1, OtherPasses DEF noWrite
  <2>3. QED
    BY <1>1, <2>1, <2>2, OtherErasers DEF UpsertInv
<1>2. CASE Goto(q, afterPrune(del), v) /\ ApiList(q, n)
  <2>1. /\ place(v) = place(l) /\ v.cfg = l.cfg /\ v.want = l.want /\ v.found = dns[n] /\ v.del = del
        /\ v.left = l.want
    BY <1>0 DEF PassType, place
  <2>2. pass'[q] = v /\ pc'[q] = afterPrune(del) /\ dns' = dns
    BY <1>0, <1>2 DEF Goto, ApiList
  <2> HIDE DEF v
  <2>3. Pruning(q)'
    BY <1>0, <2>1, <2>2 DEF Pruning, Set, Published
  <2>4. del = {} => Applying(q)'
    BY <1>0, <2>1, <2>2 DEF Applying, Set, Published, PassType
  <2>5. MidUpsert(q)'
    BY <2>2, <2>3, <2>4 DEF MidUpsert, afterPrune
  <2>6. \A p \in undisturbed' \ {q} : MidUpsert(p)'
    BY <1>2, OtherPasses DEF ApiList
  <2>7. QED
    BY <1>2, <2>5, <2>6, OtherErasers DEF UpsertInv, afterPrune
<1>3. QED
  BY <1>1, <1>2 DEF UpsertList, unwanted

(* The step of UpsertRecord that fails, whatever it did to the zone. *)
LEMMA FailUpsert ==
    ASSUME TypeOK, UpsertInv, NEW q \in Passes, Goto(q, "fail", pass[q]),
           \/ noWrite
           \/ \E ip \in IPs, ttl \in TTLs \cup {0} : Write(q, place(pass[q]), ip, ttl)
    PROVE  UpsertInv'
<1>1. MidUpsert(q)'
  BY MidUpsertElsewhere DEF Goto, TypeOK, RecTypeOK
<1>2. \A p \in undisturbed' \ {q} : MidUpsert(p)'
  BY OtherPasses DEF noWrite
<1>3. QED
  BY <1>1, <1>2, OtherErasers DEF UpsertInv

(* Deleting one unwanted record leaves the fewer ones to delete. *)
LEMMA UpsertPruneUpsert ==
    ASSUME TypeOK, UpsertInv, NEW q \in Passes, UpsertPrune(q)
    PROVE  UpsertInv'
<1> DEFINE l == pass[q]
           n == place(l)
<1>0. /\ l \in PassType /\ n \in Places /\ dns \in [Places -> [IPs -> TTLs \cup {0}]]
      /\ DOMAIN pc = Passes /\ DOMAIN pass = Passes /\ pc[q] = "prune"
      /\ l.del \subseteq IPs
  BY PlaceType DEF TypeOK, RecTypeOK, PassType, UpsertPrune
<1>1. PICK ip \in l.del :
         \/ /\ Goto(q, afterPrune(l.del \ {ip}), [l EXCEPT !.del = l.del \ {ip}])
            /\ ApiDelete(q, n, ip)
         \/ Goto(q, "fail", l) /\ (noWrite \/ ApiDelete(q, n, ip))
  BY DEF UpsertPrune
<1>2. ip \in IPs
  BY <1>0
<1>3. CASE Goto(q, "fail", l) /\ (noWrite \/ ApiDelete(q, n, ip))
  BY <1>2, <1>3, FailUpsert DEF ApiDelete
<1>4. CASE /\ Goto(q, afterPrune(l.del \ {ip}), [l EXCEPT !.del = l.del \ {ip}])
           /\ ApiDelete(q, n, ip)
  <2> DEFINE v == [l EXCEPT !.del = l.del \ {ip}]
  <2>1. /\ place(v) = place(l) /\ v.cfg = l.cfg /\ v.want = l.want /\ v.found = l.found /\ v.del = l.del \ {ip}
        /\ v.left = l.left
    BY <1>0 DEF PassType, place
  <2>2. pass'[q] = v /\ pc'[q] = afterPrune(l.del \ {ip})
    BY <1>0, <1>4 DEF Goto
  <2>3. \A x \in IPs : dns'[n][x] = IF x = ip THEN 0 ELSE dns[n][x]
    BY <1>0, <1>2, <1>4 DEF ApiDelete, Write
  <2>4. q \in undisturbed' => q \in undisturbed
    BY <1>4 DEF ApiDelete, Write
  <2> HIDE DEF v
  <2>5. ASSUME q \in undisturbed
        PROVE  Pruning(q)' /\ (l.del \ {ip} = {} => Applying(q)')
    <3>1. Pruning(q)
      BY <1>0, <2>5 DEF UpsertInv, MidUpsert
    <3>2. Pruning(q)'
      BY <1>0, <1>2, <2>1, <2>2, <2>3, <3>1 DEF Pruning, Set
    <3>3. ASSUME l.del \ {ip} = {}
          PROVE  Applying(q)'
      BY <1>0, <2>1, <2>2, <3>2, <3>3 DEF Pruning, Applying, Set, PassType
    <3>4. QED
      BY <3>2, <3>3
  <2>6. q \in undisturbed' => MidUpsert(q)'
    BY <2>2, <2>4, <2>5 DEF MidUpsert, afterPrune
  <2>7. \A p \in undisturbed' \ {q} : MidUpsert(p)'
    BY <1>2, <1>4, OtherPasses DEF ApiDelete
  <2>8. QED
    BY <1>4, <2>6, <2>7, OtherErasers DEF UpsertInv, afterPrune
<1>5. QED
  BY <1>1, <1>3, <1>4

(* Creating or updating one record leaves the fewer ones to visit. *)
LEMMA UpsertApplyUpsert ==
    ASSUME TypeOK, UpsertInv, NEW q \in Passes, UpsertApply(q)
    PROVE  UpsertInv'
<1> DEFINE l == pass[q]
           n == place(l)
           left(ip) == [l.left EXCEPT ![ip] = @ - 1]
<1>0. /\ l \in PassType /\ n \in Places /\ dns \in [Places -> [IPs -> TTLs \cup {0}]]
      /\ DOMAIN pc = Passes /\ DOMAIN pass = Passes /\ pc[q] = "apply"
      /\ l.left \in [IPs -> Nat] /\ l.want \in [IPs -> Nat] /\ l.cfg.ttl \in TTLs
  BY PlaceType DEF TypeOK, RecTypeOK, PassType, ConfigRow, UpsertApply
<1>1. PICK ip \in Set(l.left) :
         \/ /\ Goto(q, afterApply(left(ip)), [l EXCEPT !.left = left(ip)])
            /\ \/ l.found[ip] = l.cfg.ttl /\ noWrite
               \/ ApiPut(q, n, ip, l.cfg.ttl)
         \/ Goto(q, "fail", l) /\ (noWrite \/ ApiPut(q, n, ip, l.cfg.ttl))
  BY DEF UpsertApply
<1>2. ip \in IPs /\ l.left[ip] > 0
  BY DEF Set
<1>3. CASE Goto(q, "fail", l) /\ (noWrite \/ ApiPut(q, n, ip, l.cfg.ttl))
  BY <1>0, <1>2, <1>3, FailUpsert DEF ApiPut
<1>4. CASE /\ Goto(q, afterApply(left(ip)), [l EXCEPT !.left = left(ip)])
           /\ \/ l.found[ip] = l.cfg.ttl /\ noWrite
              \/ ApiPut(q, n, ip, l.cfg.ttl)
  <2> DEFINE v == [l EXCEPT !.left = left(ip)]
  <2>1. /\ place(v) = place(l) /\ v.cfg = l.cfg /\ v.want = l.want /\ v.found = l.found /\ v.left = left(ip)
    BY <1>0 DEF PassType, place
  <2>2. pass'[q] = v /\ pc'[q] = afterApply(left(ip))
    BY <1>0, <1>4 DEF Goto
  <2>3. q \in undisturbed' => q \in undisturbed
    BY <1>4 DEF ApiPut, Write, noWrite
  <2>4. \A x \in IPs : left(ip)[x] = IF x = ip THEN l.left[x] - 1 ELSE l.left[x]
    BY <1>0, <1>2
  <2>5. \/ l.found[ip] = l.cfg.ttl /\ dns' = dns
        \/ \A x \in IPs : dns'[n][x] = IF x = ip THEN l.cfg.ttl ELSE dns[n][x]
    BY <1>0, <1>2, <1>4 DEF noWrite, ApiPut, Write
  <2> HIDE DEF v, left
  <2>6. ASSUME q \in undisturbed
        PROVE  Applying(q)' /\ (Set(left(ip)) = {} => Applied(q)')
    <3>1. Applying(q)
      BY <1>0, <2>6 DEF UpsertInv, MidUpsert
    <3>2. \A x \in IPs : left(ip)[x] \in Nat /\ l.want[x] \in Nat /\ left(ip)[x] <= l.want[x]
      BY <1>0, <1>2, <2>4, <3>1 DEF Applying
    <3>3. ASSUME NEW x \in IPs
          PROVE  dns'[n][x] = IF x \notin Set(l.want) THEN 0
                              ELSE IF left(ip)[x] = l.want[x] THEN l.found[x] ELSE l.cfg.ttl
      <4>1. dns[n][x] = IF x \notin Set(l.want) THEN 0
                        ELSE IF l.left[x] = l.want[x] THEN l.found[x] ELSE l.cfg.ttl
        BY <3>1 DEF Applying
      <4>2. l.left[x] <= l.want[x] /\ l.left[x] \in Nat /\ l.want[x] \in Nat
        BY <1>0, <3>1 DEF Applying
      <4>3. CASE x = ip
        <5>1. x \in Set(l.want) /\ left(ip)[x] # l.want[x]
          BY <1>2, <2>4, <4>2, <4>3 DEF Set
        <5>2. QED
          BY <2>5, <4>1, <4>3, <5>1
      <4>4. CASE x # ip
        BY <2>4, <2>5, <4>1, <4>4
      <4>5. QED
        BY <4>3, <4>4
    <3>4. Applying(q)'
      BY <2>1, <2>2, <3>2, <3>3 DEF Applying, Set
    <3>5. ASSUME Set(left(ip)) = {}
          PROVE  Applied(q)'
      <4>1. \A x \in IPs : ~(left(ip)[x] > 0)
        BY <3>5 DEF Set
      <4>2. \A x \in Set(l.want) : left(ip)[x] # l.want[x]
        BY <3>2, <4>1 DEF Set
      <4>3. QED
        BY <2>1, <2>2, <3>3, <4>2 DEF Applied, Set
    <3>6. QED
      BY <3>4, <3>5
  <2>7. q \in undisturbed' => MidUpsert(q)'
    BY <2>2, <2>3, <2>6 DEF MidUpsert, afterApply
  <2>8. \A p \in undisturbed' \ {q} : MidUpsert(p)'
    BY <1>0, <1>2, <1>4, OtherPasses DEF ApiPut, noWrite
  <2>9. QED
    BY <1>4, <2>7, <2>8, OtherErasers DEF UpsertInv, afterApply
<1>5. QED
  BY <1>1, <1>3, <1>4

(* DeleteRecord leads to Record with nothing wanted. *)
LEMMA EraseUpsert ==
    ASSUME TypeOK, UpsertInv, NEW q \in Passes, DeleteList(q) \/ DeleteErase(q)
    PROVE  UpsertInv'
<1>0. /\ pass[q] \in PassType /\ pass[q].del \subseteq IPs
      /\ DOMAIN pc = Passes /\ DOMAIN pass = Passes
      /\ Set(pass[q].want) = {}
  BY DEF TypeOK, RecTypeOK, PassType, DeleteList, DeleteErase, UpsertInv
<1>1. PICK l, v : /\ Goto(q, l, v)
                  /\ l \in {"erase", "record"}
                  /\ v.want = pass[q].want
  <2>1. \A d : [pass[q] EXCEPT !.del = d].want = pass[q].want
    BY <1>0 DEF PassType
  <2>2. CASE DeleteList(q)
    BY <2>1, <2>2 DEF DeleteList, afterErase
  <2>3. CASE DeleteErase(q)
    BY <2>1, <2>3 DEF DeleteErase, afterErase
  <2>4. QED
    BY <2>2, <2>3
<1>2. \/ UNCHANGED dns /\ undisturbed' \subseteq undisturbed \cup {q}
      \/ \E ip \in IPs, ttl \in TTLs \cup {0} : Write(q, place(pass[q]), ip, ttl)
  <2>1. CASE DeleteList(q)
    BY <2>1 DEF DeleteList, ApiList, noWrite
  <2>2. CASE DeleteErase(q)
    <3>1. PICK ip \in pass[q].del : noWrite \/ ApiDelete(q, place(pass[q]), ip)
      BY <2>2 DEF DeleteErase
    <3>2. QED
      BY <1>0, <3>1 DEF noWrite, ApiDelete
  <2>3. QED
    BY <2>1, <2>2
<1>3. pc'[q] = l /\ pass'[q] = v
  BY <1>0, <1>1 DEF Goto
<1>4. MidUpsert(q)'
  BY <1>0, <1>1, <1>3 DEF MidUpsert, Set
<1>5. \A p \in undisturbed' \ {q} : MidUpsert(p)'
  BY <1>1, <1>2, OtherPasses
<1>6. QED
  BY <1>0, <1>1, <1>4, <1>5, OtherErasers DEF UpsertInv, Set

(* Steps of a pass that do not use the provider, and triggers. *)
LEMMA QuietUpsert ==
    ASSUME TypeOK, UpsertInv, NEW q \in Passes, NEW l, NEW v, Goto(q, l, v),
           l \notin {"prune", "apply", "record", "dlist", "erase"},
           UNCHANGED dns, undisturbed' \subseteq undisturbed
    PROVE  UpsertInv'
<1>1. MidUpsert(q)'
  BY MidUpsertElsewhere DEF Goto, TypeOK, RecTypeOK
<1>2. \A p \in undisturbed' \ {q} : MidUpsert(p)'
  BY OtherPasses
<1>3. QED
  BY <1>1, <1>2, OtherErasers DEF UpsertInv

(* A pass that is idle or ends is not constrained. *)
LEMMA IdleUpsert ==
    ASSUME TypeOK, UpsertInv, UNCHANGED <<dns, pc, pass, undisturbed>>
    PROVE  UpsertInv'
<1>1. \A p \in undisturbed : MidUpsert(p)'
  BY MidUpsertStable DEF UpsertInv
<1>2. QED
  BY <1>1 DEF UpsertInv

(* Every step keeps the invariant. *)
LEMMA UpsertInvNext == TypeOK /\ UpsertInv /\ [Next]_vars => UpsertInv'
<1> SUFFICES ASSUME TypeOK, UpsertInv, [Next]_vars PROVE UpsertInv'
  OBVIOUS
<1>0. /\ "loop" \in Passes /\ DOMAIN pc = Passes /\ DOMAIN pass = Passes
      /\ pass \in [Passes -> PassType] /\ Callers \subseteq Passes
  BY DEF TypeOK, RecTypeOK, Passes
<1>1. CASE UNCHANGED vars
  BY <1>1, IdleUpsert DEF vars, recVars
<1>2. CASE Tick \/ EndOfList
  <2>1. pass = [pass EXCEPT !["loop"] = pass["loop"]]
    BY <1>0
  <2>2. \E l \in {"next", "idle"} : Goto("loop", l, pass["loop"])
    BY <1>2, <2>1 DEF Tick, EndOfList, Goto
  <2>3. UNCHANGED <<dns, undisturbed>>
    BY <1>2 DEF Tick, EndOfList
  <2>4. QED
    BY <1>0, <2>2, <2>3, QuietUpsert
<1>3. CASE NextConfig
  <2>1. (\E v : Goto("loop", "backends", v)) /\ UNCHANGED <<dns, undisturbed>>
    BY <1>3 DEF NextConfig
  <2>2. QED
    BY <1>0, <2>1, QuietUpsert
<1>4. ASSUME NEW q \in Passes, Step(q)
      PROVE  UpsertInv'
  <2>1. CASE Record(q)
    <3>1. Goto(q, "finish", pass[q]) /\ UNCHANGED <<dns, undisturbed>>
      BY <2>1 DEF Record
    <3>2. QED
      BY <3>1, QuietUpsert
  <2>2. CASE Finish(q)
    <3>1. /\ \E l \in {"next", "idle"} : Goto(q, l, NoPass)
          /\ UNCHANGED dns /\ undisturbed' \subseteq undisturbed
      BY <2>2 DEF Finish, Leave
    <3>2. QED
      BY <3>1, QuietUpsert
  <2>3. QED
    BY <1>4, <2>1, <2>2, ReadStepsUpsert, UpsertListUpsert, UpsertPruneUpsert,
       UpsertApplyUpsert, EraseUpsert DEF Step
<1>5. CASE Environment
  <2>1. UNCHANGED <<dns, undisturbed>>
    BY <1>5 DEF Environment
  <2>2. (\E c : triggerReconcile(c)) \/ noTrigger
    BY <1>5 DEF Environment, HandleCreateConfig, HandleUpdateConfig, HandleDeleteConfig,
                HandleAddBackend, HandleUpdateBackend, HandleDeleteBackend,
                HandleConfigureDNSProvider, HandleDeleteDNSProvider, HealthResult
  <2>3. CASE UNCHANGED <<pc, pass>>
    BY <2>1, <2>3, IdleUpsert
  <2>4. CASE \E q \in Callers : \E v : Goto(q, "get", v)
    BY <1>0, <2>1, <2>4, QuietUpsert
  <2>5. QED
    BY <2>2, <2>3, <2>4 DEF triggerReconcile, noTrigger
<1>6. CASE Restart
  BY <1>6 DEF Restart, UpsertInv
<1>7. QED
  BY <1>1, <1>2, <1>3, <1>4, <1>5, <1>6 DEF Next

(* At the end of an upsert nothing is left to do: the zone is as wanted. *)
LEMMA UpsertInvExact == TypeOK /\ UpsertInv => UndisturbedUpsertExact
<1> SUFFICES ASSUME TypeOK, UpsertInv,
                    NEW p \in undisturbed, pc[p] = "record", Set(pass[p].want) # {}
             PROVE  dns[place(pass[p])] =
                      [ip \in IPs |-> IF ip \in Set(pass[p].want) THEN pass[p].cfg.ttl ELSE 0]
  BY DEF UndisturbedUpsertExact
<1>1. dns[place(pass[p])] \in [IPs -> TTLs \cup {0}]
  BY PlaceType DEF TypeOK, RecTypeOK
<1>2. Applied(p)
  BY DEF UpsertInv, MidUpsert
<1>3. QED
  BY <1>1, <1>2 DEF Applied

(* An update that was not disturbed since it listed the zone leaves exactly *)
(* the selected addresses with the TTL of the config, whatever state        *)
(* earlier passes, failures or crashes left the zone in.                    *)
THEOREM UndisturbedUpsertsAreExact == Spec => []UndisturbedUpsertExact
<1>1. Init => TypeOK /\ UpsertInv
  BY TypeInit, UpsertInvInit
<1>2. TypeOK /\ UpsertInv /\ [Next]_vars => (TypeOK /\ UpsertInv)'
  BY TypeNext, UpsertInvNext
<1>3. QED
  BY <1>1, <1>2, UpsertInvExact, PTL DEF Spec

-----------------------------------------------------------------------------
(***************************************************************************)
(* WeightedOneRecord when the loop is the only pass.  The loop is then     *)
(* never disturbed, so UpsertInv tells what the zone holds while it        *)
(* creates records, and for a weighted config it wants one address.        *)
(***************************************************************************)
OnlyLoop == Callers = {}

AtMostOne(S) == \A x, y \in S : x = y

WeightedInv ==
    /\ pc["loop"] # "get"
    /\ pc["loop"] \in {"prune", "apply"} => "loop" \in undisturbed
    /\ pass["loop"].cfg.method = "weighted" => AtMostOne(Set(pass["loop"].want))

(* selectWeighted breaks ties: it chooses at most one backend. *)
LEMMA selectWeightedOne ==
    ASSUME NEW rows \in Table(Backends, BackendRow), NEW healthy \in SUBSET DOMAIN rows
    PROVE  AtMostOne(selectWeighted(rows, healthy))
<1>1. \A b \in healthy : b \in Nat /\ effectiveWeight(rows[b]) \in Int
  <2>1. DOMAIN rows \subseteq Backends /\ \A b \in DOMAIN rows : rows[b] \in BackendRow
    BY TableDef
  <2>2. \A r \in BackendRow : r.weight \in Int
    BY StoreAssumption DEF StoreAssumption, BackendRow
  <2>3. \A b \in Backends : b \in Nat
    BY StoreAssumption DEF StoreAssumption, Backends
  <2>4. QED
    BY <2>1, <2>2, <2>3 DEF effectiveWeight
<1>2. QED
  BY <1>1 DEF AtMostOne, selectWeighted

(* One backend has one address. *)
LEMMA extractIPsOne ==
    ASSUME NEW rows, NEW bs, AtMostOne(bs)
    PROVE  AtMostOne(Set(extractIPs(rows, bs)))
<1>1. ASSUME NEW ip \in Set(extractIPs(rows, bs))
      PROVE  \E b \in bs : rows[b].ip = ip
  <2>1. Cardinality({b \in bs : rows[b].ip = ip}) > 0
    BY DEF Set, extractIPs
  <2>2. {b \in bs : rows[b].ip = ip} # {}
    BY <2>1, FS_EmptySet
  <2>3. QED
    BY <2>2
<1>2. QED
  BY <1>1 DEF AtMostOne

(* No pass is under way at first. *)
LEMMA WeightedInvInit == Init => WeightedInv
<1>1. "loop" \in Passes /\ Set(NoIPs) = {} /\ NoPass.want = NoIPs
  BY DEF Passes, Set, NoIPs, NoPass
<1>2. QED
  BY <1>1 DEF Init, RecInit, WeightedInv, AtMostOne

(* Every step of the loop, the handlers and a restart keep the invariant. *)
LEMMA WeightedInvNext ==
    ASSUME OnlyLoop, TypeOK, WeightedInv, [Next]_vars
    PROVE  WeightedInv'
<1>0. /\ Passes = {"loop"} /\ pass["loop"] \in PassType
      /\ DOMAIN pc = Passes /\ DOMAIN pass = Passes
      /\ Set(NoIPs) = {} /\ NoPass \in PassType /\ NoPass.want = NoIPs
  BY NoPassType DEF OnlyLoop, Passes, TypeOK, RecTypeOK, Set, NoIPs, NoPass
(* A step that keeps the method and the wanted addresses. *)
<1>1. ASSUME NEW l, NEW v, Goto("loop", l, v), l # "get",
             l \in {"prune", "apply"} => "loop" \in undisturbed',
             v.cfg.method = "weighted" => AtMostOne(Set(v.want))
      PROVE  WeightedInv'
  BY <1>0, <1>1 DEF Goto, WeightedInv
<1>2. ASSUME NEW v, \/ v = NoPass \/ v = pass["loop"]
                    \/ v.cfg = pass["loop"].cfg /\ v.want = pass["loop"].want
      PROVE  v.cfg.method = "weighted" => AtMostOne(Set(v.want))
  BY <1>0, <1>2 DEF WeightedInv, AtMostOne
<1>3. CASE UNCHANGED vars
  BY <1>3 DEF vars, recVars, WeightedInv, Set
<1>4. CASE Tick \/ EndOfList
  BY <1>0, <1>4 DEF Tick, EndOfList, WeightedInv, Set
<1>5. CASE NextConfig
  <2>1. PICK c : Goto("loop", "backends", [NoPass EXCEPT !.config = c, !.cfg = todo[c]])
    BY <1>5 DEF NextConfig
  <2> DEFINE v == [NoPass EXCEPT !.config = c, !.cfg = todo[c]]
  <2>2. v.want = NoIPs
    BY <1>0 DEF PassType
  <2> HIDE DEF v
  <2>3. AtMostOne(Set(v.want))
    BY <1>0, <2>2 DEF AtMostOne
  <2>4. Goto("loop", "backends", v)
    BY <2>1 DEF v
  <2>5. QED
    BY <1>1, <2>3, <2>4
<1>6. CASE Environment
  <2>1. UNCHANGED <<pc, pass, undisturbed>>
    BY <1>6 DEF Environment, HandleCreateConfig, HandleUpdateConfig, HandleDeleteConfig,
                HandleAddBackend, HandleUpdateBackend, HandleDeleteBackend,
                HandleConfigureDNSProvider, HandleDeleteDNSProvider, HealthResult,
                triggerReconcile, noTrigger, OnlyLoop
  <2>2. QED
    BY <2>1 DEF WeightedInv, Set
<1>7. CASE Restart
  BY <1>0, <1>7 DEF Restart, WeightedInv, AtMostOne
<1>8. CASE Step("loop")
  <2> DEFINE m == pass["loop"]
  <2>0. /\ \A t : [m EXCEPT !.rows = t].cfg = m.cfg /\ [m EXCEPT !.rows = t].want = m.want
        /\ \A d : [m EXCEPT !.del = d].cfg = m.cfg /\ [m EXCEPT !.del = d].want = m.want
        /\ \A w : [m EXCEPT !.left = w].cfg = m.cfg /\ [m EXCEPT !.left = w].want = m.want
    BY <1>0 DEF PassType
  <2>1. CASE GetConfig("loop")
    BY <2>1 DEF GetConfig, WeightedInv
  <2>2. CASE ReadBackends("loop")
    <3>1. \/ Goto("loop", "states", [m EXCEPT !.rows = ListBackends(m.config)])
          \/ Goto("loop", "fail", m)
      BY <2>2 DEF ReadBackends
    <3>2. CASE Goto("loop", "fail", m)
      BY <1>1, <1>2, <3>2
    <3> DEFINE v == [m EXCEPT !.rows = ListBackends(m.config)]
    <3>3. v.cfg = m.cfg /\ v.want = m.want
      BY <2>0
    <3> HIDE DEF v
    <3>4. CASE Goto("loop", "states", v)
      BY <1>1, <1>2, <3>3, <3>4
    <3>5. QED
      BY <3>1, <3>2, <3>4 DEF v
  <2>3. CASE ReadStates("loop")
    <3> DEFINE healthy == healthyBackends(m.rows, GetHealthStates(m.config))
               bs == backendsForDNS(m.cfg.method, m.rows, healthy)
               v == [m EXCEPT !.want = extractIPs(m.rows, bs), !.rows = EmptyTable]
    <3>1. healthy \in SUBSET DOMAIN m.rows /\ m.rows \in Table(Backends, BackendRow)
      BY <1>0 DEF healthyBackends, PassType
    <3>2. v.cfg = m.cfg /\ v.want = extractIPs(m.rows, bs)
      BY <1>0 DEF PassType
    <3> HIDE DEF healthy
    <3>3. m.cfg.method = "weighted" => AtMostOne(bs)
      BY <3>1, selectWeightedOne DEF backendsForDNS
    <3>4. Goto("loop", "decide", v) \/ Goto("loop", "fail", m)
      BY <2>3 DEF ReadStates, healthy
    <3> HIDE DEF bs, v
    <3>5. v.cfg.method = "weighted" => AtMostOne(Set(v.want))
      BY <3>2, <3>3, extractIPsOne
    <3>6. QED
      BY <1>1, <1>2, <3>4, <3>5
  <2>4. CASE Decide("loop") \/ Resolve("loop")
    <3>1. PICK l \in {"resolve", "finish", "dlist", "list"} :
             Goto("loop", l, m) \/ \E z : Goto("loop", l, [m EXCEPT !.zone = z])
      BY <2>4 DEF Decide, Resolve, UpdateWith
    <3>2. CASE Goto("loop", l, m)
      BY <1>1, <1>2, <3>2
    <3>3. ASSUME NEW z, Goto("loop", l, [m EXCEPT !.zone = z])
          PROVE  WeightedInv'
      <4> DEFINE v == [m EXCEPT !.zone = z]
      <4>1. v.cfg = m.cfg /\ v.want = m.want /\ Goto("loop", l, v)
        BY <1>0, <3>3 DEF PassType
      <4> HIDE DEF v
      <4>2. QED
        BY <1>1, <1>2, <4>1
    <3>4. QED
      BY <3>1, <3>2, <3>3
  <2>5. CASE UpsertList("loop")
    <3> DEFINE del == Published(place(m)) \ Set(m.want)
               v == [m EXCEPT !.found = dns[place(m)], !.del = del, !.left = m.want]
    <3>1. v.cfg = m.cfg /\ v.want = m.want
      BY <1>0 DEF PassType
    <3>2. \/ Goto("loop", afterPrune(del), v) /\ "loop" \in undisturbed'
          \/ Goto("loop", "fail", m)
      BY <2>5 DEF UpsertList, unwanted, ApiList
    <3>3. afterPrune(del) \in {"prune", "apply"}
      BY DEF afterPrune
    <3> HIDE DEF v, del
    <3>4. QED
      BY <1>1, <1>2, <3>1, <3>2, <3>3
  <2>6. CASE UpsertPrune("loop") \/ UpsertApply("loop")
    <3>1. "loop" \in undisturbed /\ undisturbed \subseteq {"loop"}
      BY <1>0, <2>6 DEF UpsertPrune, UpsertApply, WeightedInv, TypeOK, RecTypeOK
    <3>2. "loop" \in undisturbed'
      BY <2>6, <3>1 DEF UpsertPrune, UpsertApply, ApiDelete, ApiPut, Write, noWrite
    <3>3. CASE UpsertPrune("loop")
      <4>1. PICK d : \/ Goto("loop", afterPrune(d), [m EXCEPT !.del = d])
                     \/ Goto("loop", "fail", m)
        BY <3>3 DEF UpsertPrune
      <4>2. QED
        BY <1>1, <1>2, <2>0, <3>2, <4>1 DEF afterPrune
    <3>4. CASE UpsertApply("loop")
      <4>1. PICK w : \/ Goto("loop", afterApply(w), [m EXCEPT !.left = w])
                     \/ Goto("loop", "fail", m)
        BY <3>4 DEF UpsertApply
      <4>2. QED
        BY <1>1, <1>2, <2>0, <3>2, <4>1 DEF afterApply
    <3>5. QED
      BY <2>6, <3>3, <3>4
  <2>7. CASE DeleteList("loop") \/ DeleteErase("loop")
    <3>1. PICK d : \/ Goto("loop", afterErase(d), [m EXCEPT !.del = d])
                   \/ Goto("loop", "record", m)
      BY <2>7 DEF DeleteList, DeleteErase
    <3>2. CASE Goto("loop", "record", m)
      BY <1>1, <1>2, <3>2
    <3> DEFINE v == [m EXCEPT !.del = d]
    <3>3. v.cfg = m.cfg /\ v.want = m.want
      BY <2>0
    <3>4. afterErase(d) \in {"record", "erase"}
      BY DEF afterErase
    <3> HIDE DEF v
    <3>5. CASE Goto("loop", afterErase(d), v)
      BY <1>1, <1>2, <3>3, <3>4, <3>5
    <3>6. QED
      BY <3>1, <3>2, <3>5 DEF v
  <2>8. CASE Record("loop")
    <3>1. Goto("loop", "finish", m)
      BY <2>8 DEF Record
    <3>2. QED
      BY <1>1, <1>2, <3>1
  <2>9. CASE Finish("loop")
    <3>1. \E l \in {"next", "idle"} : Goto("loop", l, NoPass)
      BY <2>9 DEF Finish, Leave
    <3>2. AtMostOne(Set(NoPass.want))
      BY <1>0 DEF AtMostOne
    <3>3. QED
      BY <1>1, <3>1, <3>2
  <2>10. QED
    BY <1>8, <2>1, <2>2, <2>3, <2>4, <2>5, <2>6, <2>7, <2>8, <2>9 DEF Step
<1>9. QED
  BY <1>0, <1>3, <1>4, <1>5, <1>6, <1>7, <1>8 DEF Next

(* What the loop leaves in the zone when it creates records. *)
LEMMA WeightedStepHolds ==
    ASSUME OnlyLoop, TypeOK, UpsertInv, WeightedInv, [Next]_vars
    PROVE  [WeightedStep]_vars
<1> DEFINE m == pass["loop"]
           n == place(m)
<1>0. /\ Passes = {"loop"} /\ m \in PassType /\ n \in Places
      /\ dns \in [Places -> [IPs -> TTLs \cup {0}]]
      /\ m.want \in [IPs -> Nat] /\ m.left \in [IPs -> Nat]
  BY PlaceType DEF OnlyLoop, Passes, TypeOK, RecTypeOK, PassType
<1> SUFFICES ASSUME Next, pc["loop"] = "apply", m.cfg.method = "weighted"
             PROVE  Cardinality({ip \in IPs : dns'[n][ip] # 0}) <= 1
  BY <1>0 DEF WeightedStep
<1>1. Applying("loop") /\ AtMostOne(Set(m.want))
  BY DEF UpsertInv, WeightedInv, MidUpsert
<1>2. \A ip \in IPs \ Set(m.want) : dns[n][ip] = 0
  BY <1>1 DEF Applying
<1>3. UpsertApply("loop") \/ UNCHANGED dns
  <2>1. CASE Step("loop")
    BY <2>1 DEF Step, GetConfig, ReadBackends, ReadStates, Decide, Resolve, UpsertList,
                UpsertPrune, DeleteList, DeleteErase, Record, Finish
  <2>2. CASE ~Step("loop")
    BY <1>0, <2>2 DEF Next, Tick, NextConfig, EndOfList, Environment, Restart
  <2>3. QED
    BY <2>1, <2>2
<1>4. \A ip \in IPs \ Set(m.want) : dns'[n][ip] = 0
  <2>1. CASE UNCHANGED dns
    BY <1>2, <2>1
  <2>2. CASE UpsertApply("loop")
    <3>1. PICK ip \in Set(m.left) : noWrite \/ ApiPut("loop", n, ip, m.cfg.ttl)
      BY <2>2 DEF UpsertApply
    <3>2. ip \in Set(m.want)
      BY <1>0, <1>1 DEF Applying, Set
    <3>3. QED
      BY <1>0, <1>2, <3>1, <3>2 DEF noWrite, ApiPut, Write
  <2>3. QED
    BY <1>3, <2>1, <2>2
<1> DEFINE S == {ip \in IPs : dns'[n][ip] # 0}
<1>5. S = {} \/ \E x : S = {x}
  BY <1>1, <1>4 DEF AtMostOne, Set
<1> HIDE DEF S
<1>6. Cardinality(S) \in {0, 1}
  BY <1>5, FS_EmptySet, FS_Singleton
<1>7. QED
  BY <1>6 DEF S

(* When the periodic loop is the only pass, a pass that publishes a         *)
(* weighted config never leaves two records, whatever failures and crashes  *)
(* came before (the run RecOverlap shows what on-demand passes do to it).   *)
THEOREM LoopPublishesOneWeightedRecord == OnlyLoop => (Spec => WeightedOneRecord)
<1> SUFFICES ASSUME OnlyLoop PROVE Spec => WeightedOneRecord
  OBVIOUS
<1>1. Init => TypeOK /\ UpsertInv /\ WeightedInv
  BY TypeInit, UpsertInvInit, WeightedInvInit
<1>2. TypeOK /\ UpsertInv /\ WeightedInv /\ [Next]_vars
        => (TypeOK /\ UpsertInv /\ WeightedInv)'
  BY TypeNext, UpsertInvNext, WeightedInvNext
<1>3. TypeOK /\ UpsertInv /\ WeightedInv /\ [Next]_vars => [WeightedStep]_vars
  BY WeightedStepHolds
<1>4. QED
  BY <1>1, <1>2, <1>3, PTL DEF Spec, WeightedOneRecord

-----------------------------------------------------------------------------
(***************************************************************************)
(* CacheTruth when the loop is the only pass, clients neither rename a     *)
(* config nor give two of its backends one address, no provider, that of   *)
(* the config or the default one, takes the records of a config to another *)
(* zone, and no call fails that may leave an update half done.  (The runs  *)
(* RecOverlap, RecRename, RecPartial and RecSwallow show what overlap,     *)
(* rename and failures do otherwise; lastRecords does not know of zones.)  *)
(* Queries and the listing of an upsert may fail, and the process may      *)
(* restart at any time, in the middle of an update too.                    *)
(***************************************************************************)
(* The zones that resolveProvider may ever give for c. *)
ZonesOf(c) ==
    ({row.provider : row \in {r \in ProviderInputs : r.config = c}} \cup {Fallback}) \cap Zones

FixedZones == \A c \in Configs : AtMostOne(ZonesOf(c))

CleanUpdates ==
    /\ FaultPoints \cap {"upsert_write", "delete_list", "delete_write"} = {}
    /\ ClientActs = {}
    /\ FixedZones

(* The loop still has to visit config c, or is visiting it, under the name  *)
(* n that it had when ReconcileOnce listed it; c may be deleted by now and  *)
(* n be the name of a newer config.                                         *)
Visits(c, n) ==
    \/ c \in DOMAIN todo /\ todo[c].name = n
    \/ pc["loop"] \notin {"idle", "next"} /\ pass["loop"].config = c /\ pass["loop"].cfg.name = n

Remembered == DOMAIN lastRecords \cap DOMAIN configs

NamesInv ==
    /\ \A c, d \in DOMAIN configs : configs[c].name = configs[d].name => c = d
    /\ DOMAIN lastRecords \subseteq usedConfigs
    /\ \A c \in Configs, n \in Names : Visits(c, n) =>
          /\ c \in usedConfigs
          /\ c \in DOMAIN configs => configs[c].name = n
          /\ \A d \in Configs : Visits(d, n) => d = c
          /\ \A k \in Names : Visits(c, k) => k = n
          /\ \A d \in Remembered : configs[d].name = n => d = c

(* No address occurs twice in what is to be published. *)
AddressInv ==
    /\ \A b, o \in DOMAIN backends :
          backends[b].config = backends[o].config /\ backends[b].ip = backends[o].ip => b = o
    /\ pc["loop"] = "states" =>
          \A b, o \in DOMAIN pass["loop"].rows :
              pass["loop"].rows[b].ip = pass["loop"].rows[o].ip => b = o
    /\ \A ip \in IPs : pass["loop"].want[ip] <= 1

(* The ids of the records that an update is yet to delete or to change are  *)
(* current, so it does not fail half-way; what it leaves is what it wanted. *)
UpdateInv ==
    LET m == pass["loop"]
    IN  /\ pc["loop"] \in {"prune", "apply"} =>
              /\ m.del \subseteq ids["loop"]
              /\ \A ip \in Set(m.want) : m.found[ip] # 0 => ip \in ids["loop"]
        /\ pc["loop"] = "erase" => m.del \subseteq ids["loop"] /\ Published(place(m)) = m.del
        /\ pc["loop"] = "record" => Published(place(m)) = Set(m.want)

Updates == {"prune", "apply", "erase", "record"}

(* The loop uses a zone that the config of its pass may have. *)
ZonesInv ==
    /\ \A c \in DOMAIN providers : [config |-> c, provider |-> providers[c]] \in ProviderInputs
    /\ pc["loop"] \in {"list", "dlist"} \cup Updates =>
          pass["loop"].zone \in ZonesOf(pass["loop"].config)

(* The loop is updating the records of n in zone z. *)
Busy(z, n) == pc["loop"] \in Updates /\ place(pass["loop"]) = <<z, n>>

(* CacheTruth, whatever provider a config has or gets; then the same for    *)
(* the configs that the loop is to visit, deleted or not.                   *)
ConfigTruth ==
    \A c \in Remembered : \A z \in ZonesOf(c) :
        ~Busy(z, configs[c].name) => Published(<<z, configs[c].name>>) = Set(lastRecords[c])

VisitedTruth ==
    \A c \in DOMAIN lastRecords, n \in Names : \A z \in ZonesOf(c) :
        Visits(c, n) /\ ~Busy(z, n) => Published(<<z, n>>) = Set(lastRecords[c])

ZoneTruth == ConfigTruth /\ VisitedTruth

CacheInv == NamesInv /\ AddressInv /\ UpdateInv /\ ZonesInv /\ ZoneTruth

(* What resolveProvider gives is one of the zones of the config. *)
LEMMA ResolvedZone ==
    ASSUME ZonesInv, NEW c
    PROVE  resolveProvider(c) \in ZonesOf(c) \cup {NoProvider}
<1>1. Fallback \in Zones \cup {NoProvider}
  BY ReconcilerAssumption DEF ReconcilerAssumption
<1>2. CASE c \in DOMAIN providers /\ providers[c] \in Zones
  <2> DEFINE r == [config |-> c, provider |-> providers[c]]
  <2>1. r \in ProviderInputs /\ r.config = c /\ r.provider = providers[c]
    BY <1>2 DEF ZonesInv
  <2> HIDE DEF r
  <2>2. QED
    BY <1>2, <2>1 DEF resolveProvider, ZonesOf
<1>3. CASE ~(c \in DOMAIN providers /\ providers[c] \in Zones)
  BY <1>1, <1>3 DEF resolveProvider, ZonesOf
<1>4. QED
  BY <1>2, <1>3

(* Facts about the only pass that every step uses. *)
LEMMA LoopFacts ==
    ASSUME OnlyLoop, TypeOK
    PROVE  /\ Passes = {"loop"} /\ DOMAIN pc = {"loop"} /\ DOMAIN pass = {"loop"}
           /\ DOMAIN ids = {"loop"}
           /\ pass["loop"] \in PassType /\ pass["loop"].cfg.name \in Names
           /\ pass["loop"].config \in Configs /\ pass["loop"].cfg.ttl \in TTLs
           /\ pass["loop"].want \in [IPs -> Nat] /\ pass["loop"].left \in [IPs -> Nat]
           /\ pass["loop"].del \subseteq IPs
           /\ place(pass["loop"]) \in Places
           /\ dns \in [Places -> [IPs -> TTLs \cup {0}]]
           /\ DOMAIN configs \subseteq Configs /\ \A c \in DOMAIN configs : configs[c].name \in Names
           /\ DOMAIN todo \subseteq Configs /\ \A c \in DOMAIN todo : todo[c].name \in Names
<1>1. Passes = {"loop"} /\ pass["loop"] \in PassType /\ pc \in [Passes -> PCs]
      /\ pass \in [Passes -> PassType] /\ ids \in [Passes -> SUBSET IPs]
  BY DEF OnlyLoop, Passes, TypeOK, RecTypeOK
<1>2. /\ DOMAIN configs \subseteq Configs /\ \A c \in DOMAIN configs : configs[c] \in ConfigRow
      /\ DOMAIN todo \subseteq Configs /\ \A c \in DOMAIN todo : todo[c] \in ConfigRow
  BY TableDef DEF TypeOK, StoreTypeOK, RecTypeOK
<1>3. QED
  BY <1>1, <1>2, PlaceType DEF PassType, ConfigRow, TypeOK, RecTypeOK

(* What every step of the loop within its visit of a config leaves alone. *)
LEMMA LoopStepShape ==
    ASSUME OnlyLoop, TypeOK, WeightedInv, Step("loop")
    PROVE  /\ UNCHANGED <<configs, usedConfigs, backends, todo>>
           /\ pc["loop"] \notin {"idle", "next"}
           /\ UNCHANGED lastRecords \/ Record("loop")
           /\ UNCHANGED providers
           /\ \E l, v :
                /\ Goto("loop", l, v)
                /\ l \in {"list", "dlist"} => Resolve("loop")
                /\ l \in Updates => /\ pc["loop"] \in {"list", "dlist"} \cup Updates
                                    /\ v.zone = pass["loop"].zone
                /\ \/ l = "next" /\ v = NoPass
                   \/ v.config = pass["loop"].config /\ v.cfg = pass["loop"].cfg
                /\ l = "states" => ReadBackends("loop")
                /\ v.want = pass["loop"].want \/ v = NoPass \/ ReadStates("loop")
<1> DEFINE m == pass["loop"]
<1>0. /\ m \in PassType /\ pc["loop"] # "get"
      /\ \A t : /\ [m EXCEPT !.rows = t].cfg = m.cfg /\ [m EXCEPT !.rows = t].want = m.want
                /\ [m EXCEPT !.rows = t].config = m.config /\ [m EXCEPT !.rows = t].zone = m.zone
      /\ \A d : /\ [m EXCEPT !.del = d].cfg = m.cfg /\ [m EXCEPT !.del = d].want = m.want
                /\ [m EXCEPT !.del = d].config = m.config /\ [m EXCEPT !.del = d].zone = m.zone
      /\ \A w : /\ [m EXCEPT !.left = w].cfg = m.cfg /\ [m EXCEPT !.left = w].want = m.want
                /\ [m EXCEPT !.left = w].config = m.config /\ [m EXCEPT !.left = w].zone = m.zone
      /\ \A f, d, w : /\ [m EXCEPT !.found = f, !.del = d, !.left = w].cfg = m.cfg
                      /\ [m EXCEPT !.found = f, !.del = d, !.left = w].want = m.want
                      /\ [m EXCEPT !.found = f, !.del = d, !.left = w].config = m.config
                      /\ [m EXCEPT !.found = f, !.del = d, !.left = w].zone = m.zone
      /\ \A z : /\ [m EXCEPT !.zone = z].cfg = m.cfg /\ [m EXCEPT !.zone = z].want = m.want
                /\ [m EXCEPT !.zone = z].config = m.config
      /\ \A w, t : /\ [m EXCEPT !.want = w, !.rows = t].cfg = m.cfg
                   /\ [m EXCEPT !.want = w, !.rows = t].config = m.config
  BY LoopFacts DEF PassType, WeightedInv
<1>u. /\ UNCHANGED <<configs, usedConfigs, backends, todo, providers>>
      /\ pc["loop"] \notin {"idle", "next"}
      /\ UNCHANGED lastRecords \/ Record("loop")
  BY <1>0 DEF Step, GetConfig, ReadBackends, ReadStates, Decide, Resolve, UpsertList, unwanted,
              UpsertPrune, UpsertApply, DeleteList, DeleteErase, Record, Finish,
              SetConfigReconcileError, storeVars
<1> DEFINE Keeps(v) == v.config = m.config /\ v.cfg = m.cfg
           Zoned(l, v) == /\ l \in {"list", "dlist"} => Resolve("loop")
                          /\ l \in Updates => /\ pc["loop"] \in {"list", "dlist"} \cup Updates
                                              /\ v.zone = m.zone
           Shape == \E l, v :
                      /\ Goto("loop", l, v)
                      /\ Zoned(l, v)
                      /\ (l = "next" /\ v = NoPass) \/ Keeps(v)
                      /\ l = "states" => ReadBackends("loop")
                      /\ v.want = m.want \/ v = NoPass \/ ReadStates("loop")
<1>g. ASSUME NEW l, NEW v, Goto("loop", l, v), Zoned(l, v),
             (l = "next" /\ v = NoPass) \/ Keeps(v),
             l = "states" => ReadBackends("loop"),
             v.want = m.want \/ v = NoPass \/ ReadStates("loop")
      PROVE  Shape
  BY <1>g
<1> SUFFICES Shape
  BY <1>u
<1> HIDE DEF Shape
<1>1. CASE ReadBackends("loop")
  <2>1. PICK t : Goto("loop", "states", [m EXCEPT !.rows = t]) \/ Goto("loop", "fail", m)
    BY <1>1 DEF ReadBackends
  <2> DEFINE v == [m EXCEPT !.rows = t]
  <2>2. Keeps(v) /\ v.want = m.want /\ (Goto("loop", "states", v) \/ Goto("loop", "fail", m))
    BY <1>0, <2>1
  <2> HIDE DEF v
  <2>3. QED
    BY <1>1, <1>g, <2>2 DEF Updates
<1>2. CASE ReadStates("loop")
  <2>1. PICK w, t : \/ Goto("loop", "decide", [m EXCEPT !.want = w, !.rows = t])
                    \/ Goto("loop", "fail", m)
    BY <1>2 DEF ReadStates
  <2> DEFINE v == [m EXCEPT !.want = w, !.rows = t]
  <2>2. Keeps(v) /\ (Goto("loop", "decide", v) \/ Goto("loop", "fail", m))
    BY <1>0, <2>1
  <2> HIDE DEF v
  <2>3. QED
    BY <1>2, <1>g, <2>2 DEF Updates
<1>3. CASE Decide("loop")
  BY <1>g, <1>3 DEF Decide, Updates
<1>3a. CASE Resolve("loop")
  <2>1. PICK z : \/ \E l \in {"dlist", "list"} : Goto("loop", l, [m EXCEPT !.zone = z])
                 \/ Goto("loop", "finish", m)
    BY <1>3a DEF Resolve, UpdateWith
  <2> DEFINE v == [m EXCEPT !.zone = z]
  <2>2. /\ Keeps(v) /\ v.want = m.want
        /\ (\E l \in {"dlist", "list"} : Goto("loop", l, v)) \/ Goto("loop", "finish", m)
    BY <1>0, <2>1
  <2> HIDE DEF v
  <2>3. QED
    BY <1>3a, <1>g, <2>2 DEF Updates
<1>4. CASE UpsertList("loop")
  <2>1. PICK f, d, w : \/ Goto("loop", afterPrune(d), [m EXCEPT !.found = f, !.del = d, !.left = w])
                       \/ Goto("loop", "fail", m)
    BY <1>4 DEF UpsertList, unwanted
  <2> DEFINE v == [m EXCEPT !.found = f, !.del = d, !.left = w]
  <2>2. Keeps(v) /\ v.want = m.want /\ v.zone = m.zone /\ (Goto("loop", afterPrune(d), v) \/ Goto("loop", "fail", m))
    BY <1>0, <2>1
  <2> HIDE DEF v
  <2>3. QED
    BY <1>g, <1>4, <2>1, <2>2 DEF afterPrune, Updates, UpsertList
<1>5. CASE UpsertPrune("loop")
  <2>1. PICK d : \/ Goto("loop", afterPrune(d), [m EXCEPT !.del = d])
                 \/ Goto("loop", "fail", m)
    BY <1>5 DEF UpsertPrune
  <2> DEFINE v == [m EXCEPT !.del = d]
  <2>2. Keeps(v) /\ v.want = m.want /\ v.zone = m.zone /\ (Goto("loop", afterPrune(d), v) \/ Goto("loop", "fail", m))
    BY <1>0, <2>1
  <2> HIDE DEF v
  <2>3. QED
    BY <1>g, <1>5, <2>1, <2>2 DEF afterPrune, Updates, UpsertPrune
<1>6. CASE UpsertApply("loop")
  <2>1. PICK w : \/ Goto("loop", afterApply(w), [m EXCEPT !.left = w])
                 \/ Goto("loop", "fail", m)
    BY <1>6 DEF UpsertApply
  <2> DEFINE v == [m EXCEPT !.left = w]
  <2>2. Keeps(v) /\ v.want = m.want /\ v.zone = m.zone /\ (Goto("loop", afterApply(w), v) \/ Goto("loop", "fail", m))
    BY <1>0, <2>1
  <2> HIDE DEF v
  <2>3. QED
    BY <1>g, <1>6, <2>1, <2>2 DEF afterApply, Updates, UpsertApply
<1>7. CASE DeleteList("loop") \/ DeleteErase("loop")
  <2>1. PICK d : \/ Goto("loop", afterErase(d), [m EXCEPT !.del = d])
                 \/ Goto("loop", "record", m)
    BY <1>7 DEF DeleteList, DeleteErase
  <2> DEFINE v == [m EXCEPT !.del = d]
  <2>2. Keeps(v) /\ v.want = m.want /\ v.zone = m.zone /\ (Goto("loop", afterErase(d), v) \/ Goto("loop", "record", m))
    BY <1>0, <2>1
  <2> HIDE DEF v
  <2>3. QED
    BY <1>g, <1>7, <2>1, <2>2 DEF afterErase, Updates, DeleteList, DeleteErase
<1>8. CASE Record("loop")
  BY <1>g, <1>8 DEF Record, Updates
<1>9. CASE Finish("loop")
  BY <1>g, <1>9 DEF Finish, Leave, Updates
<1>10. QED
  BY <1>0, <1>1, <1>2, <1>3, <1>3a, <1>4, <1>5, <1>6, <1>7, <1>8, <1>9 DEF Step, GetConfig

-----------------------------------------------------------------------------
(* NamesInv.  Visiting fewer configs and remembering fewer keeps it. *)
LEMMA NamesFewer ==
    ASSUME NamesInv, UNCHANGED <<configs, usedConfigs>>,
           DOMAIN lastRecords' \subseteq DOMAIN lastRecords,
           \A c \in Configs, n \in Names : Visits(c, n)' => Visits(c, n)
    PROVE  NamesInv'
BY DEF NamesInv, Remembered

(* A step within a visit adds no other. *)
LEMMA VisitsStep ==
    ASSUME OnlyLoop, TypeOK, WeightedInv, Step("loop")
    PROVE  \A c, n : Visits(c, n)' => Visits(c, n)
<1> DEFINE m == pass["loop"]
<1>0. UNCHANGED todo /\ pc["loop"] \notin {"idle", "next"}
  BY LoopStepShape
<1>1. PICK l, v : /\ Goto("loop", l, v)
                  /\ \/ l = "next"
                     \/ v.config = m.config /\ v.cfg = m.cfg
  BY LoopStepShape
<1>2. pc'["loop"] = l /\ pass'["loop"] = v
  BY <1>1, LoopFacts DEF Goto
<1>3. QED
  BY <1>0, <1>1, <1>2 DEF Visits

(* A config that was visited is remembered under a name that nothing else   *)
(* on the list has.                                                         *)
LEMMA NamesStep ==
    ASSUME OnlyLoop, TypeOK, WeightedInv, NamesInv, Step("loop")
    PROVE  NamesInv'
<1> DEFINE m == pass["loop"]
<1>0. /\ UNCHANGED <<configs, usedConfigs, todo>> /\ pc["loop"] \notin {"idle", "next"}
      /\ UNCHANGED lastRecords \/ Record("loop")
  BY LoopStepShape
<1>1. \A c \in Configs, n \in Names : Visits(c, n)' => Visits(c, n)
  BY VisitsStep
<1>2. CASE UNCHANGED lastRecords
  BY <1>0, <1>1, <1>2, NamesFewer
<1>3. CASE Record("loop")
  <2>1. DOMAIN lastRecords' = DOMAIN lastRecords \cup {m.config}
    BY <1>3 DEF Record, Put
  <2>2. m.config \in Configs /\ m.cfg.name \in Names /\ Visits(m.config, m.cfg.name)
    BY <1>0, LoopFacts DEF Visits
  <2>3. m.config \in usedConfigs
        /\ (m.config \in DOMAIN configs => configs[m.config].name = m.cfg.name)
    BY <2>2 DEF NamesInv
  <2>4. ASSUME NEW c \in Configs, NEW n \in Names, Visits(c, n),
               NEW d \in DOMAIN lastRecords' \cap DOMAIN configs, configs[d].name = n
        PROVE  d = c
    <3>1. CASE d = m.config
      BY <2>2, <2>3, <2>4, <3>1 DEF NamesInv
    <3>2. CASE d # m.config
      BY <2>1, <2>4, <3>2 DEF NamesInv, Remembered
    <3>3. QED
      BY <3>1, <3>2
  <2>5. QED
    BY <1>0, <1>1, <2>1, <2>3, <2>4 DEF NamesInv, Remembered
<1>4. QED
  BY <1>0, <1>2, <1>3

(* Going to the next config, or to the end, adds no visit. *)
LEMMA VisitsLoop ==
    ASSUME OnlyLoop, TypeOK, NextConfig \/ EndOfList
    PROVE  \A c, n : Visits(c, n)' => Visits(c, n)
<1>1. CASE NextConfig
  <2>1. PICK c \in DOMAIN todo :
           /\ Goto("loop", "backends", [NoPass EXCEPT !.config = c, !.cfg = todo[c]])
           /\ todo' = Drop(todo, {c})
    BY <1>1 DEF NextConfig
  <2>2. /\ pass'["loop"].config = c /\ pass'["loop"].cfg = todo[c]
        /\ pc["loop"] = "next"
    BY <1>1, <2>1, LoopFacts, NoPassType DEF Goto, PassType, NextConfig
  <2>3. DOMAIN todo' \subseteq DOMAIN todo /\ \A d \in DOMAIN todo' : todo'[d] = todo[d]
    BY <2>1 DEF Drop, Restrict
  <2>4. QED
    BY <2>2, <2>3 DEF Visits
<1>2. CASE EndOfList
  <2>1. pc["loop"] = "next" /\ pc'["loop"] = "idle" /\ UNCHANGED <<todo, pass>>
    BY <1>2, LoopFacts DEF EndOfList
  <2>2. QED
    BY <2>1 DEF Visits
<1>3. QED
  BY <1>1, <1>2

(* ReconcileOnce lists configs with different names, each under its own. *)
LEMMA NamesLoop ==
    ASSUME OnlyLoop, TypeOK, NamesInv, Tick \/ NextConfig \/ EndOfList
    PROVE  NamesInv'
<1>0. UNCHANGED <<configs, usedConfigs, lastRecords>>
  BY DEF Tick, NextConfig, EndOfList, storeVars
<1>1. CASE Tick
  <2>1. pc'["loop"] = "next" /\ todo' = configs
    BY <1>1, LoopFacts DEF Tick
  <2>2. \A c, n : Visits(c, n)' <=> c \in DOMAIN configs /\ configs[c].name = n
    BY <2>1 DEF Visits
  <2>3. DOMAIN configs \subseteq usedConfigs
    BY DEF TypeOK, StoreTypeOK
  <2>4. QED
    BY <1>0, <2>2, <2>3 DEF NamesInv, Remembered
<1>2. CASE NextConfig \/ EndOfList
  BY <1>0, <1>2, VisitsLoop, NamesFewer
<1>3. QED
  BY <1>1, <1>2

(* The name of a new config is not that of another config, and the new      *)
(* config is neither remembered nor on the list.                            *)
LEMMA NamesEnvironment ==
    ASSUME OnlyLoop, CleanUpdates, TypeOK, NamesInv, Environment
    PROVE  /\ NamesInv'
           /\ Remembered' \subseteq Remembered
           /\ \A c \in Remembered' : configs'[c].name = configs[c].name
<1>0. UNCHANGED <<pc, pass, todo, lastRecords>>
  BY DEF Environment, HandleCreateConfig, HandleUpdateConfig, HandleDeleteConfig,
         HandleAddBackend, HandleUpdateBackend, HandleDeleteBackend,
         HandleConfigureDNSProvider, HandleDeleteDNSProvider, HealthResult,
         triggerReconcile, noTrigger, OnlyLoop
<1>1. \A c, n : Visits(c, n)' <=> Visits(c, n)
  BY <1>0 DEF Visits
<1>2. CASE UNCHANGED <<configs, usedConfigs>>
  BY <1>0, <1>1, <1>2, NamesFewer DEF Remembered
<1>3. ASSUME NEW c \in Configs, NEW row \in ConfigInputs, CreateConfig(c, row)
      PROVE  /\ NamesInv' /\ Remembered' \subseteq Remembered
             /\ \A d \in Remembered' : configs'[d].name = configs[d].name
  <2>1. /\ c \notin usedConfigs /\ usedConfigs' = usedConfigs \cup {c}
        /\ DOMAIN configs' = DOMAIN configs \cup {c} /\ c \notin DOMAIN configs
        /\ \A d \in DOMAIN configs : configs'[d] = configs[d] /\ configs[d].name # row.name
        /\ configs'[c] = row
    BY <1>3 DEF CreateConfig, Put, NameIsFree, TypeOK, StoreTypeOK
  <2>2. c \notin DOMAIN lastRecords
    BY <2>1 DEF NamesInv
  <2>3. Remembered' = Remembered /\ \A d \in Remembered : configs'[d] = configs[d]
    BY <1>0, <2>1, <2>2 DEF Remembered
  <2>4. QED
    BY <1>0, <1>1, <2>1, <2>3 DEF NamesInv
<1>4. ASSUME NEW c \in DOMAIN configs, NEW row \in ConfigInputs, row.name = configs[c].name,
             UpdateConfig(c, row)
      PROVE  /\ NamesInv' /\ Remembered' \subseteq Remembered
             /\ \A d \in Remembered' : configs'[d].name = configs[d].name
  <2>1. /\ DOMAIN configs' = DOMAIN configs /\ UNCHANGED usedConfigs
        /\ \A d \in DOMAIN configs : configs'[d].name = configs[d].name
    BY <1>4 DEF UpdateConfig, Put
  <2>2. Remembered' = Remembered
    BY <1>0, <2>1 DEF Remembered
  <2>3. QED
    BY <1>0, <1>1, <2>1, <2>2 DEF NamesInv, Remembered
<1>5. ASSUME NEW c \in DOMAIN configs, DeleteConfig(c)
      PROVE  /\ NamesInv' /\ Remembered' \subseteq Remembered
             /\ \A d \in Remembered' : configs'[d].name = configs[d].name
  <2>1. /\ DOMAIN configs' = DOMAIN configs \ {c} /\ UNCHANGED usedConfigs
        /\ \A d \in DOMAIN configs' : configs'[d] = configs[d]
    BY <1>5 DEF DeleteConfig, Drop, Restrict
  <2>2. Remembered' \subseteq Remembered
    BY <1>0, <2>1 DEF Remembered
  <2>3. QED
    BY <1>0, <1>1, <2>1, <2>2 DEF NamesInv, Remembered
<1>6. QED
  <2>1. CASE HandleCreateConfig
    BY <1>3, <2>1 DEF HandleCreateConfig
  <2>2. CASE HandleUpdateConfig
    BY <1>4, <2>2 DEF HandleUpdateConfig, CleanUpdates
  <2>3. CASE HandleDeleteConfig
    BY <1>5, <2>3 DEF HandleDeleteConfig
  <2>4. CASE \/ HandleAddBackend \/ HandleUpdateBackend \/ HandleDeleteBackend
             \/ HandleConfigureDNSProvider \/ HandleDeleteDNSProvider \/ HealthResult
    BY <1>2, <2>4 DEF HandleAddBackend, HandleUpdateBackend, HandleDeleteBackend,
          HandleConfigureDNSProvider, HandleDeleteDNSProvider, HealthResult, CreateBackend,
          UpdateBackend, DeleteBackend, PutDNSProvider, DeleteDNSProvider, UpdateHealthState
  <2>5. QED
    BY <2>1, <2>2, <2>3, <2>4 DEF Environment

-----------------------------------------------------------------------------
(* AddressInv.  Backends with different addresses give each address once. *)
LEMMA extractIPsOnce ==
    ASSUME NEW rows, NEW bs, \A b, o \in bs : rows[b].ip = rows[o].ip => b = o
    PROVE  \A ip \in IPs : extractIPs(rows, bs)[ip] <= 1
<1> SUFFICES ASSUME NEW ip \in IPs PROVE extractIPs(rows, bs)[ip] <= 1
  OBVIOUS
<1> DEFINE S == {b \in bs : rows[b].ip = ip}
<1>1. S = {} \/ \E x : S = {x}
  OBVIOUS
<1>2. extractIPs(rows, bs)[ip] = Cardinality(S)
  BY DEF extractIPs
<1> HIDE DEF S
<1>3. Cardinality(S) \in {0, 1}
  BY <1>1, FS_EmptySet, FS_Singleton
<1>4. QED
  BY <1>2, <1>3

(* The backends that a pass reads have the addresses of the table. *)
LEMMA AddressStep ==
    ASSUME OnlyLoop, TypeOK, WeightedInv, AddressInv, Step("loop")
    PROVE  AddressInv'
<1> DEFINE m == pass["loop"]
<1>1. PICK l, v :
         /\ Goto("loop", l, v)
         /\ l = "states" => ReadBackends("loop")
         /\ v.want = m.want \/ v = NoPass \/ ReadStates("loop")
  BY LoopStepShape
<1>2. pc'["loop"] = l /\ pass'["loop"] = v
  BY <1>1, LoopFacts DEF Goto
<1>3. UNCHANGED backends
  BY LoopStepShape
<1>4. ASSUME l = "states"
      PROVE  \A b, o \in DOMAIN v.rows : v.rows[b].ip = v.rows[o].ip => b = o
  <2>1. v.rows = ListBackends(m.config)
    <3>1. /\ pc["loop"] = "backends"
          /\ \/ pass'["loop"] = [m EXCEPT !.rows = ListBackends(m.config)]
             \/ pc'["loop"] = "fail"
      BY <1>1, <1>4, LoopFacts DEF ReadBackends, Goto
    <3>2. [m EXCEPT !.rows = ListBackends(m.config)].rows = ListBackends(m.config)
      BY LoopFacts DEF PassType
    <3>3. QED
      BY <1>2, <1>4, <3>1, <3>2
  <2>2. QED
    BY <2>1 DEF AddressInv, ListBackends, BackendsOf
<1>5. \A ip \in IPs : v.want[ip] <= 1
  <2>1. CASE v.want = m.want
    BY <2>1 DEF AddressInv
  <2>2. CASE v = NoPass
    BY <2>2 DEF NoPass, NoIPs
  <2>3. CASE ReadStates("loop")
    <3> DEFINE healthy == healthyBackends(m.rows, GetHealthStates(m.config))
               bs == backendsForDNS(m.cfg.method, m.rows, healthy)
               w == [m EXCEPT !.want = extractIPs(m.rows, bs), !.rows = EmptyTable]
    <3>1. bs \subseteq DOMAIN m.rows
      BY DEF backendsForDNS, selectWeighted, healthyBackends
    <3>2. \A b, o \in DOMAIN m.rows : m.rows[b].ip = m.rows[o].ip => b = o
      BY <2>3 DEF AddressInv, ReadStates
    <3>3. w.want = extractIPs(m.rows, bs)
      BY LoopFacts DEF PassType
    <3>4. v = w \/ v = m
      BY <1>2, <2>3, LoopFacts DEF ReadStates, Goto
    <3> HIDE DEF bs, w
    <3>5. \A ip \in IPs : extractIPs(m.rows, bs)[ip] <= 1
      BY <3>1, <3>2, extractIPsOnce
    <3>6. CASE v = w
      BY <3>3, <3>5, <3>6
    <3>7. CASE v = m
      BY <3>7 DEF AddressInv
    <3>8. QED
      BY <3>4, <3>6, <3>7
  <2>4. QED
    BY <1>1, <2>1, <2>2, <2>3
<1>6. QED
  BY <1>2, <1>3, <1>4, <1>5 DEF AddressInv

(* Clients give an address to one backend of a config only. *)
LEMMA AddressEnvironment ==
    ASSUME OnlyLoop, CleanUpdates, TypeOK, AddressInv, Environment
    PROVE  AddressInv'
<1>0. UNCHANGED <<pc, pass>>
  BY DEF Environment, HandleCreateConfig, HandleUpdateConfig, HandleDeleteConfig,
         HandleAddBackend, HandleUpdateBackend, HandleDeleteBackend,
         HandleConfigureDNSProvider, HandleDeleteDNSProvider, HealthResult,
         triggerReconcile, noTrigger, OnlyLoop
<1> DEFINE Apart(t) == \A b, o \in DOMAIN t : t[b].config = t[o].config /\ t[b].ip = t[o].ip => b = o
<1>1. Apart(backends)
  BY DEF AddressInv
<1> SUFFICES Apart(backends')
  BY <1>0 DEF AddressInv
<1>2. CASE UNCHANGED backends
  BY <1>1, <1>2
<1>3. ASSUME NEW b, NEW row, \A o \in DOMAIN backends \ {b} :
                backends[o].config = row.config => backends[o].ip # row.ip,
             backends' = Put(backends, b, row)
      PROVE  Apart(backends')
  BY <1>1, <1>3 DEF Put
<1>4. ASSUME NEW bs, backends' = Drop(backends, bs)
      PROVE  Apart(backends')
  BY <1>1, <1>4 DEF Drop, Restrict
<1>5. CASE HandleAddBackend
  <2>1. PICK row \in BackendInputs : ipIsFree(0, row) /\ CreateBackend(row)
    BY <1>5 DEF HandleAddBackend, CleanUpdates
  <2>2. 0 \notin DOMAIN backends /\ lastBackend + 1 \notin DOMAIN backends
    <3>1. DOMAIN backends \subseteq Backends /\ \A b \in DOMAIN backends : b <= lastBackend
      BY TableDef DEF TypeOK, StoreTypeOK, Integrity
    <3>2. QED
      BY <3>1, StoreAssumption DEF StoreAssumption, Backends, TypeOK, StoreTypeOK
  <2>3. \A o \in DOMAIN backends : backends[o].config = row.config => backends[o].ip # row.ip
    BY <2>1, <2>2 DEF ipIsFree, BackendsOf
  <2>4. QED
    BY <1>3, <2>1, <2>3 DEF CreateBackend
<1>6. CASE HandleUpdateBackend
  <2>1. PICK b \in DOMAIN backends, row \in BackendInputs :
           ipIsFree(b, row) /\ UpdateBackend(b, row)
    BY <1>6 DEF HandleUpdateBackend, CleanUpdates
  <2>2. QED
    BY <1>3, <2>1 DEF ipIsFree, BackendsOf, UpdateBackend
<1>7. CASE HandleDeleteBackend \/ HandleDeleteConfig
  BY <1>4, <1>7 DEF HandleDeleteBackend, DeleteBackend, HandleDeleteConfig, DeleteConfig
<1>8. QED
  BY <1>2, <1>5, <1>6, <1>7 DEF Environment, HandleCreateConfig, HandleUpdateConfig,
     HandleConfigureDNSProvider, HandleDeleteDNSProvider, HealthResult, CreateConfig,
     UpdateConfig, PutDNSProvider, DeleteDNSProvider, UpdateHealthState

-----------------------------------------------------------------------------
(* CacheTruth follows: resolveProvider gives one of the zones. *)
LEMMA CacheTruthOfLoop ==
    ASSUME Passes = {"loop"}, TypeOK, ZonesInv, ConfigTruth
    PROVE  CacheTruth
<1> SUFFICES ASSUME NEW c \in DOMAIN configs \cap DOMAIN lastRecords,
                    resolveProvider(c) # NoProvider, ~Updating("loop", PlaceOf(c))
             PROVE  Published(PlaceOf(c)) = Set(lastRecords[c])
  BY DEF CacheTruth
<1> DEFINE z == resolveProvider(c)
<1>1. z \in ZonesOf(c) /\ PlaceOf(c) = <<z, configs[c].name>>
  BY ResolvedZone DEF PlaceOf
<1> HIDE DEF z
<1>2. ~Busy(z, configs[c].name)
  BY <1>1 DEF Busy, Updating, Updates
<1>3. QED
  BY <1>1, <1>2 DEF ConfigTruth, Remembered

(* The truth about the zones is kept by a step outside an update that       *)
(* leaves them alone, and by a step within an update that changes the       *)
(* records of its name in its zone only.                                    *)
LEMMA TruthKept ==
    ASSUME OnlyLoop, TypeOK, ZoneTruth, UNCHANGED <<configs, lastRecords>>,
           \A c, n : Visits(c, n)' => Visits(c, n),
           NEW l, NEW v, Goto("loop", l, v),
           \/ pc["loop"] \notin Updates /\ UNCHANGED dns
           \/ /\ pc["loop"] \in Updates /\ l \in Updates /\ place(v) = place(pass["loop"])
              /\ \A n \in Places \ {place(pass["loop"])} : dns'[n] = dns[n]
    PROVE  ZoneTruth'
<1>1. pc'["loop"] = l /\ pass'["loop"] = v
  BY LoopFacts DEF Goto
<1>2. \A c \in DOMAIN configs : configs[c].name \in Names
  BY LoopFacts
<1>3. \A z, n : Busy(z, n)' <=> l \in Updates /\ place(v) = <<z, n>>
  BY <1>1 DEF Busy, Updates, place
<1>4. \A z \in Zones, n \in Names : ~Busy(z, n)' =>
         ~Busy(z, n) /\ {ip \in IPs : dns'[<<z, n>>][ip] # 0} = Published(<<z, n>>)
  <2> SUFFICES ASSUME NEW z \in Zones, NEW n \in Names, ~Busy(z, n)'
               PROVE  ~Busy(z, n) /\ dns'[<<z, n>>] = dns[<<z, n>>]
    BY DEF Published
  <2>1. <<z, n>> \in Places
    BY DEF Places
  <2>2. QED
    BY <1>3, <2>1 DEF Busy
<1>5. \A c : ZonesOf(c) \subseteq Zones
  BY DEF ZonesOf
<1>6. ConfigTruth'
  <2>1. \A c \in Remembered : \A z \in ZonesOf(c) : ~Busy(z, configs[c].name)' =>
          {ip \in IPs : dns'[<<z, configs[c].name>>][ip] # 0} = Set(lastRecords[c])
    BY <1>2, <1>4, <1>5 DEF ZoneTruth, ConfigTruth, Remembered
  <2>2. QED
    BY <2>1 DEF ConfigTruth, Remembered, Published, Busy, place, Set
<1>7. VisitedTruth'
  <2>1. \A c \in DOMAIN lastRecords, n \in Names : \A z \in ZonesOf(c) :
          Visits(c, n) /\ ~Busy(z, n)' =>
            {ip \in IPs : dns'[<<z, n>>][ip] # 0} = Set(lastRecords[c])
    BY <1>4, <1>5 DEF ZoneTruth, VisitedTruth
  <2>2. QED
    BY <2>1 DEF VisitedTruth, Published, Busy, place, Set
<1>8. QED
  BY <1>6, <1>7 DEF ZoneTruth

(* The zone of the loop's pass comes from resolveProvider. *)
LEMMA ZonesStep ==
    ASSUME OnlyLoop, TypeOK, WeightedInv, ZonesInv, Step("loop")
    PROVE  ZonesInv'
<1> DEFINE m == pass["loop"]
<1>1. PICK l, v :
         /\ Goto("loop", l, v)
         /\ (l = "next" /\ v = NoPass) \/ v.config = m.config
         /\ l \in {"list", "dlist"} => Resolve("loop")
         /\ l \in Updates => /\ pc["loop"] \in {"list", "dlist"} \cup Updates
                             /\ v.zone = m.zone
  BY LoopStepShape
<1>2. pc'["loop"] = l /\ pass'["loop"] = v /\ UNCHANGED providers
  BY <1>1, LoopFacts, LoopStepShape DEF Goto
<1>3. ASSUME l \in {"list", "dlist"} \cup Updates
      PROVE  v.zone \in ZonesOf(v.config)
  <2>1. v.config = m.config
    BY <1>1, <1>3 DEF Updates
  <2>2. CASE l \in Updates
    BY <1>1, <2>1, <2>2 DEF ZonesInv
  <2>3. CASE l \in {"list", "dlist"}
    <3>1. PICK z : /\ z \in Zones /\ z \in {resolveProvider(m.config), Fallback}
                   /\ v = [m EXCEPT !.zone = z]
      BY <1>1, <1>2, <2>3, LoopFacts DEF Resolve, UpdateWith, Goto
    <3>2. v.zone = z
      BY <3>1, LoopFacts DEF PassType
    <3>3. NoProvider \notin Zones
      BY StoreAssumption DEF StoreAssumption, NoProvider
    <3>4. z \in ZonesOf(m.config)
      BY <3>1, <3>3, ResolvedZone DEF ZonesOf
    <3>5. QED
      BY <2>1, <3>2, <3>4
  <2>4. QED
    BY <1>3, <2>2, <2>3
<1>4. QED
  BY <1>2, <1>3 DEF ZonesInv, Updates

(* Clients give a config one of its zones. *)
LEMMA ZonesEnvironment ==
    ASSUME OnlyLoop, TypeOK, ZonesInv, Environment
    PROVE  ZonesInv'
<1>0. UNCHANGED <<pc, pass>>
  BY DEF Environment, HandleCreateConfig, HandleUpdateConfig, HandleDeleteConfig,
         HandleAddBackend, HandleUpdateBackend, HandleDeleteBackend,
         HandleConfigureDNSProvider, HandleDeleteDNSProvider, HealthResult,
         triggerReconcile, noTrigger, OnlyLoop
<1>1. CASE UNCHANGED providers
  BY <1>0, <1>1 DEF ZonesInv
<1>2. CASE HandleDeleteConfig \/ HandleDeleteDNSProvider
  <2>1. PICK c : providers' = Drop(providers, {c})
    BY <1>2 DEF HandleDeleteConfig, DeleteConfig, HandleDeleteDNSProvider, DeleteDNSProvider
  <2>2. QED
    BY <1>0, <2>1 DEF ZonesInv, Drop, Restrict
<1>3. CASE HandleConfigureDNSProvider
  <2>1. PICK row \in ProviderInputs : providers' = Put(providers, row.config, row.provider)
    BY <1>3 DEF HandleConfigureDNSProvider, PutDNSProvider
  <2>2. row = [config |-> row.config, provider |-> row.provider]
    BY ReconcilerAssumption DEF ReconcilerAssumption
  <2>3. QED
    BY <1>0, <2>1, <2>2 DEF ZonesInv, Put
<1>4. QED
  BY <1>1, <1>2, <1>3 DEF Environment, HandleCreateConfig, HandleUpdateConfig,
     HandleAddBackend, HandleUpdateBackend, HandleDeleteBackend, HealthResult, CreateConfig,
     UpdateConfig, CreateBackend, UpdateBackend, DeleteBackend, UpdateHealthState

(* UpdateInv constrains a pass only while it updates. *)
LEMMA UpdateElsewhere ==
    ASSUME pc'["loop"] \notin Updates PROVE UpdateInv'
BY DEF UpdateInv, Updates

(* Steps outside an update leave the zone alone. *)
LEMMA OutsideStep ==
    ASSUME OnlyLoop, CleanUpdates, TypeOK, WeightedInv, ZoneTruth,
           \/ ReadBackends("loop") \/ ReadStates("loop") \/ Decide("loop") \/ Resolve("loop")
           \/ Finish("loop")
    PROVE  UpdateInv' /\ ZoneTruth'
<1>0. \A c, n : Visits(c, n)' => Visits(c, n)
  BY VisitsStep DEF Step
<1>1. /\ pc["loop"] \notin Updates /\ UNCHANGED <<dns, configs, lastRecords>>
  BY DEF ReadBackends, ReadStates, Decide, Resolve, Finish, SetConfigReconcileError,
         storeVars, Updates
<1>2. PICK l, v : Goto("loop", l, v) /\ l \notin Updates
  <2>1. CASE ReadBackends("loop")
    BY <2>1 DEF ReadBackends, Updates
  <2>2. CASE ReadStates("loop")
    BY <2>2 DEF ReadStates, Updates
  <2>3. CASE Decide("loop") \/ Resolve("loop")
    BY <2>3 DEF Decide, Resolve, UpdateWith, Updates
  <2>4. CASE Finish("loop")
    BY <2>4 DEF Finish, Leave, Updates
  <2>5. QED
    BY <2>1, <2>2, <2>3, <2>4
<1>3. pc'["loop"] = l
  BY <1>2, LoopFacts DEF Goto
<1>4. QED
  BY <1>0, <1>1, <1>2, <1>3, TruthKept, UpdateElsewhere

(* The listing of an upsert gives it the ids of all records there are. *)
LEMMA ListStep ==
    ASSUME OnlyLoop, CleanUpdates, TypeOK, WeightedInv, ZoneTruth, UpsertList("loop")
    PROVE  UpdateInv' /\ ZoneTruth'
<1> DEFINE m == pass["loop"]
           n == place(m)
           del == Published(n) \ Set(m.want)
           v == [m EXCEPT !.found = dns[n], !.del = del, !.left = m.want]
<1>0. \A c, x : Visits(c, x)' => Visits(c, x)
  BY VisitsStep DEF Step
<1>1. pc["loop"] \notin Updates /\ UNCHANGED <<dns, configs, lastRecords>>
  BY DEF UpsertList, ApiList, noWrite, storeVars, Updates
<1>2. CASE Goto("loop", "fail", m)
  <2>1. pc'["loop"] = "fail"
    BY <1>2, LoopFacts DEF Goto
  <2>2. QED
    BY <1>0, <1>1, <1>2, <2>1, TruthKept, UpdateElsewhere DEF Updates
<1>3. CASE Goto("loop", afterPrune(del), v) /\ ApiList("loop", n)
  <2>1. v.cfg = m.cfg /\ v.want = m.want /\ v.found = dns[n] /\ v.del = del /\ place(v) = n
    BY LoopFacts DEF PassType, place
  <2>2. pass'["loop"] = v /\ pc'["loop"] = afterPrune(del) /\ ids'["loop"] = Published(n)
    BY <1>3, LoopFacts DEF Goto, ApiList
  <2> HIDE DEF v
  <2>3. UpdateInv'
    BY <2>1, <2>2, LoopFacts DEF UpdateInv, afterPrune, Published, Set
  <2>4. ZoneTruth'
    BY <1>0, <1>1, <1>3, TruthKept
  <2>5. QED
    BY <2>3, <2>4
<1>4. QED
  BY <1>2, <1>3 DEF UpsertList, unwanted

(* A record that is to be deleted is still there: the deletion succeeds. *)
LEMMA PruneStep ==
    ASSUME OnlyLoop, CleanUpdates, TypeOK, UpsertInv, WeightedInv, UpdateInv, ZoneTruth,
           UpsertPrune("loop")
    PROVE  UpdateInv' /\ ZoneTruth'
<1> DEFINE m == pass["loop"]
           n == place(m)
<1>0. pc["loop"] = "prune" /\ UNCHANGED <<configs, lastRecords>>
      /\ \A c, x : Visits(c, x)' => Visits(c, x)
  BY VisitsStep DEF Step, UpsertPrune, storeVars
<1>1. m.del \subseteq ids["loop"] /\ \A ip \in Set(m.want) : m.found[ip] # 0 => ip \in ids["loop"]
  BY <1>0 DEF UpdateInv
<1>2. m.del \cap Set(m.want) = {}
  BY <1>0 DEF WeightedInv, UpsertInv, MidUpsert, Pruning
<1>3. PICK ip \in m.del :
         /\ Goto("loop", afterPrune(m.del \ {ip}), [m EXCEPT !.del = m.del \ {ip}])
         /\ ApiDelete("loop", n, ip)
  BY <1>1 DEF UpsertPrune, CleanUpdates, Fault
<1> DEFINE v == [m EXCEPT !.del = m.del \ {ip}]
<1>4. /\ v.cfg = m.cfg /\ v.want = m.want /\ v.found = m.found /\ v.del = m.del \ {ip}
      /\ place(v) = n
  BY LoopFacts DEF PassType, place
<1>5. /\ pass'["loop"] = v /\ pc'["loop"] = afterPrune(m.del \ {ip})
      /\ ids'["loop"] = ids["loop"] \ {ip}
      /\ \A x \in Places \ {n} : dns'[x] = dns[x]
  BY <1>3, LoopFacts DEF Goto, ApiDelete, Write
<1>6. Goto("loop", afterPrune(m.del \ {ip}), v)
  BY <1>3
<1> HIDE DEF v
<1>7. UpdateInv'
  BY <1>1, <1>2, <1>4, <1>5 DEF UpdateInv, afterPrune, Set
<1>8. afterPrune(m.del \ {ip}) \in Updates /\ pc["loop"] \in Updates
  BY <1>0 DEF afterPrune, Updates
<1>9. ZoneTruth'
  BY <1>0, <1>4, <1>5, <1>6, <1>8, TruthKept
<1>10. QED
  BY <1>7, <1>9

(* A record that exists is updated by its id, one that does not exist is    *)
(* created once: no write is refused.                                       *)
LEMMA ApplyStep ==
    ASSUME OnlyLoop, CleanUpdates, TypeOK, UpsertInv, WeightedInv, AddressInv, UpdateInv,
           ZoneTruth, UpsertApply("loop")
    PROVE  UpdateInv' /\ ZoneTruth'
<1> DEFINE m == pass["loop"]
           n == place(m)
           left(ip) == [m.left EXCEPT ![ip] = @ - 1]
<1>0. pc["loop"] = "apply" /\ UNCHANGED <<configs, lastRecords>>
      /\ \A c, x : Visits(c, x)' => Visits(c, x)
  BY VisitsStep DEF Step, UpsertApply, storeVars
<1>1. m.del \subseteq ids["loop"] /\ \A ip \in Set(m.want) : m.found[ip] # 0 => ip \in ids["loop"]
  BY <1>0 DEF UpdateInv
<1>2. Applying("loop") /\ "loop" \in undisturbed
  BY <1>0 DEF WeightedInv, UpsertInv, MidUpsert
<1>3. \A ip \in Set(m.left) : /\ ip \in Set(m.want)
                              /\ m.found[ip] = 0 => dns[n][ip] = 0
  <2> SUFFICES ASSUME NEW ip \in Set(m.left)
               PROVE  ip \in Set(m.want) /\ (m.found[ip] = 0 => dns[n][ip] = 0)
    OBVIOUS
  <2>1. /\ ip \in IPs /\ m.left[ip] \in Nat /\ m.want[ip] \in Nat /\ m.left[ip] > 0
        /\ m.left[ip] <= m.want[ip] /\ m.want[ip] <= 1
    BY <1>2, LoopFacts DEF Set, Applying, AddressInv
  <2>2. m.left[ip] = m.want[ip] /\ ip \in Set(m.want)
    BY <2>1 DEF Set
  <2>3. QED
    BY <1>2, <2>1, <2>2 DEF Applying
<1>4. PICK ip \in Set(m.left) :
         /\ Goto("loop", afterApply(left(ip)), [m EXCEPT !.left = left(ip)])
         /\ noWrite \/ ApiPut("loop", n, ip, m.cfg.ttl)
  BY <1>1, <1>3 DEF UpsertApply, CleanUpdates, Fault
<1> DEFINE v == [m EXCEPT !.left = left(ip)]
<1>5. /\ v.cfg = m.cfg /\ v.want = m.want /\ v.found = m.found /\ v.del = m.del
      /\ place(v) = n
  BY LoopFacts DEF PassType, place
<1>6. /\ pass'["loop"] = v /\ pc'["loop"] = afterApply(left(ip))
      /\ ids'["loop"] = ids["loop"] /\ "loop" \in undisturbed'
      /\ \A x \in Places \ {n} : dns'[x] = dns[x]
  BY <1>2, <1>4, LoopFacts DEF Goto, ApiPut, Write, noWrite
<1>7. Goto("loop", afterApply(left(ip)), v)
  BY <1>4
<1> HIDE DEF v, left
<1>8. ASSUME pc'["loop"] = "record"
      PROVE  {x \in IPs : dns'[n][x] # 0} = Set(m.want)
  <2>1. UpsertInv'
    <3>1. "loop" \in Passes
      BY DEF Passes
    <3>2. QED
      BY <3>1, UpsertApplyUpsert
  <2>2. Applied("loop")'
    BY <1>3, <1>5, <1>6, <1>8, <2>1 DEF UpsertInv, MidUpsert, Set
  <2>3. m.cfg.ttl # 0
    BY LoopFacts, StoreAssumption DEF StoreAssumption
  <2>4. QED
    BY <1>5, <1>6, <2>2, <2>3 DEF Applied, Set
<1>9. UpdateInv'
  BY <1>1, <1>5, <1>6, <1>8 DEF UpdateInv, afterApply, Set, Published
<1>10. afterApply(left(ip)) \in Updates /\ pc["loop"] \in Updates
  BY <1>0 DEF afterApply, Updates
<1>11. ZoneTruth'
  BY <1>0, <1>5, <1>6, <1>7, <1>10, TruthKept
<1>12. QED
  BY <1>9, <1>11

(* DeleteRecord deletes all that it listed. *)
LEMMA EraseStep ==
    ASSUME OnlyLoop, CleanUpdates, TypeOK, UpsertInv, WeightedInv, UpdateInv, ZoneTruth,
           DeleteList("loop") \/ DeleteErase("loop")
    PROVE  UpdateInv' /\ ZoneTruth'
<1> DEFINE m == pass["loop"]
           n == place(m)
<1>0. Set(m.want) = {} /\ UNCHANGED <<configs, lastRecords>>
      /\ \A c, x : Visits(c, x)' => Visits(c, x)
  BY LoopFacts, VisitsStep DEF Step, UpsertInv, DeleteList, DeleteErase, storeVars
<1>1. PICK d : /\ Goto("loop", afterErase(d), [m EXCEPT !.del = d])
               /\ d \subseteq ids'["loop"] /\ {x \in IPs : dns'[n][x] # 0} = d
               /\ (pc["loop"] \notin Updates /\ UNCHANGED dns) \/ pc["loop"] \in Updates
               /\ \A x \in Places \ {n} : dns'[x] = dns[x]
  <2>1. CASE DeleteList("loop")
    <3>1. Goto("loop", afterErase(Published(n)), [m EXCEPT !.del = Published(n)])
          /\ ApiList("loop", n) /\ pc["loop"] = "dlist"
      BY <2>1 DEF DeleteList, CleanUpdates, Fault
    <3>2. ids'["loop"] = Published(n) /\ UNCHANGED dns
      BY <3>1, LoopFacts DEF ApiList
    <3>3. QED
      BY <3>1, <3>2 DEF Published, Updates
  <2>2. CASE DeleteErase("loop")
    <3>1. pc["loop"] = "erase" /\ m.del \subseteq ids["loop"] /\ Published(n) = m.del
      BY <2>2 DEF DeleteErase, UpdateInv
    <3>2. PICK ip \in m.del :
             /\ Goto("loop", afterErase(m.del \ {ip}), [m EXCEPT !.del = m.del \ {ip}])
             /\ ApiDelete("loop", n, ip)
      BY <2>2, <3>1 DEF DeleteErase, CleanUpdates, Fault
    <3>3. /\ ids'["loop"] = ids["loop"] \ {ip}
          /\ \A x \in Places \ {n} : dns'[x] = dns[x]
          /\ \A x \in IPs : dns'[n][x] = IF x = ip THEN 0 ELSE dns[n][x]
      BY <3>2, LoopFacts DEF ApiDelete, Write
    <3>4. {x \in IPs : dns'[n][x] # 0} = m.del \ {ip}
      BY <3>1, <3>3 DEF Published
    <3>5. QED
      BY <3>1, <3>2, <3>3, <3>4 DEF Updates
  <2>3. QED
    BY <2>1, <2>2
<1> DEFINE v == [m EXCEPT !.del = d]
<1>2. v.cfg = m.cfg /\ v.want = m.want /\ v.del = d /\ place(v) = n
  BY LoopFacts DEF PassType, place
<1>3. pass'["loop"] = v /\ pc'["loop"] = afterErase(d) /\ Goto("loop", afterErase(d), v)
  BY <1>1, LoopFacts DEF Goto
<1> HIDE DEF v
<1>4. UpdateInv'
  BY <1>0, <1>1, <1>2, <1>3 DEF UpdateInv, afterErase, Set, Published
<1>5. afterErase(d) \in Updates
  BY DEF afterErase, Updates
<1>6. ZoneTruth'
  BY <1>0, <1>1, <1>2, <1>3, <1>5, TruthKept
<1>7. QED
  BY <1>4, <1>6

(* What is remembered of the config is what its update left, and no other   *)
(* config has its name that is remembered or listed.                        *)
LEMMA RecordStep ==
    ASSUME OnlyLoop, CleanUpdates, TypeOK, WeightedInv, NamesInv, UpdateInv, ZonesInv, ZoneTruth,
           Record("loop")
    PROVE  UpdateInv' /\ ZoneTruth'
<1> DEFINE m == pass["loop"]
           n == m.cfg.name
<1>0. /\ pc["loop"] = "record" /\ UNCHANGED <<configs, dns>>
      /\ lastRecords' = Put(lastRecords, m.config, m.want)
      /\ Published(<<m.zone, n>>) = Set(m.want)
  BY DEF Record, storeVars, UpdateInv, place
<1>1. pc'["loop"] = "finish"
  BY LoopFacts DEF Record, Goto
<1>2. Visits(m.config, n) /\ m.config \in Configs /\ n \in Names
  BY <1>0, LoopFacts DEF Visits
<1>3. ASSUME NEW c \in DOMAIN lastRecords', NEW k \in Names, NEW z \in ZonesOf(c),
             \/ Visits(c, k)
             \/ c \in DOMAIN configs /\ configs[c].name = k
      PROVE  Published(<<z, k>>) = Set(lastRecords'[c])
  <2>0. c \in Configs
    BY <1>0, <1>2, <1>3, LoopFacts DEF Put, TypeOK, RecTypeOK
  <2>1. CASE c = m.config
    <3>1. k = n /\ lastRecords'[c] = m.want
      BY <1>0, <1>2, <1>3, <2>0, <2>1 DEF NamesInv, Put
    <3>2. m.zone \in ZonesOf(c)
      BY <1>0, <2>1 DEF ZonesInv, Updates
    <3>3. z = m.zone
      BY <2>0, <3>2 DEF CleanUpdates, FixedZones, AtMostOne
    <3>4. QED
      BY <1>0, <3>1, <3>3
  <2>2. CASE c # m.config
    <3>1. c \in DOMAIN lastRecords /\ lastRecords'[c] = lastRecords[c]
      BY <1>0, <1>3, <2>2 DEF Put
    <3>2. k # n
      BY <1>2, <1>3, <2>0, <2>2, <3>1 DEF NamesInv, Remembered
    <3>3. ~Busy(z, k)
      BY <3>2 DEF Busy, place
    <3>4. CASE Visits(c, k)
      BY <3>1, <3>3, <3>4 DEF ZoneTruth, VisitedTruth
    <3>5. CASE c \in DOMAIN configs /\ configs[c].name = k
      BY <3>1, <3>3, <3>5 DEF ZoneTruth, ConfigTruth, Remembered
    <3>6. QED
      BY <1>3, <3>1, <3>4, <3>5
  <2>3. QED
    BY <2>1, <2>2
<1>4. ConfigTruth'
  <2>1. \A c \in DOMAIN configs : configs[c].name \in Names
    BY LoopFacts
  <2>2. QED
    BY <1>0, <1>3, <2>1 DEF ConfigTruth, Remembered, Published
<1>5. VisitedTruth'
  <2>1. \A c, k : Visits(c, k)' => Visits(c, k)
    BY VisitsStep DEF Step
  <2>2. QED
    BY <1>0, <1>3, <2>1 DEF VisitedTruth, Published
<1>6. QED
  BY <1>1, <1>4, <1>5, UpdateElsewhere DEF Updates, ZoneTruth

-----------------------------------------------------------------------------
(* Nothing is remembered at first. *)
LEMMA CacheInvInit == Init => CacheInv
<1>1. "loop" \in Passes /\ NoPass.want = NoIPs /\ \A ip \in IPs : NoIPs[ip] = 0
  BY DEF Passes, NoPass, NoIPs
<1> SUFFICES ASSUME Init PROVE CacheInv
  OBVIOUS
<1>2. /\ DOMAIN configs = {} /\ DOMAIN lastRecords = {} /\ DOMAIN todo = {}
      /\ DOMAIN backends = {} /\ DOMAIN providers = {}
      /\ pc["loop"] = "idle" /\ pass["loop"] = NoPass
  BY <1>1 DEF Init, StoreInit, RecInit, EmptyTable
<1>3. NamesInv
  BY <1>2 DEF NamesInv, Visits
<1>4. AddressInv
  BY <1>1, <1>2 DEF AddressInv
<1>5. UpdateInv
  BY <1>2 DEF UpdateInv
<1>6. ZoneTruth
  BY <1>2 DEF ZoneTruth, ConfigTruth, Remembered, VisitedTruth
<1>7. ZonesInv
  BY <1>2 DEF ZonesInv, Updates
<1>8. QED
  BY <1>3, <1>4, <1>5, <1>6, <1>7 DEF CacheInv

(* Every step keeps the invariant. *)
LEMMA CacheInvNext ==
    ASSUME OnlyLoop, CleanUpdates, TypeOK, UpsertInv, WeightedInv, CacheInv, [Next]_vars
    PROVE  CacheInv'
<1>0. NamesInv /\ AddressInv /\ UpdateInv /\ ZonesInv /\ ZoneTruth
  BY DEF CacheInv
<1>1. CASE UNCHANGED vars
  BY <1>0, <1>1 DEF vars, recVars, storeVars, CacheInv, NamesInv, AddressInv, UpdateInv, ZonesInv,
                    ZoneTruth, ConfigTruth, VisitedTruth, Visits, Remembered, Set, Published, Busy,
                    place
<1>2. CASE Tick \/ NextConfig \/ EndOfList
  <2>1. NamesInv'
    BY <1>0, <1>2, NamesLoop
  <2>2. UNCHANGED <<dns, configs, lastRecords, backends, providers>> /\ pc["loop"] \notin Updates
    BY <1>2 DEF Tick, NextConfig, EndOfList, storeVars, Updates
  <2>3. PICK l, v :
           /\ l \in {"next", "backends", "idle"}
           /\ Goto("loop", l, v)
           /\ \A ip \in IPs : v.want[ip] <= 1
    <3>1. CASE Tick \/ EndOfList
      <4>1. pass = [pass EXCEPT !["loop"] = pass["loop"]]
        BY DEF TypeOK, RecTypeOK
      <4>2. \E l \in {"next", "idle"} : Goto("loop", l, pass["loop"])
        BY <3>1, <4>1 DEF Tick, EndOfList, Goto
      <4>3. QED
        BY <1>0, <4>2 DEF AddressInv
    <3>2. CASE NextConfig
      <4>1. PICK c : Goto("loop", "backends", [NoPass EXCEPT !.config = c, !.cfg = todo[c]])
        BY <3>2 DEF NextConfig
      <4> DEFINE v == [NoPass EXCEPT !.config = c, !.cfg = todo[c]]
      <4>2. v.want = NoIPs /\ Goto("loop", "backends", v)
        BY <4>1 DEF NoPass
      <4> HIDE DEF v
      <4>3. \A ip \in IPs : v.want[ip] <= 1
        BY <4>2 DEF NoIPs
      <4>4. QED
        BY <4>2, <4>3
    <3>3. QED
      BY <1>2, <3>1, <3>2
  <2>4. pc'["loop"] = l /\ pass'["loop"] = v
    BY <2>3, LoopFacts DEF Goto
  <2>5. AddressInv'
    BY <1>0, <2>2, <2>3, <2>4 DEF AddressInv
  <2>6. UpdateInv'
    BY <2>3, <2>4, UpdateElsewhere DEF Updates
  <2>7. ZoneTruth'
    <3>1. CASE Tick
      <4>1. pc'["loop"] = "next" /\ todo' = configs
        BY <3>1, LoopFacts DEF Tick
      <4>2. \A c, n : Visits(c, n)' <=> c \in DOMAIN configs /\ configs[c].name = n
        BY <4>1 DEF Visits
      <4>3. \A c \in DOMAIN configs \cap DOMAIN lastRecords : \A z \in ZonesOf(c) :
               Published(<<z, configs[c].name>>) = Set(lastRecords[c])
        BY <1>0, <2>2 DEF ZoneTruth, ConfigTruth, Remembered, Busy
      <4>4. ConfigTruth'
        BY <2>2, <4>3 DEF ConfigTruth, Remembered, Published
      <4>5. VisitedTruth'
        BY <2>2, <4>2, <4>3 DEF VisitedTruth, Published
      <4>6. QED
        BY <4>4, <4>5 DEF ZoneTruth
    <3>2. CASE NextConfig \/ EndOfList
      BY <1>0, <2>2, <2>3, <3>2, VisitsLoop, TruthKept
    <3>3. QED
      BY <1>2, <3>1, <3>2
  <2>8. ZonesInv'
    BY <1>0, <2>2, <2>3, <2>4 DEF ZonesInv, Updates
  <2>9. QED
    BY <2>1, <2>5, <2>6, <2>7, <2>8 DEF CacheInv
<1>3. CASE Step("loop")
  <2>1. NamesInv' /\ AddressInv' /\ ZonesInv'
    BY <1>0, <1>3, NamesStep, AddressStep, ZonesStep
  <2>2. ~GetConfig("loop")
    BY DEF GetConfig, WeightedInv
  <2>3. UpdateInv' /\ ZoneTruth'
    BY <1>0, <1>3, <2>2, OutsideStep, ListStep, PruneStep, ApplyStep, EraseStep, RecordStep
       DEF Step
  <2>4. QED
    BY <2>1, <2>3 DEF CacheInv
<1>4. CASE Environment
  <2>1. /\ NamesInv' /\ Remembered' \subseteq Remembered
        /\ \A c \in Remembered' : configs'[c].name = configs[c].name
    BY <1>0, <1>4, NamesEnvironment
  <2>2. AddressInv'
    BY <1>0, <1>4, AddressEnvironment
  <2>3. UNCHANGED <<pc, pass, ids, dns, lastRecords, todo>>
    BY <1>4 DEF Environment, HandleCreateConfig, HandleUpdateConfig, HandleDeleteConfig,
         HandleAddBackend, HandleUpdateBackend, HandleDeleteBackend,
         HandleConfigureDNSProvider, HandleDeleteDNSProvider, HealthResult,
         triggerReconcile, noTrigger, OnlyLoop
  <2>4. UpdateInv'
    BY <1>0, <2>3 DEF UpdateInv, Set, Published, place
  <2>5. ZoneTruth'
    <3>1. ConfigTruth'
      BY <1>0, <2>1, <2>3 DEF ZoneTruth, ConfigTruth, Busy, place, Published, Set, Remembered
    <3>2. VisitedTruth'
      BY <1>0, <2>3 DEF ZoneTruth, VisitedTruth, Visits, Busy, place, Published, Set
    <3>3. QED
      BY <3>1, <3>2 DEF ZoneTruth
  <2>6. ZonesInv'
    BY <1>0, <1>4, ZonesEnvironment
  <2>7. QED
    BY <2>1, <2>2, <2>4, <2>5, <2>6 DEF CacheInv
<1>5. CASE Restart
  <2>1. /\ UNCHANGED <<configs, usedConfigs, backends, providers, dns>>
        /\ DOMAIN lastRecords' = {} /\ DOMAIN todo' = {}
        /\ pc'["loop"] = "idle" /\ pass'["loop"] = NoPass
    BY <1>5 DEF Restart, storeVars, EmptyTable, Passes
  <2>2. NoPass.want = NoIPs /\ \A ip \in IPs : NoIPs[ip] = 0
    BY DEF NoPass, NoIPs
  <2>3. NamesInv'
    BY <1>0, <2>1 DEF NamesInv, Visits
  <2>4. AddressInv'
    BY <1>0, <2>1, <2>2 DEF AddressInv
  <2>5. UpdateInv'
    BY <2>1, UpdateElsewhere DEF Updates
  <2>6. ZoneTruth'
    BY <2>1 DEF ZoneTruth, ConfigTruth, Remembered, VisitedTruth
  <2>7. ZonesInv'
    BY <1>0, <2>1 DEF ZonesInv, Updates
  <2>8. QED
    BY <2>3, <2>4, <2>5, <2>6, <2>7 DEF CacheInv
<1>6. QED
  BY <1>1, <1>2, <1>3, <1>4, <1>5, LoopFacts DEF Next

(* At needsUpdate of the loop a cache entry speaks of the name visited.     *)
LEMMA SuppressedHolds ==
    ASSUME OnlyLoop, TypeOK, CacheInv
    PROVE  SuppressedOnlyWhenActive /\ NXDOMAINWhenNoneHealthy
<1> DEFINE m == pass["loop"]
<1>1. Passes = {"loop"} /\ m.cfg.name \in Names
  BY LoopFacts
<1>2. ASSUME pc["loop"] = "decide", m.config \in DOMAIN lastRecords, NEW z \in ZonesOf(m.config)
      PROVE  Published(<<z, m.cfg.name>>) = Set(lastRecords[m.config])
  <2>1. Visits(m.config, m.cfg.name) /\ ~Busy(z, m.cfg.name)
    BY <1>2 DEF Visits, Busy, Updates
  <2>2. QED
    BY <1>1, <1>2, <2>1 DEF CacheInv, ZoneTruth, VisitedTruth
<1>3. SuppressedOnlyWhenActive
  <2>1. resolveProvider(m.config) \in ZonesOf(m.config) \cup {NoProvider}
    BY ResolvedZone DEF CacheInv
  <2>2. QED
    BY <1>1, <1>2, <2>1 DEF SuppressedOnlyWhenActive, needsUpdate
<1>4. NXDOMAINWhenNoneHealthy
  BY <1>1 DEF NXDOMAINWhenNoneHealthy, CacheInv, UpdateInv
<1>5. QED
  BY <1>3, <1>4

(* All invariants hold together. *)
LEMMA CacheInvariant ==
    ASSUME OnlyLoop, CleanUpdates
    PROVE  Spec => [](TypeOK /\ CacheInv)
<1>1. Init => TypeOK /\ UpsertInv /\ WeightedInv /\ CacheInv
  BY TypeInit, UpsertInvInit, WeightedInvInit, CacheInvInit
<1>2. TypeOK /\ UpsertInv /\ WeightedInv /\ CacheInv /\ [Next]_vars
        => (TypeOK /\ UpsertInv /\ WeightedInv /\ CacheInv)'
  BY TypeNext, UpsertInvNext, WeightedInvNext, CacheInvNext
<1>3. QED
  BY <1>1, <1>2, PTL DEF Spec

(* While the loop is the only pass, no update is left half done and no      *)
(* provider takes a config to another zone, what needsUpdate compares with  *)
(* is what the zone of the config's provider holds: for any number of zones *)
(* and of configs that are created, deleted and created again under a name  *)
(* that is still being visited, with providers that come, go and cannot be  *)
(* used, and with a restart at any point.                                   *)
THEOREM LoopRemembersTheZone == OnlyLoop /\ CleanUpdates => (Spec => []CacheTruth)
<1> SUFFICES ASSUME OnlyLoop, CleanUpdates PROVE Spec => []CacheTruth
  OBVIOUS
<1>1. TypeOK /\ CacheInv => CacheTruth
  BY LoopFacts, CacheTruthOfLoop DEF CacheInv, ZoneTruth
<1>2. QED
  BY <1>1, CacheInvariant, PTL

(* Under the same conditions the comment of selectWeighted is right: a      *)
(* write that needsUpdate suppresses would have changed nothing in the zone *)
(* that it would have gone to, also for a config that was deleted, and its  *)
(* name taken, since it was listed.                                         *)
THEOREM LoopSuppressesOnlyWhenActive ==
    OnlyLoop /\ CleanUpdates => (Spec => []SuppressedOnlyWhenActive)
<1> SUFFICES ASSUME OnlyLoop, CleanUpdates PROVE Spec => []SuppressedOnlyWhenActive
  OBVIOUS
<1>1. TypeOK /\ CacheInv => SuppressedOnlyWhenActive
  BY SuppressedHolds
<1>2. QED
  BY <1>1, CacheInvariant, PTL

(* ... and so is the comment of updateDNS: when no backend is healthy no    *)
(* record is left in the zone that the pass works on.                       *)
THEOREM LoopLeavesNXDOMAIN ==
    OnlyLoop /\ CleanUpdates => (Spec => []NXDOMAINWhenNoneHealthy)
<1> SUFFICES ASSUME OnlyLoop, CleanUpdates PROVE Spec => []NXDOMAINWhenNoneHealthy
  OBVIOUS
<1>1. TypeOK /\ CacheInv => NXDOMAINWhenNoneHealthy
  BY SuppressedHolds
<1>2. QED
  BY <1>1, CacheInvariant, PTL

-----------------------------------------------------------------------------
(***************************************************************************)
(* StaysInStep, for any number of overlapping passes, with faults,         *)
(* restarts, renamed configs and shared addresses.                         *)
(***************************************************************************)

(* dns_name is UNIQUE. *)
UniqueNames == \A c, d \in DOMAIN configs : configs[c].name = configs[d].name => c = d

(* A pass at l with local variables m has only unwanted records to delete   *)
(* and only wanted ones to create.                                          *)
PlanOK(l, m) ==
    /\ l \in {"dlist", "erase"} => Set(m.want) = {}
    /\ l = "prune" => m.del \cap Set(m.want) = {}
    /\ l \in {"prune", "apply"} => Set(m.left) \subseteq Set(m.want)

PlanInv == UniqueNames /\ \A p \in Passes : PlanOK(pc[p], pass[p])

(* UpToDate of a pass at l with local variables m. *)
Current(l, m) ==
    l \notin {"idle", "next", "get", "finish", "fail"} =>
        \E c \in DOMAIN configs :
            /\ m.config = c
            /\ m.cfg = configs[c]
            /\ l = "states" => m.rows = ListBackends(c)
            /\ l \notin {"backends", "states"} => m.want = Target(c)

(* A step leaves the same addresses as before in the zone of its provider,  *)
(* for each config that has one.                                            *)
SamePublished ==
    \A c \in DOMAIN configs : resolveProvider(c) # NoProvider =>
        {ip \in IPs : dns'[PlaceOf(c)][ip] # 0} = Published(PlaceOf(c))

(* What every step of q does. *)
Moves(q) ==
    \E l, v : Goto(q, l, v) /\ PlanOK(l, v) /\ (InStep => Current(l, v) /\ SamePublished)

(* What must be published depends on the database only. *)
LEMMA TargetStable ==
    ASSUME UNCHANGED <<configs, backends, status>>
    PROVE  \A c : Target(c)' = Target(c) /\ ListBackends(c)' = ListBackends(c)
BY DEF Target, ListBackends, BackendsOf, GetHealthStates, extractIPs, backendsForDNS,
       selectWeighted, healthyBackends, effectiveWeight

(* Where it must be published too, and that is a place there is. *)
LEMMA PlaceStable ==
    ASSUME UNCHANGED <<configs, providers>>
    PROVE  \A c : resolveProvider(c)' = resolveProvider(c) /\ PlaceOf(c)' = PlaceOf(c)
BY DEF resolveProvider, PlaceOf

LEMMA PlaceOfType ==
    ASSUME TypeOK, NEW c \in DOMAIN configs, resolveProvider(c) # NoProvider
    PROVE  PlaceOf(c) \in Places
<1>1. configs \in Table(Configs, ConfigRow)
  BY DEF TypeOK, StoreTypeOK
<1>2. configs[c] \in ConfigRow
  BY <1>1, TableDef
<1>3. resolveProvider(c) \in Zones
  BY ReconcilerAssumption DEF ReconcilerAssumption, resolveProvider
<1>4. QED
  BY <1>2, <1>3 DEF PlaceOf, Places, ConfigRow

(* A pass that stays where it is keeps its plan; one that moves gets one. *)
LEMMA PlanGoto ==
    ASSUME TypeOK, PlanInv, NEW q \in Passes, NEW l, NEW v, Goto(q, l, v), PlanOK(l, v)
    PROVE  \A p \in Passes : PlanOK(pc[p], pass[p])'
<1>0. DOMAIN pc = Passes /\ DOMAIN pass = Passes
  BY DEF TypeOK, RecTypeOK
<1> SUFFICES ASSUME NEW p \in Passes PROVE PlanOK(pc[p], pass[p])'
  OBVIOUS
<1>1. CASE p = q
  <2>1. pc'[p] = l /\ pass'[p] = v
    BY <1>0, <1>1 DEF Goto
  <2>2. QED
    BY <2>1 DEF PlanOK, Set
<1>2. CASE p # q
  <2>1. pc'[p] = pc[p] /\ pass'[p] = pass[p] /\ PlanOK(pc[p], pass[p])
    BY <1>0, <1>2 DEF Goto, PlanInv
  <2>2. QED
    BY <2>1 DEF PlanOK, Set
<1>3. QED
  BY <1>1, <1>2

(* One pass moves with what is current, and the zone publishes the same. *)
LEMMA InStepGoto ==
    ASSUME TypeOK, InStep, UNCHANGED <<configs, backends, status, providers>>,
           NEW q \in Passes, NEW l, NEW v, Goto(q, l, v), Current(l, v), SamePublished,
           \A c \in DOMAIN todo' : c \in DOMAIN configs /\ todo'[c] = configs[c]
    PROVE  InStep'
<1>0. DOMAIN pc = Passes /\ DOMAIN pass = Passes
  BY DEF TypeOK, RecTypeOK
<1>1. \A c : Target(c)' = Target(c) /\ ListBackends(c)' = ListBackends(c)
  BY TargetStable
<1>2. \A p \in Passes : UpToDate(p)'
  <2> SUFFICES ASSUME NEW p \in Passes PROVE UpToDate(p)'
    OBVIOUS
  <2>1. CASE p = q
    <3>1. pc'[p] = l /\ pass'[p] = v
      BY <1>0, <2>1 DEF Goto
    <3>2. QED
      BY <1>1, <3>1 DEF UpToDate, Current
  <2>2. CASE p # q
    <3>1. pc'[p] = pc[p] /\ pass'[p] = pass[p] /\ UpToDate(p)
      BY <1>0, <2>2 DEF Goto, InStep
    <3>2. QED
      BY <1>1, <3>1 DEF UpToDate
  <2>3. QED
    BY <2>1, <2>2
<1>3. \A c \in DOMAIN configs : resolveProvider(c) # NoProvider =>
         {ip \in IPs : dns'[PlaceOf(c)][ip] # 0} = Set(Target(c))
  BY DEF SamePublished, InStep, Agrees
<1>4. \A c : resolveProvider(c)' = resolveProvider(c) /\ PlaceOf(c)' = PlaceOf(c)
  BY PlaceStable
<1>5. \A c \in DOMAIN configs : Set(Target(c))' = Set(Target(c))
  BY <1>1 DEF Set
<1>6. QED
  BY <1>2, <1>3, <1>4, <1>5 DEF InStep, Agrees, Published

-----------------------------------------------------------------------------
(* The steps that read: what is read now is current, and what is derived    *)
(* from current rows is what must be published.                             *)
LEMMA ReadStepsMove ==
    ASSUME TypeOK, PlanInv, NEW q \in Passes,
           GetConfig(q) \/ ReadBackends(q) \/ ReadStates(q) \/ Decide(q) \/ Resolve(q)
    PROVE  Moves(q)
<1> DEFINE m == pass[q]
<1>0. m \in PassType /\ (InStep => UpToDate(q))
  BY DEF TypeOK, RecTypeOK, InStep
<1>1. UNCHANGED dns
  BY DEF GetConfig, ReadBackends, ReadStates, Decide, Resolve
<1>2. SamePublished
  BY <1>1 DEF SamePublished, Published
<1>3. ASSUME NEW l, NEW v, Goto(q, l, v), PlanOK(l, v), InStep => Current(l, v)
      PROVE  Moves(q)
  BY <1>2, <1>3 DEF Moves
<1>4. CASE GetConfig(q)
  <2> DEFINE v == [m EXCEPT !.cfg = configs[m.config]]
  <2>1. v.cfg = configs[m.config] /\ v.config = m.config
    BY <1>0 DEF PassType
  <2>2. \/ m.config \in DOMAIN configs /\ Goto(q, "backends", v)
        \/ Goto(q, "idle", NoPass)
    BY <1>4 DEF GetConfig
  <2> HIDE DEF v
  <2>3. m.config \in DOMAIN configs => Current("backends", v)
    BY <2>1 DEF Current
  <2>4. Current("idle", NoPass) /\ PlanOK("backends", v) /\ PlanOK("idle", NoPass)
    BY DEF Current, PlanOK
  <2>5. QED
    BY <1>3, <2>2, <2>3, <2>4
<1>5. CASE ReadBackends(q)
  <2> DEFINE v == [m EXCEPT !.rows = ListBackends(m.config)]
  <2>1. v.rows = ListBackends(m.config) /\ v.config = m.config /\ v.cfg = m.cfg
    BY <1>0 DEF PassType
  <2>2. Goto(q, "states", v) \/ Goto(q, "fail", m)
    BY <1>5 DEF ReadBackends
  <2> HIDE DEF v
  <2>3. InStep => Current("states", v)
    BY <1>0, <1>5, <2>1 DEF Current, UpToDate, ReadBackends
  <2>4. Current("fail", m) /\ PlanOK("states", v) /\ PlanOK("fail", m)
    BY DEF Current, PlanOK
  <2>5. QED
    BY <1>3, <2>2, <2>3, <2>4
<1>6. CASE ReadStates(q)
  <2> DEFINE ips == extractIPs(m.rows, backendsForDNS(m.cfg.method, m.rows,
                       healthyBackends(m.rows, GetHealthStates(m.config))))
             v == [m EXCEPT !.want = ips, !.rows = EmptyTable]
  <2>1. v.want = ips /\ v.config = m.config /\ v.cfg = m.cfg
    BY <1>0 DEF PassType
  <2>2. Goto(q, "decide", v) \/ Goto(q, "fail", m)
    BY <1>6 DEF ReadStates
  <2>3. ASSUME InStep
        PROVE  Current("decide", v)
    <3>1. PICK c \in DOMAIN configs : /\ m.config = c /\ m.cfg = configs[c]
                                      /\ m.rows = ListBackends(c)
      BY <1>0, <1>6, <2>3 DEF UpToDate, ReadStates
    <3>2. ips = Target(c)
      BY <3>1 DEF Target
    <3>3. QED
      BY <2>1, <3>1, <3>2 DEF Current
  <2> HIDE DEF v
  <2>4. Current("fail", m) /\ PlanOK("decide", v) /\ PlanOK("fail", m)
    BY DEF Current, PlanOK
  <2>5. QED
    BY <1>3, <2>2, <2>3, <2>4
<1>7. CASE Decide(q)
  <2>1. PICK l \in {"resolve", "finish"} : Goto(q, l, m)
    BY <1>7 DEF Decide
  <2>2. InStep => Current(l, m)
    BY <1>0, <1>7, <2>1 DEF Current, UpToDate, Decide
  <2>3. PlanOK(l, m)
    BY <2>1 DEF PlanOK
  <2>4. QED
    BY <1>3, <2>1, <2>2, <2>3
<1>8. CASE Resolve(q)
  <2>1. PICK z : \/ Goto(q, IF Set(m.want) = {} THEN "dlist" ELSE "list", [m EXCEPT !.zone = z])
                 \/ Goto(q, "finish", m)
    BY <1>8 DEF Resolve, UpdateWith
  <2> DEFINE v == [m EXCEPT !.zone = z]
             l == IF Set(m.want) = {} THEN "dlist" ELSE "list"
  <2>2. v.want = m.want /\ v.config = m.config /\ v.cfg = m.cfg
    BY <1>0 DEF PassType
  <2>3. Goto(q, l, v) \/ Goto(q, "finish", m)
    BY <2>1
  <2>4. l \in {"dlist", "list"} /\ (l = "dlist" => Set(m.want) = {})
    OBVIOUS
  <2> HIDE DEF v, l
  <2>5. InStep => Current(l, v)
    BY <1>0, <1>8, <2>2, <2>4 DEF Current, UpToDate, Resolve
  <2>6. Current("finish", m) /\ PlanOK(l, v) /\ PlanOK("finish", m)
    BY <2>2, <2>4 DEF Current, PlanOK
  <2>7. QED
    BY <1>3, <2>3, <2>5, <2>6
<1>9. QED
  BY <1>4, <1>5, <1>6, <1>7, <1>8

(* A call of the provider by a pass with current rows, which deletes an     *)
(* unwanted address or puts a wanted one, changes no address that is        *)
(* published for a config with a provider.                                  *)
LEMMA WriteSamePublished ==
    ASSUME TypeOK, UniqueNames, InStep, NEW q \in Passes, NEW ip \in IPs, NEW ttl,
           pc[q] \in {"prune", "apply", "erase"},
           \/ UNCHANGED dns
           \/ /\ Write(q, place(pass[q]), ip, ttl)
              /\ (ttl = 0 /\ ip \notin Set(pass[q].want)) \/ (ttl # 0 /\ ip \in Set(pass[q].want))
    PROVE  SamePublished
<1>1. CASE UNCHANGED dns
  BY <1>1 DEF SamePublished, Published
<1>2. CASE /\ Write(q, place(pass[q]), ip, ttl)
           /\ (ttl = 0 /\ ip \notin Set(pass[q].want)) \/ (ttl # 0 /\ ip \in Set(pass[q].want))
  <2> DEFINE n == place(pass[q])
  <2>1. dns \in [Places -> [IPs -> TTLs \cup {0}]] /\ n \in Places
    BY PlaceType DEF TypeOK, RecTypeOK
  <2>2. PICK c \in DOMAIN configs : pass[q].cfg = configs[c] /\ pass[q].want = Target(c)
    BY DEF InStep, UpToDate
  <2>3. /\ \A k \in Places \ {n} : dns'[k] = dns[k]
        /\ \A x \in IPs : dns'[n][x] = IF x = ip THEN ttl ELSE dns[n][x]
    BY <1>2, <2>1 DEF Write
  <2>4. ASSUME NEW d \in DOMAIN configs, resolveProvider(d) # NoProvider
        PROVE  {x \in IPs : dns'[PlaceOf(d)][x] # 0} = Published(PlaceOf(d))
    <3>0. PlaceOf(d) \in Places
      BY <2>4, PlaceOfType
    <3>1. CASE PlaceOf(d) # n
      BY <2>3, <3>0, <3>1 DEF Published
    <3>2. CASE PlaceOf(d) = n
      <4>1. d = c
        BY <2>2, <3>2 DEF UniqueNames, PlaceOf, place
      <4>2. Published(n) = Set(pass[q].want)
        BY <2>2, <2>4, <3>2, <4>1 DEF InStep, Agrees
      <4> HIDE DEF n
      <4>3. dns[n][ip] # 0 <=> ttl # 0
        BY <1>2, <4>2 DEF Published
      <4>4. QED
        BY <2>3, <3>2, <4>3 DEF Published
    <3>3. QED
      BY <3>1, <3>2
  <2>5. QED
    BY <2>4 DEF SamePublished
<1>3. QED
  BY <1>1, <1>2

(* The steps that use the provider. *)
LEMMA ListStepsMove ==
    ASSUME TypeOK, PlanInv, NEW q \in Passes, UpsertList(q) \/ DeleteList(q)
    PROVE  Moves(q)
<1> DEFINE m == pass[q]
           n == place(m)
<1>0. m \in PassType /\ (InStep => UpToDate(q)) /\ PlanOK(pc[q], m)
  BY DEF TypeOK, RecTypeOK, InStep, PlanInv
<1>1. SamePublished
  BY DEF UpsertList, DeleteList, ApiList, noWrite, SamePublished, Published
<1>2. ASSUME NEW l, NEW v, Goto(q, l, v), PlanOK(l, v), InStep => Current(l, v)
      PROVE  Moves(q)
  BY <1>1, <1>2 DEF Moves
<1>3. CASE UpsertList(q)
  <2> DEFINE del == unwanted(n, m.want)
             v == [m EXCEPT !.found = dns[n], !.del = del, !.left = m.want]
  <2>1. /\ v.config = m.config /\ v.cfg = m.cfg /\ v.want = m.want /\ v.del = del
        /\ v.left = m.want
    BY <1>0 DEF PassType
  <2>2. Goto(q, afterPrune(del), v) \/ Goto(q, "fail", m)
    BY <1>3 DEF UpsertList
  <2> HIDE DEF v
  <2>3. InStep => Current(afterPrune(del), v)
    BY <1>0, <1>3, <2>1 DEF Current, UpToDate, UpsertList, afterPrune
  <2>4. PlanOK(afterPrune(del), v)
    BY <2>1 DEF PlanOK, afterPrune, unwanted
  <2>5. Current("fail", m) /\ PlanOK("fail", m)
    BY DEF Current, PlanOK
  <2>6. QED
    BY <1>2, <2>2, <2>3, <2>4, <2>5
<1>4. CASE DeleteList(q)
  <2> DEFINE v == [m EXCEPT !.del = Published(n)]
  <2>1. v.config = m.config /\ v.cfg = m.cfg /\ v.want = m.want
    BY <1>0 DEF PassType
  <2>2. Goto(q, afterErase(Published(n)), v) \/ Goto(q, "record", m)
    BY <1>4 DEF DeleteList
  <2> HIDE DEF v
  <2>3. InStep => Current(afterErase(Published(n)), v) /\ Current("record", m)
    BY <1>0, <1>4, <2>1 DEF Current, UpToDate, DeleteList, afterErase
  <2>4. PlanOK(afterErase(Published(n)), v) /\ PlanOK("record", m)
    BY <1>0, <1>4, <2>1 DEF PlanOK, afterErase, DeleteList
  <2>5. QED
    BY <1>2, <2>2, <2>3, <2>4
<1>5. QED
  BY <1>3, <1>4

(* One deleted record. *)
LEMMA DeleteStepsMove ==
    ASSUME TypeOK, PlanInv, NEW q \in Passes, UpsertPrune(q) \/ DeleteErase(q)
    PROVE  Moves(q)
<1> DEFINE m == pass[q]
           n == place(m)
           without(ip) == [m EXCEPT !.del = m.del \ {ip}]
           after(ip) == IF pc[q] = "prune" THEN afterPrune(m.del \ {ip})
                                           ELSE afterErase(m.del \ {ip})
           broken == IF pc[q] = "prune" THEN "fail" ELSE "record"
<1>0. /\ m \in PassType /\ m.del \subseteq IPs /\ UniqueNames /\ PlanOK(pc[q], m)
      /\ InStep => UpToDate(q)
  BY DEF TypeOK, RecTypeOK, PassType, InStep, PlanInv
<1>1. /\ pc[q] \in {"prune", "erase"}
      /\ m.del \cap Set(m.want) = {}
      /\ pc[q] = "prune" => Set(m.left) \subseteq Set(m.want)
      /\ pc[q] = "erase" => Set(m.want) = {}
  BY <1>0 DEF PlanOK, UpsertPrune, DeleteErase
<1>2. PICK ip \in m.del :
         /\ Goto(q, after(ip), without(ip)) \/ Goto(q, broken, m)
         /\ noWrite \/ ApiDelete(q, n, ip)
  <2>1. CASE UpsertPrune(q)
    BY <2>1 DEF UpsertPrune
  <2>2. CASE DeleteErase(q)
    BY <2>2 DEF DeleteErase
  <2>3. QED
    BY <2>1, <2>2
<1>3. InStep => SamePublished
  <2>1. UNCHANGED dns \/ Write(q, n, ip, 0)
    BY <1>2 DEF noWrite, ApiDelete
  <2>2. ip \in IPs /\ ip \notin Set(m.want)
    BY <1>0, <1>1, <1>2
  <2>3. QED
    BY <1>0, <1>1, <2>1, <2>2, WriteSamePublished
<1> DEFINE v == without(ip)
           l == after(ip)
<1>4. /\ v.config = m.config /\ v.cfg = m.cfg /\ v.want = m.want /\ v.left = m.left
      /\ v.del = m.del \ {ip}
  BY <1>0 DEF PassType
<1>5. Goto(q, l, v) \/ Goto(q, broken, m)
  BY <1>2
<1>6. /\ l \in {"prune", "apply", "erase", "record"} /\ broken \in {"record", "fail"}
      /\ l \in {"prune", "apply"} => pc[q] = "prune"
      /\ l = "erase" => pc[q] = "erase"
  BY <1>1 DEF afterPrune, afterErase
<1> HIDE DEF v, l, without, after, broken
<1>7. InStep => Current(l, v) /\ Current(broken, m)
  BY <1>0, <1>1, <1>4, <1>6 DEF Current, UpToDate
<1>8. PlanOK(l, v) /\ PlanOK(broken, m)
  BY <1>1, <1>4, <1>6 DEF PlanOK
<1>9. QED
  BY <1>3, <1>5, <1>7, <1>8 DEF Moves

(* One created or updated record. *)
LEMMA ApplyStepMoves ==
    ASSUME TypeOK, PlanInv, NEW q \in Passes, UpsertApply(q)
    PROVE  Moves(q)
<1> DEFINE m == pass[q]
           n == place(m)
           left(ip) == [m.left EXCEPT ![ip] = @ - 1]
<1>0. /\ m \in PassType /\ m.left \in [IPs -> Nat] /\ UniqueNames /\ PlanOK(pc[q], m)
      /\ m.cfg.ttl \in TTLs /\ pc[q] = "apply"
      /\ InStep => UpToDate(q)
  BY DEF TypeOK, RecTypeOK, PassType, ConfigRow, InStep, PlanInv, UpsertApply
<1>1. Set(m.left) \subseteq Set(m.want) /\ m.cfg.ttl # 0
  BY <1>0, StoreAssumption DEF PlanOK, StoreAssumption
<1>2. PICK ip \in Set(m.left) :
         /\ \/ Goto(q, afterApply(left(ip)), [m EXCEPT !.left = left(ip)])
            \/ Goto(q, "fail", m)
         /\ noWrite \/ ApiPut(q, n, ip, m.cfg.ttl)
  BY DEF UpsertApply
<1>3. InStep => SamePublished
  <2>1. UNCHANGED dns \/ Write(q, n, ip, m.cfg.ttl)
    BY <1>2 DEF noWrite, ApiPut
  <2>2. ip \in IPs /\ ip \in Set(m.want)
    BY <1>1, <1>2 DEF Set
  <2>3. QED
    BY <1>0, <1>1, <2>1, <2>2, WriteSamePublished
<1>4. Set(left(ip)) \subseteq Set(m.want)
  <2>1. \A x \in IPs : left(ip)[x] > 0 => m.left[x] > 0
    BY <1>0, <1>2 DEF Set
  <2>2. QED
    BY <1>1, <2>1 DEF Set
<1> DEFINE v == [m EXCEPT !.left = left(ip)]
           l == afterApply(left(ip))
<1>5. v.config = m.config /\ v.cfg = m.cfg /\ v.want = m.want /\ v.left = left(ip)
  BY <1>0 DEF PassType
<1>6. Goto(q, l, v) \/ Goto(q, "fail", m)
  BY <1>2
<1>7. l \in {"apply", "record"}
  BY DEF afterApply
<1> HIDE DEF v, left, l
<1>8. InStep => Current(l, v)
  BY <1>0, <1>5, <1>7 DEF Current, UpToDate
<1>9. PlanOK(l, v)
  BY <1>4, <1>5, <1>7 DEF PlanOK
<1>10. Current("fail", m) /\ PlanOK("fail", m)
  BY DEF Current, PlanOK
<1>11. QED
  BY <1>3, <1>6, <1>8, <1>9, <1>10 DEF Moves

(* The end of a pass. *)
LEMMA EndStepsMove ==
    ASSUME TypeOK, PlanInv, NEW q \in Passes, Record(q) \/ Finish(q)
    PROVE  Moves(q)
<1>1. SamePublished
  BY DEF Record, Finish, SamePublished, Published
<1>2. PICK l, v : Goto(q, l, v) /\ l \in {"finish", "next", "idle"}
  BY DEF Record, Finish, Leave
<1>3. Current(l, v) /\ PlanOK(l, v)
  BY <1>2 DEF Current, PlanOK
<1>4. QED
  BY <1>1, <1>2, <1>3 DEF Moves

-----------------------------------------------------------------------------
(* The rows of configs keep their names apart. *)
LEMMA NamesStayUnique ==
    ASSUME UniqueNames, Environment
    PROVE  UniqueNames'
<1>1. CASE HandleCreateConfig \/ HandleUpdateConfig
  <2>1. PICK c, row : configs' = Put(configs, c, row) /\ NameIsFree(row.name, c)
    BY <1>1 DEF HandleCreateConfig, HandleUpdateConfig, CreateConfig, UpdateConfig
  <2>2. /\ DOMAIN configs' = DOMAIN configs \cup {c} /\ configs'[c] = row
        /\ \A d \in DOMAIN configs \ {c} : configs'[d] = configs[d] /\ configs[d].name # row.name
    BY <2>1 DEF Put, NameIsFree
  <2>3. QED
    BY <2>2 DEF UniqueNames
<1>2. CASE HandleDeleteConfig
  <2>1. PICK c : configs' = Drop(configs, {c})
    BY <1>2 DEF HandleDeleteConfig, DeleteConfig
  <2>2. DOMAIN configs' \subseteq DOMAIN configs /\ \A d \in DOMAIN configs' : configs'[d] = configs[d]
    BY <2>1 DEF Drop, Restrict
  <2>3. QED
    BY <2>2 DEF UniqueNames
<1>3. CASE UNCHANGED configs
  BY <1>3 DEF UniqueNames
<1>4. QED
  BY <1>1, <1>2, <1>3
     DEF Environment, HandleAddBackend, HandleUpdateBackend, HandleDeleteBackend,
         HandleConfigureDNSProvider, HandleDeleteDNSProvider, HealthResult, CreateBackend,
         UpdateBackend, DeleteBackend, PutDNSProvider, DeleteDNSProvider, UpdateHealthState

(* What every step but a restart does. *)
StepMoves ==
    \E q \in Passes : \E l, v :
        /\ Goto(q, l, v)
        /\ PlanOK(l, v)
        /\ InStep => /\ Current(l, v)
                     /\ SamePublished
                     /\ \A c \in DOMAIN todo' : c \in DOMAIN configs /\ todo'[c] = configs[c]

(* A step that leaves the passes, the list and the zone alone. *)
LEMMA StandStill ==
    ASSUME TypeOK, PlanInv, UNCHANGED <<pc, pass, dns, todo>>
    PROVE  StepMoves
<1>1. "loop" \in Passes
  BY DEF Passes
<1>2. Goto("loop", pc["loop"], pass["loop"])
  BY <1>1 DEF Goto, TypeOK, RecTypeOK
<1>3. PlanOK(pc["loop"], pass["loop"])
  BY <1>1 DEF PlanInv
<1>4. InStep => Current(pc["loop"], pass["loop"])
  BY <1>1 DEF InStep, UpToDate, Current
<1>5. SamePublished
  BY DEF SamePublished, Published
<1>6. InStep => \A c \in DOMAIN todo' : c \in DOMAIN configs /\ todo'[c] = configs[c]
  BY DEF InStep
<1>7. QED
  BY <1>1, <1>2, <1>3, <1>4, <1>5, <1>6 DEF StepMoves

(* A handler leaves the passes alone or starts one. *)
LEMMA EnvironmentMoves ==
    ASSUME TypeOK, PlanInv, Environment
    PROVE  StepMoves
<1>0. UNCHANGED <<dns, todo>>
  BY DEF Environment
<1>1. CASE UNCHANGED <<pc, pass>>
  BY <1>0, <1>1, StandStill
<1>2. CASE \E p \in Callers : \E v : Goto(p, "get", v)
  <2>1. PICK p \in Callers : \E v : Goto(p, "get", v)
    BY <1>2
  <2>2. PICK v : Goto(p, "get", v)
    BY <2>1
  <2>3. p \in Passes /\ PlanOK("get", v) /\ Current("get", v) /\ SamePublished
    BY <1>0 DEF Passes, PlanOK, Current, SamePublished, Published
  <2>4. InStep => \A c \in DOMAIN todo' : c \in DOMAIN configs /\ todo'[c] = configs[c]
    BY <1>0 DEF InStep
  <2>5. QED
    BY <2>2, <2>3, <2>4 DEF StepMoves
<1>3. QED
  BY <1>1, <1>2
     DEF Environment, HandleCreateConfig, HandleUpdateConfig, HandleDeleteConfig,
         HandleAddBackend, HandleUpdateBackend, HandleDeleteBackend,
         HandleConfigureDNSProvider, HandleDeleteDNSProvider, HealthResult,
         triggerReconcile, noTrigger

(* The loop lists the rows as they are, and takes one of the list. *)
LEMMA LoopMoves ==
    ASSUME TypeOK, PlanInv, Tick \/ NextConfig \/ EndOfList
    PROVE  StepMoves
<1>0. "loop" \in Passes /\ UNCHANGED dns
  BY DEF Passes, Tick, NextConfig, EndOfList
<1>1. SamePublished
  BY <1>0 DEF SamePublished, Published
<1>2. CASE Tick \/ EndOfList
  <2>1. PICK l \in {"next", "idle"} : Goto("loop", l, pass["loop"])
    <3>1. pass = [pass EXCEPT !["loop"] = pass["loop"]]
      BY DEF TypeOK, RecTypeOK
    <3>2. QED
      BY <1>2, <3>1 DEF Tick, EndOfList, Goto
  <2>2. Current(l, pass["loop"]) /\ PlanOK(l, pass["loop"])
    BY DEF Current, PlanOK
  <2>3. InStep => \A c \in DOMAIN todo' : c \in DOMAIN configs /\ todo'[c] = configs[c]
    BY <1>2 DEF Tick, EndOfList, InStep
  <2>4. QED
    BY <1>0, <1>1, <2>1, <2>2, <2>3 DEF StepMoves
<1>3. CASE NextConfig
  <2>1. PICK c \in DOMAIN todo :
           /\ Goto("loop", "backends", [NoPass EXCEPT !.config = c, !.cfg = todo[c]])
           /\ todo' = Drop(todo, {c})
    BY <1>3 DEF NextConfig
  <2> DEFINE v == [NoPass EXCEPT !.config = c, !.cfg = todo[c]]
  <2>2. v.config = c /\ v.cfg = todo[c]
    BY NoPassType DEF PassType
  <2>3. Goto("loop", "backends", v)
    BY <2>1
  <2> HIDE DEF v
  <2>4. PlanOK("backends", v) /\ (InStep => Current("backends", v))
    BY <2>2 DEF PlanOK, Current, InStep
  <2>5. DOMAIN todo' \subseteq DOMAIN todo /\ \A d \in DOMAIN todo' : todo'[d] = todo[d]
    BY <2>1 DEF Drop, Restrict
  <2>6. InStep => \A d \in DOMAIN todo' : d \in DOMAIN configs /\ todo'[d] = configs[d]
    BY <2>5 DEF InStep
  <2>7. QED
    BY <1>0, <1>1, <2>3, <2>4, <2>6 DEF StepMoves
<1>4. QED
  BY <1>2, <1>3

(* Every step but a restart. *)
LEMMA NextMoves ==
    ASSUME TypeOK, PlanInv, [Next]_vars, ~Restart
    PROVE  StepMoves
<1>1. CASE UNCHANGED vars
  BY <1>1, StandStill DEF vars, recVars
<1>2. ASSUME NEW q \in Passes, Step(q)
      PROVE  StepMoves
  <2>1. UNCHANGED todo
    BY <1>2 DEF Step, GetConfig, ReadBackends, ReadStates, Decide, Resolve, UpsertList,
         UpsertPrune, UpsertApply, DeleteList, DeleteErase, Record, Finish
  <2>2. Moves(q)
    BY <1>2, ReadStepsMove, ListStepsMove, DeleteStepsMove, ApplyStepMoves, EndStepsMove DEF Step
  <2>3. InStep => \A c \in DOMAIN todo' : c \in DOMAIN configs /\ todo'[c] = configs[c]
    BY <2>1 DEF InStep
  <2>4. QED
    BY <2>2, <2>3 DEF Moves, StepMoves
<1>3. QED
  BY <1>1, <1>2, EnvironmentMoves, LoopMoves DEF Next

(* The plans of the passes. *)
LEMMA PlanInvNext == TypeOK /\ PlanInv /\ [Next]_vars => PlanInv'
<1> SUFFICES ASSUME TypeOK, PlanInv, [Next]_vars PROVE PlanInv'
  OBVIOUS
<1>1. UniqueNames'
  <2>1. CASE Environment
    BY <2>1, NamesStayUnique DEF PlanInv
  <2>2. CASE UNCHANGED configs
    BY <2>2 DEF PlanInv, UniqueNames
  <2>3. QED
    BY <2>1, <2>2 DEF Next, vars, storeVars, Tick, NextConfig, EndOfList, Restart, Step,
         GetConfig, ReadBackends, ReadStates, Decide, Resolve, UpsertList, UpsertPrune,
         UpsertApply, DeleteList, DeleteErase, Record, Finish, SetConfigReconcileError
<1>2. CASE Restart
  <2>1. \A p \in Passes : pc'[p] = "idle"
    BY <1>2 DEF Restart
  <2>2. QED
    BY <1>1, <2>1 DEF PlanInv, PlanOK
<1>3. CASE ~Restart
  <2>1. \A p \in Passes : PlanOK(pc[p], pass[p])'
    BY <1>3, NextMoves, PlanGoto DEF StepMoves
  <2>2. QED
    BY <1>1, <2>1 DEF PlanInv
<1>4. QED
  BY <1>2, <1>3

(* No step ends the agreement while the database stays as it is. *)
LEMMA InStepNext ==
    ASSUME TypeOK, PlanInv, InStep, [Next]_vars,
           UNCHANGED <<configs, backends, status, providers>>
    PROVE  InStep'
<1>1. CASE Restart
  <2>1. UNCHANGED dns /\ DOMAIN todo' = {} /\ \A p \in Passes : pc'[p] = "idle"
    BY <1>1 DEF Restart, EmptyTable
  <2>2. \A c : Target(c)' = Target(c)
    BY TargetStable
  <2>3. \A c \in DOMAIN configs : Set(Target(c))' = Set(Target(c))
    BY <2>2 DEF Set
  <2>4. \A c : resolveProvider(c)' = resolveProvider(c) /\ PlaceOf(c)' = PlaceOf(c)
    BY PlaceStable
  <2>5. \A p \in Passes : UpToDate(p)'
    BY <2>1 DEF UpToDate
  <2>6. QED
    BY <2>1, <2>3, <2>4, <2>5 DEF InStep, Agrees, Published
<1>2. CASE ~Restart
  BY <1>2, NextMoves, InStepGoto DEF StepMoves
<1>3. QED
  BY <1>1, <1>2

(* Once the zones agree with the database and no pass works with rows that  *)
(* are out of date, they agree for as long as the database does not change, *)
(* whatever number of passes overlap, fail half-way (a lost answer          *)
(* included), write to the zone of a provider replaced since or die with    *)
(* the process: the safety half of Converges, and no condition on renames,  *)
(* on providers or on addresses that backends share.                        *)
THEOREM AgreementIsKept == Spec => StaysInStep
<1>1. Init => TypeOK /\ PlanInv
  <2>1. Init => PlanInv
    BY DEF Init, StoreInit, RecInit, EmptyTable, PlanInv, UniqueNames, PlanOK
  <2>2. QED
    BY <2>1, TypeInit
<1>2. TypeOK /\ PlanInv /\ [Next]_vars => TypeOK' /\ PlanInv'
  BY TypeNext, PlanInvNext
<1>3. TypeOK /\ PlanInv /\ [Next]_vars
        => [UNCHANGED <<configs, backends, status, providers>> /\ InStep => InStep']_vars
  BY InStepNext
<1>4. QED
  BY <1>1, <1>2, <1>3, PTL DEF Spec, StaysInStep

(* The loop's pass, having read what the database still holds, is done with *)
(* its update, or needsUpdate is about to suppress it.                      *)
Settled ==
    /\ UpToDate("loop")
    /\ LET m == pass["loop"]
       IN  pc["loop"] = "record" \/ (pc["loop"] = "decide" /\ ~needsUpdate(m.config, m.want))

(* How the agreement that AgreementIsKept keeps comes about: while the loop *)
(* is the only pass, no update is left half done and no provider takes a    *)
(* config to another zone, each pass whose rows are still current when it   *)
(* is done with its config leaves the zone of the config's provider in      *)
(* agreement with the database for that config, also where it wrote nothing.*)
THEOREM CurrentPassesAgree ==
    OnlyLoop /\ CleanUpdates =>
        (Spec => [](Settled => \E c \in DOMAIN configs : pass["loop"].config = c /\ Agrees(c)))
<1> SUFFICES ASSUME OnlyLoop, CleanUpdates
             PROVE  Spec => [](Settled => \E c \in DOMAIN configs :
                                   pass["loop"].config = c /\ Agrees(c))
  OBVIOUS
<1>1. ASSUME TypeOK, CacheInv, Settled
      PROVE  \E c \in DOMAIN configs : pass["loop"].config = c /\ Agrees(c)
  <2> DEFINE m == pass["loop"]
  <2>1. PICK c \in DOMAIN configs : m.config = c /\ m.cfg = configs[c] /\ m.want = Target(c)
    BY <1>1 DEF Settled, UpToDate
  <2>2. ASSUME resolveProvider(c) # NoProvider
        PROVE  Published(PlaceOf(c)) = Set(m.want)
    <3>0. ZonesInv /\ c \in Configs
      BY <1>1, <2>1, LoopFacts DEF CacheInv
    <3>1. CASE pc["loop"] = "record"
      <4>1. m.zone \in ZonesOf(c) /\ Published(place(m)) = Set(m.want)
        BY <1>1, <2>1, <3>0, <3>1 DEF ZonesInv, Updates, CacheInv, UpdateInv
      <4>2. m.zone = resolveProvider(c)
        BY <2>2, <3>0, <4>1, ResolvedZone DEF CleanUpdates, FixedZones, AtMostOne
      <4>3. place(m) = PlaceOf(c)
        BY <2>1, <4>2 DEF place, PlaceOf
      <4>4. QED
        BY <4>1, <4>3
    <3>2. CASE pc["loop"] = "decide" /\ ~needsUpdate(m.config, m.want)
      BY <1>1, <2>1, <2>2, <3>2, LoopFacts, SuppressedHolds DEF SuppressedOnlyWhenActive, PlaceOf
    <3>3. QED
      BY <1>1, <3>1, <3>2 DEF Settled
  <2>3. QED
    BY <2>1, <2>2 DEF Agrees
<1>2. TypeOK /\ CacheInv => (Settled => \E c \in DOMAIN configs :
         pass["loop"].config = c /\ Agrees(c))
  BY <1>1
<1>3. QED
  BY <1>2, CacheInvariant, PTL
=============================================================================

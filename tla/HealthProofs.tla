---------------------------- MODULE HealthProofs ----------------------------
(***************************************************************************)
(* Theorems about what is derived from probes: the state machine           *)
(* (StateMachine) implements Hysteresis for any thresholds and any number  *)
(* of results, and the probe history (History) loses and invents nothing   *)
(* for any number of backends, recorders, buckets and failing writes; and  *)
(* the selectors (Selector) give every healthy backend its share.          *)
(***************************************************************************)
EXTENDS StateMachine, History, Selector,
        SequenceTheorems, FiniteSetTheorems, WellFoundedInduction, TLAPS

(* The counter is the length of the run of results r at the end of s: the   *)
(* last count results are r, and the one before them, if any, is not.       *)
Tally(s, r, count) ==
    /\ count \in 0 .. Len(s)
    /\ \A i \in Len(s) - count + 1 .. Len(s) : s[i] = r
    /\ count < Len(s) => s[Len(s) - count] # r

(* One more result, equal to the others of the run. *)
LEMMA TallyGrows ==
    ASSUME NEW s \in Seq(BOOLEAN), NEW r \in BOOLEAN, NEW count, Tally(s, r, count)
    PROVE  Tally(Append(s, r), r, count + 1)
<1>1. /\ Len(s) \in Nat /\ Len(Append(s, r)) = Len(s) + 1
      /\ \A i \in 1 .. Len(s) : Append(s, r)[i] = s[i]
      /\ Append(s, r)[Len(s) + 1] = r
  OBVIOUS
<1>2. QED
  BY <1>1 DEF Tally

(* ... and one that ends it. *)
LEMMA TallyEnds ==
    ASSUME NEW s \in Seq(BOOLEAN), NEW r \in BOOLEAN, NEW q \in BOOLEAN, q # r
    PROVE  Tally(Append(s, q), r, 0)
<1>1. /\ Len(s) \in Nat /\ Len(Append(s, q)) = Len(s) + 1
      /\ Append(s, q)[Len(s) + 1] = q
  OBVIOUS
<1>2. QED
  BY <1>1 DEF Tally

(* A run is long enough iff its length says so. *)
LEMMA TallyDecides ==
    ASSUME NEW s \in Seq(BOOLEAN), NEW r \in BOOLEAN, NEW count, NEW n \in Nat \ {0},
           Tally(s, r, count)
    PROVE  count >= n <=> H!EndsWith(s, r, n)
<1>1. Len(s) \in Nat /\ count \in Nat /\ count <= Len(s)
  BY DEF Tally
<1>2. ASSUME count >= n PROVE H!EndsWith(s, r, n)
  BY <1>1, <1>2 DEF Tally, H!EndsWith
<1>3. ASSUME ~(count >= n), H!EndsWith(s, r, n) PROVE FALSE
  <2>1. count < Len(s) /\ Len(s) - count \in Len(s) - n + 1 .. Len(s)
    BY <1>1, <1>3 DEF H!EndsWith
  <2>2. QED
    BY <1>3, <2>1 DEF Tally, H!EndsWith
<1>4. QED
  BY <1>2, <1>3

(* The counters of the state machine are the runs at the end of its log. *)
SMInv ==
    /\ smConfig \in [ThresholdHealthy : Int, ThresholdUnhealthy : Int]
    /\ results \in Seq(BOOLEAN)
    /\ Tally(results, TRUE, consecutiveSuccesses)
    /\ Tally(results, FALSE, consecutiveFailures)

(* What counts as a threshold is positive. *)
LEMMA effectiveType == \A t \in Int : effective(t) \in Nat \ {0}
BY DEF effective

(* A new state machine has seen nothing. *)
LEMMA SMInvInit == SMInit => SMInv
<1> SUFFICES ASSUME SMInit PROVE SMInv
  OBVIOUS
<1>1. smConfig \in [ThresholdHealthy : Int, ThresholdUnhealthy : Int]
  BY SMAssumption DEF SMInit, SMAssumption
<1>2. QED
  BY <1>1 DEF SMInit, SMInv, Tally

(* Every step keeps the counters equal to the runs, and is a step of the    *)
(* specification in terms of results.                                       *)
LEMMA SMStep ==
    ASSUME SMInv, [SMNext]_smVars
    PROVE  SMInv' /\ [H!Next]_H!vars
<1> DEFINE okay == effective(smConfig.ThresholdHealthy)
           bad == effective(smConfig.ThresholdUnhealthy)
<1>1. okay \in Nat \ {0} /\ bad \in Nat \ {0}
  BY effectiveType DEF SMInv
<1>2. CASE ProcessSuccess
  <2>1. /\ results' = Append(results, TRUE) /\ UNCHANGED smConfig
        /\ consecutiveSuccesses' = consecutiveSuccesses + 1 /\ consecutiveFailures' = 0
        /\ currentStatus' = IF consecutiveSuccesses' >= okay THEN "healthy" ELSE currentStatus
    BY <1>2 DEF ProcessSuccess
  <2>2. results' \in Seq(BOOLEAN)
    BY <2>1 DEF SMInv
  <2>3. Tally(results', TRUE, consecutiveSuccesses') /\ Tally(results', FALSE, consecutiveFailures')
    BY <2>1, TallyGrows, TallyEnds DEF SMInv
  <2>4. consecutiveSuccesses' >= okay <=> H!EndsWith(results', TRUE, okay)
    BY <1>1, <2>2, <2>3, TallyDecides
  <2>5. H!Observe(TRUE)
    BY <2>1, <2>4 DEF H!Observe
  <2>6. QED
    BY <2>1, <2>2, <2>3, <2>5 DEF SMInv, H!Next
<1>3. CASE ProcessFailure
  <2>1. /\ results' = Append(results, FALSE) /\ UNCHANGED smConfig
        /\ consecutiveFailures' = consecutiveFailures + 1 /\ consecutiveSuccesses' = 0
        /\ currentStatus' = IF consecutiveFailures' >= bad THEN "unhealthy" ELSE currentStatus
    BY <1>3 DEF ProcessFailure
  <2>2. results' \in Seq(BOOLEAN)
    BY <2>1 DEF SMInv
  <2>3. Tally(results', TRUE, consecutiveSuccesses') /\ Tally(results', FALSE, consecutiveFailures')
    BY <2>1, TallyGrows, TallyEnds DEF SMInv
  <2>4. consecutiveFailures' >= bad <=> H!EndsWith(results', FALSE, bad)
    BY <1>1, <2>2, <2>3, TallyDecides
  <2>5. H!Observe(FALSE)
    BY <2>1, <2>4 DEF H!Observe
  <2>6. QED
    BY <2>1, <2>2, <2>3, <2>5 DEF SMInv, H!Next
<1>4. CASE Reset
  BY <1>4 DEF Reset, SMInv, Tally, H!Next, H!Forget
<1>5. CASE UNCHANGED smVars
  BY <1>5 DEF smVars, SMInv, H!vars
<1>6. QED
  BY <1>2, <1>3, <1>4, <1>5 DEF SMNext

(* The state machine changes its status exactly when the last results, as   *)
(* many as the threshold says, agree: for all thresholds, also ones that    *)
(* are not positive, and after any history and any Reset.                   *)
THEOREM StateMachineImplementsHysteresis == SMSpec => ImplementsHysteresis
<1>1. SMInit => H!Init
  <2> SUFFICES ASSUME SMInit PROVE H!Init
    OBVIOUS
  <2>1. /\ effective(smConfig.ThresholdHealthy) \in Nat \ {0}
        /\ effective(smConfig.ThresholdUnhealthy) \in Nat \ {0}
    BY SMInvInit, effectiveType DEF SMInv
  <2>2. QED
    BY <2>1 DEF SMInit, H!Init
<1>2. SMInv /\ [SMNext]_smVars => SMInv' /\ [H!Next]_H!vars
  BY SMStep
<1>3. QED
  BY <1>1, <1>2, SMInvInit, PTL DEF SMSpec, ImplementsHysteresis, H!Spec

-----------------------------------------------------------------------------
(***************************************************************************)
(* Conservation is an equation of counts per key.  Total is its right hand *)
(* side; each step that moves data moves it from one summand to another.   *)
(***************************************************************************)
Total(b, f, t, l, x) == Merged(Merged(Merged(b, f), Merged(t, l)), x)

(* A bucket with no probe is data, and so is what two buckets merge to. *)
LEMMA DataType == NoData \in Data /\ \A d, e \in Data : Merged(d, e) \in Data
<1>1. FALSE \in BOOLEAN
  BY Zenon
<1>2. NoData \in Data
  BY <1>1 DEF NoData, Data
<1>3. QED
  BY <1>2 DEF Merged, Data

(* Adding to the first summand adds to the total. *)
LEMMA TotalAdds ==
    ASSUME NEW b \in Data, NEW f \in Data, NEW t \in Data, NEW l \in Data, NEW x \in Data,
           NEW d \in Data
    PROVE  Total(Merged(b, d), f, t, l, x) = Merged(Total(b, f, t, l, x), d)
BY DEF Total, Merged, Data

(* What is drained, written, lost or removed as old stays in the total. *)
LEMMA TotalMoves ==
    ASSUME NEW b \in Data, NEW f \in Data, NEW t \in Data, NEW l \in Data, NEW x \in Data
    PROVE  /\ Total(NoData, b, t, l, x) = Total(b, NoData, t, l, x)
           /\ Total(b, NoData, Merged(t, f), l, x) = Total(b, f, t, l, x)
           /\ Total(b, NoData, t, Merged(l, f), x) = Total(b, f, t, l, x)
           /\ Total(b, f, NoData, l, Merged(x, t)) = Total(b, f, t, l, x)
BY DEF Total, Merged, NoData, Data

(* The invariant: types, and nothing is drained but during a flush. *)
HistInv ==
    /\ HistTypeOK
    /\ fpc # "write" => toFlush = NoKeys
    /\ Conservation

(* A new aggregator has recorded nothing. *)
LEMMA HistInvInit == HistInit => HistInv
<1> SUFFICES ASSUME HistInit PROVE HistInv
  OBVIOUS
<1>1. NoKeys \in [Keys -> Data] /\ \A k \in Keys : NoKeys[k] = NoData
  BY DataType DEF NoKeys
<1>2. lastFlush \in BOOLEAN /\ aggDone \in BOOLEAN
  BY Zenon DEF HistInit
<1>3. now \in Buckets /\ fbucket \in Buckets /\ records \in 0 .. MaxRecords
      /\ writeErrors \in 0 .. MaxWriteErrors
  BY HistoryAssumption DEF HistInit, Buckets, HistoryAssumption
<1>4. HistTypeOK
  BY <1>1, <1>2, <1>3 DEF HistInit, HistTypeOK
<1>5. NoData = Total(NoData, NoData, NoData, NoData, NoData)
  <2>1. Merged(NoData, NoData) = NoData
    <3>1. \A d \in Data : Merged(d, NoData) = d
      BY DEF Merged, NoData, Data
    <3>2. QED
      BY <3>1, DataType
  <2>2. QED
    BY <2>1 DEF Total
<1>6. Conservation
  BY <1>1, <1>5 DEF HistInit, Conservation, Total
<1>7. QED
  BY <1>4, <1>6 DEF HistInv, HistInit

(* Every step keeps the types. *)
LEMMA HistTypeNext ==
    ASSUME HistTypeOK, [HistNext]_histVars
    PROVE  HistTypeOK'
<1> USE HistoryAssumption DEF HistoryAssumption, HistTypeOK
<1>1. CASE Tick
  BY <1>1 DEF Tick, Buckets
<1>2. ASSUME NEW p \in Recorders, ComputeKey(p)
      PROVE  HistTypeOK'
  <2>1. PICK b \in Watched, what \in {"probe", "select"} :
           /\ rpc' = [rpc EXCEPT ![p] = what]
           /\ rkey' = [rkey EXCEPT ![p] = <<b, now>>]
    BY <1>2 DEF ComputeKey
  <2>2. <<b, now>> \in Keys
    BY DEF Keys
  <2>3. QED
    BY <1>2, <2>1, <2>2 DEF ComputeKey
<1>3. ASSUME NEW p \in Recorders, Record(p)
      PROVE  HistTypeOK'
  <2>1. PICK d \in Data :
           /\ buckets' = [buckets EXCEPT ![rkey[p]] = Merged(@, d)]
           /\ seen' = [seen EXCEPT ![rkey[p]] = Merged(@, d)]
    <3>1. TRUE \in BOOLEAN /\ FALSE \in BOOLEAN
      BY Zenon
    <3>2. Probe(TRUE) \in Data /\ Probe(FALSE) \in Data /\ Selection \in Data
      BY <3>1 DEF Probe, Selection, Data
    <3>3. QED
      BY <1>3, <3>2 DEF Record
  <2>2. buckets' \in [Keys -> Data] /\ seen' \in [Keys -> Data]
    BY <1>3, <2>1, DataType DEF Record
  <2>3. QED
    BY <1>3, <2>2 DEF Record
<1>4. CASE StartLoop \/ ReadClock \/ Flushed
  BY <1>4 DEF StartLoop, ReadClock, Flushed
<1>5. CASE CancelAggregator \/ TickerFires \/ ContextDone
  <2>1. lastFlush' \in BOOLEAN /\ aggDone' \in BOOLEAN
    BY <1>5, Zenon DEF CancelAggregator, TickerFires, ContextDone
  <2>2. QED
    BY <1>5, <2>1 DEF CancelAggregator, TickerFires, ContextDone
<1>6. CASE Drain
  <2>1. toFlush' \in [Keys -> Data] /\ buckets' \in [Keys -> Data]
    BY <1>6, DataType DEF Drain
  <2>2. QED
    BY <1>6, <2>1 DEF Drain
<1>7. ASSUME NEW k \in Keys, UpsertHealthHistoryBucket(k)
      PROVE  HistTypeOK'
  <2>1. table' \in [Keys -> Data] /\ toFlush' \in [Keys -> Data]
    BY <1>7, DataType DEF UpsertHealthHistoryBucket, onConflict
  <2>2. QED
    BY <1>7, <2>1 DEF UpsertHealthHistoryBucket
<1>8. ASSUME NEW k \in Keys, UpsertFails(k)
      PROVE  HistTypeOK'
  <2>1. lost' \in [Keys -> Data] /\ toFlush' \in [Keys -> Data]
    BY <1>8, DataType DEF UpsertFails
  <2>2. QED
    BY <1>8, <2>1 DEF UpsertFails
<1>9. ASSUME NEW cutoff \in 1 .. now, DeleteOldHealthHistory(cutoff)
      PROVE  HistTypeOK'
  <2>1. table' \in [Keys -> Data] /\ expired' \in [Keys -> Data]
    BY <1>9, DataType DEF DeleteOldHealthHistory
  <2>2. QED
    BY <1>9, <2>1 DEF DeleteOldHealthHistory
<1>10. CASE UNCHANGED histVars
  BY <1>10 DEF histVars
<1>11. QED
  BY <1>1, <1>2, <1>3, <1>4, <1>5, <1>6, <1>7, <1>8, <1>9, <1>10 DEF HistNext, FlushStep

(* Every step keeps the counts. *)
LEMMA HistInvNext ==
    ASSUME HistInv, [HistNext]_histVars
    PROVE  HistInv'
<1>1. /\ buckets \in [Keys -> Data] /\ toFlush \in [Keys -> Data]
      /\ table \in [Keys -> Data] /\ lost \in [Keys -> Data]
      /\ expired \in [Keys -> Data] /\ seen \in [Keys -> Data]
      /\ \A k \in Keys : seen[k] = Total(buckets[k], toFlush[k], table[k], lost[k], expired[k])
  BY DEF HistInv, HistTypeOK, Conservation, Total
<1>2. HistTypeOK'
  BY HistTypeNext DEF HistInv
<1>3. SUFFICES (fpc # "write" => toFlush = NoKeys)' /\ Conservation'
  BY <1>2 DEF HistInv
<1> USE DEF Conservation
<1>4. CASE Tick \/ StartLoop \/ CancelAggregator \/ TickerFires \/ ContextDone \/ ReadClock
           \/ Flushed \/ UNCHANGED histVars
  BY <1>4 DEF HistInv, Tick, StartLoop, CancelAggregator, TickerFires, ContextDone, ReadClock,
              Flushed, histVars
<1>5. ASSUME NEW p \in Recorders, ComputeKey(p)
      PROVE  (fpc # "write" => toFlush = NoKeys)' /\ Conservation'
  BY <1>5 DEF HistInv, ComputeKey
<1>6. ASSUME NEW p \in Recorders, Record(p)
      PROVE  (fpc # "write" => toFlush = NoKeys)' /\ Conservation'
  <2>1. rkey[p] \in Keys
    BY <1>6 DEF HistInv, HistTypeOK, Record
  <2>2. PICK d \in Data :
           /\ buckets' = [buckets EXCEPT ![rkey[p]] = Merged(@, d)]
           /\ seen' = [seen EXCEPT ![rkey[p]] = Merged(@, d)]
    <3>1. TRUE \in BOOLEAN /\ FALSE \in BOOLEAN
      BY Zenon
    <3>2. Probe(TRUE) \in Data /\ Probe(FALSE) \in Data /\ Selection \in Data
      BY <3>1 DEF Probe, Selection, Data
    <3>3. QED
      BY <1>6, <3>2 DEF Record
  <2>3. UNCHANGED <<fpc, toFlush, table, lost, expired>>
    BY <1>6 DEF Record
  <2>4. ASSUME NEW k \in Keys
        PROVE  seen'[k] = Total(buckets'[k], toFlush'[k], table'[k], lost'[k], expired'[k])
    <3>1. CASE k = rkey[p]
      <4>1. buckets'[k] = Merged(buckets[k], d) /\ seen'[k] = Merged(seen[k], d)
        BY <1>1, <2>2, <3>1
      <4>2. Merged(seen[k], d)
              = Total(Merged(buckets[k], d), toFlush[k], table[k], lost[k], expired[k])
        BY <1>1, TotalAdds
      <4>3. QED
        BY <2>3, <4>1, <4>2
    <3>2. CASE k # rkey[p]
      BY <1>1, <2>2, <2>3, <3>2
    <3>3. QED
      BY <3>1, <3>2
  <2>5. QED
    BY <2>3, <2>4 DEF HistInv, Total
<1>7. CASE Drain
  <2>1. toFlush = NoKeys
    BY <1>7 DEF HistInv, Drain
  <2>2. UNCHANGED <<table, lost, expired, seen>> /\ fpc' = "write"
    BY <1>7 DEF Drain
  <2>3. ASSUME NEW k \in Keys
        PROVE  seen'[k] = Total(buckets'[k], toFlush'[k], table'[k], lost'[k], expired'[k])
    <3>1. toFlush[k] = NoData
      BY <2>1 DEF NoKeys
    <3>2. CASE k[2] # fbucket
      BY <1>1, <1>7, <2>2, <3>1, <3>2, TotalMoves DEF Drain
    <3>3. CASE k[2] = fbucket
      BY <1>1, <1>7, <2>2, <3>1, <3>3 DEF Drain
    <3>4. QED
      BY <3>2, <3>3
  <2>4. QED
    BY <2>2, <2>3 DEF Total
<1>8. ASSUME NEW j \in Keys, UpsertHealthHistoryBucket(j) \/ UpsertFails(j)
      PROVE  (fpc # "write" => toFlush = NoKeys)' /\ Conservation'
  <2>1. fpc' = "write" /\ UNCHANGED <<buckets, expired, seen>>
    BY <1>8 DEF UpsertHealthHistoryBucket, UpsertFails
  <2>2. /\ toFlush' = [toFlush EXCEPT ![j] = NoData]
        /\ \/ table' = [table EXCEPT ![j] = Merged(@, toFlush[j])] /\ UNCHANGED lost
           \/ lost' = [lost EXCEPT ![j] = Merged(@, toFlush[j])] /\ UNCHANGED table
    BY <1>8 DEF UpsertHealthHistoryBucket, UpsertFails, onConflict
  <2>3. ASSUME NEW k \in Keys
        PROVE  seen'[k] = Total(buckets'[k], toFlush'[k], table'[k], lost'[k], expired'[k])
    <3>1. CASE k = j
      BY <1>1, <2>1, <2>2, <3>1, TotalMoves
    <3>2. CASE k # j
      BY <1>1, <2>1, <2>2, <3>2
    <3>3. QED
      BY <3>1, <3>2
  <2>4. QED
    BY <2>1, <2>3 DEF Total
<1>9. ASSUME NEW cutoff \in 1 .. now, DeleteOldHealthHistory(cutoff)
      PROVE  (fpc # "write" => toFlush = NoKeys)' /\ Conservation'
  <2>1. UNCHANGED <<fpc, toFlush, buckets, lost, seen>>
    BY <1>9 DEF DeleteOldHealthHistory
  <2>2. ASSUME NEW k \in Keys
        PROVE  seen'[k] = Total(buckets'[k], toFlush'[k], table'[k], lost'[k], expired'[k])
    <3>1. CASE k[2] < cutoff
      <4>1. table'[k] = NoData /\ expired'[k] = Merged(expired[k], table[k])
        BY <1>9, <3>1 DEF DeleteOldHealthHistory
      <4>2. seen[k] = Total(buckets[k], toFlush[k], NoData, lost[k], Merged(expired[k], table[k]))
        BY <1>1, TotalMoves
      <4>3. QED
        BY <2>1, <4>1, <4>2
    <3>2. CASE ~(k[2] < cutoff)
      BY <1>1, <1>9, <2>1, <3>2 DEF DeleteOldHealthHistory
    <3>3. QED
      BY <3>1, <3>2
  <2>3. QED
    BY <2>1, <2>2 DEF HistInv, Total
<1>10. QED
  BY <1>4, <1>5, <1>6, <1>7, <1>8, <1>9 DEF HistNext, FlushStep

(* The state of the aggregator keeps its type. *)
THEOREM HistTypeCorrect == HistSpec => []HistTypeOK
<1>1. HistInit => HistTypeOK
  BY HistInvInit DEF HistInv
<1>2. QED
  BY <1>1, HistTypeNext, PTL DEF HistSpec

(* What was recorded equals what is in memory, being flushed, stored, lost  *)
(* with a failed write or removed as old, for every backend and bucket.     *)
THEOREM NoProbeLostOrInvented == HistSpec => []Conservation
<1>1. HistInv => Conservation
  BY DEF HistInv
<1>2. QED
  BY <1>1, HistInvInit, HistInvNext, PTL DEF HistSpec
-----------------------------------------------------------------------------
(***************************************************************************)
(* The selectors.  upTo and GetHealthyBackends are loops, written as       *)
(* recursive functions: that such functions exist, and what they compute,  *)
(* is shown by induction, in the form of a set that holds 0 and with every *)
(* number the next one.                                                    *)
(***************************************************************************)
(* A set of numbers that is not empty has a least one. *)
LEMMA LeastNumber ==
    ASSUME NEW S \in SUBSET Nat, S # {}
    PROVE  \E n \in S : \A m \in S : n <= m
<1>1. PICK n \in S : \A m \in S : ~(<<m, n>> \in OpToRel(<, Nat))
  BY WFMin, NatLessThanWellFounded
<1>2. \A m \in S : m < n => <<m, n>> \in OpToRel(<, Nat)
  BY DEF OpToRel
<1>3. \A m \in S : ~(m < n)
  BY <1>1, <1>2, Zenon
<1>. QED  BY <1>3

(* Induction: a set that holds 0 and with a number the next one holds all. *)
LEMMA Induction ==
    ASSUME NEW S, 0 \in S, \A n \in Nat : n \in S => n + 1 \in S
    PROVE  Nat \subseteq S
<1>. DEFINE T == Nat \ S
<1>. SUFFICES ASSUME T # {} PROVE FALSE
  OBVIOUS
<1>1. PICK n \in T : \A m \in T : n <= m
  BY LeastNumber
<1>2. n # 0 /\ n \in Nat /\ n \notin S
  OBVIOUS
<1>3. n - 1 \in Nat /\ n - 1 \notin T
  BY <1>1, <1>2
<1>. QED  BY <1>2, <1>3

(* The n steps of a loop over values in A, each a function of its number   *)
(* and of the value before it; f gives the value after each step.          *)
Steps(n, A) == [(1 .. n) \X A -> A]
Runs(f, n, A, a, step) ==
    f \in [0 .. n -> A] /\ f[0] = a /\ \A i \in 1 .. n : f[i] = step[<<i, f[i - 1]>>]

(* Every loop has such an f. *)
LEMMA Loop ==
    ASSUME NEW A, NEW a \in A, NEW n \in Nat, NEW step \in Steps(n, A)
    PROVE  \E f : Runs(f, n, A, a, step)
<1>. DEFINE S == {m \in Nat : m <= n => \E f : Runs(f, m, A, a, step)}
<1>1. 0 \in S
  <2>1. Runs([i \in 0 .. 0 |-> a], 0, A, a, step)
    BY DEF Runs
  <2>. QED  BY <2>1
<1>2. ASSUME NEW m \in Nat, m \in S PROVE m + 1 \in S
  <2>. SUFFICES ASSUME m + 1 <= n PROVE \E f : Runs(f, m + 1, A, a, step)
    OBVIOUS
  <2>1. PICK f : Runs(f, m, A, a, step)
    BY <1>2
  <2>. DEFINE g == [i \in 0 .. m + 1 |-> IF i <= m THEN f[i] ELSE step[<<m + 1, f[m]>>]]
  <2>2. f \in [0 .. m -> A] /\ f[m] \in A /\ <<m + 1, f[m]>> \in (1 .. n) \X A
    BY <2>1 DEF Runs
  <2>3. step[<<m + 1, f[m]>>] \in A
    BY <2>2 DEF Steps
  <2>4. g \in [0 .. m + 1 -> A]
    BY <2>2, <2>3
  <2>5. /\ g[0] = f[0]
        /\ \A i \in 1 .. m : g[i] = f[i] /\ g[i - 1] = f[i - 1]
        /\ g[m] = f[m] /\ g[m + 1] = step[<<m + 1, f[m]>>]
    OBVIOUS
  <2>. HIDE DEF g
  <2>6. ASSUME NEW i \in 1 .. m + 1 PROVE g[i] = step[<<i, g[i - 1]>>]
    <3>1. CASE i \in 1 .. m
      BY <3>1, <2>1, <2>5 DEF Runs
    <3>2. CASE i = m + 1
      BY <3>2, <2>5
    <3>. QED  BY <3>1, <3>2
  <2>7. Runs(g, m + 1, A, a, step)
    BY <2>1, <2>4, <2>5, <2>6 DEF Runs
  <2>. QED  BY <2>7
<1>. HIDE DEF S
<1>3. n \in S
  BY <1>1, <1>2, Induction
<1>. QED  BY <1>3 DEF S

(* Division with remainder, and that there is no other remainder. *)
LEMMA Remainder ==
    ASSUME NEW a \in Nat, NEW T \in Nat \ {0}
    PROVE  a % T \in 0 .. T - 1 /\ \E q \in Int : a = T * q + (a % T)
<1>1. a % T \in Nat /\ a % T < T /\ a \div T \in Int /\ a = T * (a \div T) + (a % T)
  OBVIOUS
<1>2. \E q \in Int : a = T * q + (a % T)
  BY <1>1, Zenon
<1>3. a % T \in 0 .. T - 1
  BY <1>1
<1>. QED  BY <1>2, <1>3, Zenon

LEMMA SameRemainder ==
    ASSUME NEW q \in Int, NEW p \in Int, NEW r \in Int, NEW s \in Int, NEW T \in Nat \ {0},
           0 <= r, r < T, 0 <= s, s < T, T * q + r = T * p + s
    PROVE  r = s
OBVIOUS

LEMMA OnlyRemainder ==
    ASSUME NEW a \in Nat, NEW T \in Nat \ {0}, NEW q \in Int, NEW r \in 0 .. T - 1, a = T * q + r
    PROVE  a % T = r
<1>. DEFINE s == a % T
<1>1. PICK p \in Int : s \in 0 .. T - 1 /\ a = T * p + s
  BY Remainder
<1>. HIDE DEF s
<1>2. r \in Int /\ s \in Int /\ 0 <= r /\ r < T /\ 0 <= s /\ s < T
  BY <1>1
<1>3. r = s
  BY <1>1, <1>2, SameRemainder
<1>. QED  BY <1>3 DEF s

(* The remainder of a sum, when what is added is less than the divisor. *)
LEMMA RemainderOfSum ==
    ASSUME NEW a \in Nat, NEW T \in Nat \ {0}, NEW j \in 0 .. T - 1
    PROVE  (a + j) % T = IF (a % T) + j < T THEN (a % T) + j ELSE (a % T) + j - T
<1>. DEFINE r == a % T
<1>1. PICK q \in Int : r \in 0 .. T - 1 /\ a = T * q + r
  BY Remainder
<1>. HIDE DEF r
<1>2. a + j \in Nat /\ a + j = T * q + (r + j) /\ a + j = T * (q + 1) + (r + j - T)
  BY <1>1
<1>. SUFFICES (a + j) % T = IF r + j < T THEN r + j ELSE r + j - T
  BY DEF r
<1>u. ASSUME NEW p \in Int, NEW s \in 0 .. T - 1, a + j = T * p + s PROVE (a + j) % T = s
  BY <1>2, <1>u, OnlyRemainder
<1>3. CASE r + j < T
  <2>1. r + j \in 0 .. T - 1
    BY <1>1, <1>3
  <2>2. (a + j) % T = r + j
    BY <1>u, <1>2, <2>1
  <2>. QED  BY <1>3, <2>2
<1>4. CASE ~(r + j < T)
  <2>1. r + j - T \in 0 .. T - 1 /\ q + 1 \in Int
    BY <1>1, <1>4
  <2>2. (a + j) % T = r + j - T
    BY <1>u, <1>2, <2>1
  <2>. QED  BY <1>4, <2>2
<1>. QED  BY <1>3, <1>4

(* Of the T numbers from base + from on, those with a remainder in lo .. hi - 1. *)
Hits(from, T, base, lo, hi) == {k \in from .. from + T - 1 : (base + k) % T \in lo .. hi - 1}

(* In T numbers in a row the remainders in a range of 0 .. T - 1 occur     *)
(* exactly once each.                                                      *)
LEMMA OneTurn ==
    ASSUME NEW a \in Nat, NEW from \in Int, NEW T \in Nat \ {0},
           NEW lo \in 0 .. T, NEW hi \in lo .. T,
           NEW base \in Int, base + from = a
    PROVE  Cardinality(Hits(from, T, base, lo, hi)) = hi - lo
<1>. DEFINE r == a % T
            calls == {k \in from .. from + T - 1 : (base + k) % T \in lo .. hi - 1}
            call == [o \in lo .. hi - 1 |-> IF o >= r THEN from + o - r ELSE from + o - r + T]
<1>1. r \in 0 .. T - 1
  BY Remainder
<1>2. ASSUME NEW k \in from .. from + T - 1
      PROVE  (base + k) % T = IF r + (k - from) < T THEN r + (k - from) ELSE r + (k - from) - T
  <2>1. k - from \in 0 .. T - 1 /\ base + k = a + (k - from)
    OBVIOUS
  <2>. QED  BY <2>1, RemainderOfSum
<1>. HIDE DEF r
<1>3. ASSUME NEW o \in lo .. hi - 1
      PROVE  call[o] \in from .. from + T - 1 /\ (base + call[o]) % T = o
  <2>1. call[o] = IF o >= r THEN from + o - r ELSE from + o - r + T
    OBVIOUS
  <2>2. call[o] \in from .. from + T - 1
    BY <1>1, <2>1
  <2>3. PICK k \in from .. from + T - 1 : k = call[o]
    BY <2>2
  <2>4. (base + k) % T = IF r + (k - from) < T THEN r + (k - from) ELSE r + (k - from) - T
    BY <1>2
  <2>. QED  BY <1>1, <2>1, <2>2, <2>3, <2>4
<1>. HIDE DEF call
<1>4. call \in [lo .. hi - 1 -> calls]
  BY <1>3 DEF call
<1>5. \A o, p \in lo .. hi - 1 : call[o] = call[p] => o = p
  BY <1>3
<1>6. \A k \in calls : \E o \in lo .. hi - 1 : call[o] = k
  <2>. TAKE k \in calls
  <2>. DEFINE o == (base + k) % T
  <2>1. o \in lo .. hi - 1
    OBVIOUS
  <2>2. o = IF r + (k - from) < T THEN r + (k - from) ELSE r + (k - from) - T
    BY <1>2
  <2>. HIDE DEF o
  <2>3. call[o] = IF o >= r THEN from + o - r ELSE from + o - r + T
    BY <2>1 DEF call
  <2>. QED  BY <1>1, <2>1, <2>2, <2>3
<1>7. call \in Bijection(lo .. hi - 1, calls)
  <2>. HIDE DEF calls
  <2>1. call \in Injection(lo .. hi - 1, calls)
    BY <1>4, <1>5, Zenon DEF Injection, IsInjective
  <2>2. call \in Surjection(lo .. hi - 1, calls)
    BY <1>4, <1>6 DEF Surjection
  <2>. QED  BY <2>1, <2>2 DEF Bijection
<1>8. ExistsBijection(lo .. hi - 1, calls)
  BY <1>7 DEF ExistsBijection
<1>9. IsFiniteSet(lo .. hi - 1) /\ Cardinality(lo .. hi - 1) = hi - lo
  <2>1. PICK h \in Int : h = hi - 1
    OBVIOUS
  <2>2. IsFiniteSet(lo .. h) /\ Cardinality(lo .. h) = IF lo > h THEN 0 ELSE h - lo + 1
    BY FS_Interval
  <2>. QED  BY <2>1, <2>2
<1>. QED  BY <1>8, <1>9, FS_Bijection DEF Hits

(* A weight counts as a number. *)
LEMMA PositiveWeight ==
    ASSUME NEW b \in Seq(Server), NEW i \in 1 .. Len(b)
    PROVE  positive(b[i].weight) \in Nat
<1>1. PICK x \in Server : x = b[i]
  OBVIOUS
<1>2. x.weight \in Int
  BY DEF Server
<1>3. positive(x.weight) \in Nat
  BY <1>2 DEF positive
<1>. QED  BY <1>1, <1>3

(* The loop over the weights gives numbers that grow by them. *)
LEMMA UpTo ==
    ASSUME NEW b \in Seq(Server)
    PROVE  /\ upTo(b) \in [0 .. Len(b) -> Nat]
           /\ upTo(b)[0] = 0
           /\ \A i \in 1 .. Len(b) : upTo(b)[i] = upTo(b)[i - 1] + positive(b[i].weight)
<1>. DEFINE n == Len(b)
            add == [p \in (1 .. n) \X Nat |-> p[2] + positive(b[p[1]].weight)]
            IsLoop(f) == f = [i \in 0 .. n |-> IF i = 0 THEN 0 ELSE f[i - 1] + positive(b[i].weight)]
<1>1. n \in Nat /\ \A i \in 1 .. n : positive(b[i].weight) \in Nat
  BY PositiveWeight
<1>2. add \in Steps(n, Nat)
  BY <1>1 DEF Steps
<1>3. \A i \in 1 .. n, x \in Nat : add[<<i, x>>] = x + positive(b[i].weight)
  OBVIOUS
<1>. HIDE DEF add
<1>4. PICK g : Runs(g, n, Nat, 0, add)
  BY <1>1, <1>2, Loop
<1>g. g \in [0 .. n -> Nat] /\ g[0] = 0 /\ \A i \in 1 .. n : g[i] = add[<<i, g[i - 1]>>]
  BY <1>4 DEF Runs
<1>5. \A i \in 1 .. n : g[i] = g[i - 1] + positive(b[i].weight)
  <2>. TAKE i \in 1 .. n
  <2>1. i - 1 \in 0 .. n
    BY <1>1
  <2>2. g[i - 1] \in Nat
    BY <1>g, <2>1
  <2>. QED  BY <1>3, <1>g, <2>2
<1>6. IsLoop(g)
  BY <1>1, <1>g, <1>5
<1>7. upTo(b) = CHOOSE f : IsLoop(f)
  BY DEF upTo
<1>8. IsLoop(upTo(b))
  BY <1>6, <1>7
<1>. DEFINE u == upTo(b)
<1>. HIDE DEF u
<1>9. /\ u[0] = 0 /\ DOMAIN u = 0 .. n
      /\ \A i \in 1 .. n : u[i] = u[i - 1] + positive(b[i].weight)
      /\ u = [i \in 0 .. n |-> u[i]]
  BY <1>1, <1>8 DEF u
<1>. DEFINE S == {m \in Nat : m <= n => u[m] \in Nat}
<1>10. 0 \in S
  BY <1>9
<1>11. ASSUME NEW m \in Nat, m \in S PROVE m + 1 \in S
  <2>. SUFFICES ASSUME m + 1 <= n PROVE u[m + 1] \in Nat
    OBVIOUS
  <2>1. m + 1 \in 1 .. n /\ u[m] \in Nat
    BY <1>1, <1>11
  <2>2. u[m + 1] = u[m] + positive(b[m + 1].weight)
    <3>1. (m + 1) - 1 = m
      OBVIOUS
    <3>. QED  BY <1>9, <2>1, <3>1
  <2>. QED  BY <1>1, <2>1, <2>2
<1>. HIDE DEF S
<1>12. Nat \subseteq S
  BY <1>10, <1>11, Induction
<1>13. \A i \in 0 .. n : u[i] \in Nat
  BY <1>1, <1>12 DEF S
<1>14. u \in [0 .. n -> Nat]
  BY <1>9, <1>13
<1>. QED  BY <1>9, <1>14 DEF u

(* The sums never shrink: no backend's range ends before it begins. *)
LEMMA UpToGrows ==
    ASSUME NEW b \in Seq(Server), NEW i \in 0 .. Len(b), NEW j \in i .. Len(b)
    PROVE  upTo(b)[i] <= upTo(b)[j]
<1>. DEFINE n == Len(b)
            u == upTo(b)
            S == {m \in Nat : i + m <= n => u[i] <= u[i + m]}
<1>1. n \in Nat /\ u \in [0 .. n -> Nat] /\ \A k \in 1 .. n : u[k] = u[k - 1] + positive(b[k].weight)
  BY UpTo
<1>2. \A k \in 1 .. n : positive(b[k].weight) \in Nat
  BY PositiveWeight
<1>. HIDE DEF u
<1>3. 0 \in S
  BY <1>1
<1>4. ASSUME NEW m \in Nat, m \in S PROVE m + 1 \in S
  <2>. SUFFICES ASSUME i + m + 1 <= n PROVE u[i] <= u[i + m + 1]
    BY <1>1
  <2>1. i + m + 1 \in 1 .. n /\ i + m \in 0 .. n /\ u[i] <= u[i + m]
    BY <1>1, <1>4
  <2>2. u[i + m + 1] = u[i + m] + positive(b[i + m + 1].weight)
    BY <1>1, <2>1
  <2>3. u[i] \in Nat /\ u[i + m] \in Nat /\ positive(b[i + m + 1].weight) \in Nat
    BY <1>1, <1>2, <2>1
  <2>. QED  BY <2>1, <2>2, <2>3
<1>. HIDE DEF S
<1>5. j - i \in S
  <2>1. Nat \subseteq S
    BY <1>3, <1>4, Induction
  <2>2. j - i \in Nat
    BY <1>1
  <2>. QED  BY <2>1, <2>2
<1>. QED  BY <1>1, <1>5 DEF S, u

(* The weighted choice is the backend in whose range the offset lies. *)
LEMMA AtOffset ==
    ASSUME NEW b \in Seq(Server), totalWeight(b) > 0, NEW count \in Nat
    PROVE  /\ totalWeight(b) \in Nat
           /\ atOffset(b, count) \in 1 .. Len(b)
           /\ \A i \in 1 .. Len(b) : atOffset(b, count) = i
                  <=> count % totalWeight(b) \in upTo(b)[i - 1] .. upTo(b)[i] - 1
<1>. DEFINE n == Len(b)
            u == upTo(b)
            T == totalWeight(b)
            o == count % T
            First(i) == o < u[i] /\ \A j \in 1 .. i - 1 : o >= u[j]
            S == {i \in 1 .. n : o < u[i]}
<1>1. n \in Nat /\ u \in [0 .. n -> Nat] /\ u[0] = 0 /\ T = u[n] /\ T \in Nat \ {0}
  BY UpTo DEF totalWeight
<1>2. o \in 0 .. T - 1
  BY <1>1, Remainder
<1>. HIDE DEF o, T
<1>3. n # 0 /\ n \in S
  BY <1>1, <1>2
<1>4. PICK i \in S : \A m \in S : i <= m
  <2>1. S \in SUBSET Nat /\ S # {}
    BY <1>1, <1>3
  <2>. HIDE DEF S
  <2>. QED  BY <2>1, LeastNumber
<1>5. First(i)
  BY <1>1, <1>2, <1>4
<1>6. atOffset(b, count) = CHOOSE k \in 1 .. n : First(k)
  BY DEF atOffset, o, T
<1>. DEFINE c == atOffset(b, count)
<1>7. c \in 1 .. n /\ First(c)
  BY <1>5, <1>6
<1>. HIDE DEF c
<1>8. o \in u[c - 1] .. u[c] - 1
  <2>1. u[c - 1] <= o
    BY <1>1, <1>2, <1>7
  <2>. QED  BY <1>1, <1>2, <1>7, <2>1
<1>9. ASSUME NEW k \in 1 .. n, o \in u[k - 1] .. u[k] - 1 PROVE k = c
  <2>1. u[k - 1] <= o /\ o < u[k] /\ u[c - 1] <= o /\ o < u[c] /\ o \in Nat
    BY <1>1, <1>2, <1>7, <1>8, <1>9
  <2>2. CASE k < c
    <3>1. u[k] <= u[c - 1]
      BY <1>1, <1>7, <2>2, UpToGrows
    <3>2. u[k] \in Nat /\ u[c - 1] \in Nat
      BY <1>1, <1>7
    <3>. QED  BY <2>1, <3>1, <3>2
  <2>3. CASE c < k
    <3>1. u[c] <= u[k - 1]
      BY <1>1, <1>7, <2>3, UpToGrows
    <3>2. u[c] \in Nat /\ u[k - 1] \in Nat
      BY <1>1, <1>7
    <3>. QED  BY <2>1, <3>1, <3>2
  <2>. QED  BY <1>7, <2>2, <2>3
<1>. QED  BY <1>1, <1>7, <1>8, <1>9 DEF c, o, T

(* What a selector chooses is decided by the remainder of the count: the   *)
(* backend in whose range, of the size of its share, the remainder lies.   *)
Start(b, i) == IF weighted /\ totalWeight(b) > 0 THEN upTo(b)[i - 1] ELSE i - 1
LEMMA Chosen ==
    ASSUME NEW b \in Seq(Server), b # <<>>, NEW i \in 1 .. Len(b)
    PROVE  /\ Turns(b) \in Nat \ {0}
           /\ Start(b, i) \in 0 .. Turns(b)
           /\ Start(b, i) + ShareOf(b, i) \in Start(b, i) .. Turns(b)
           /\ \A count \in Nat : chosen(b, count) = i
                  <=> count % Turns(b) \in Start(b, i) .. (Start(b, i) + ShareOf(b, i)) - 1
<1>0. Len(b) \in Nat \ {0}
  OBVIOUS
<1>1. CASE weighted /\ totalWeight(b) > 0
  <2>. DEFINE u == upTo(b)
  <2>1. u \in [0 .. Len(b) -> Nat] /\ u[i] = u[i - 1] + positive(b[i].weight) /\ totalWeight(b) = u[Len(b)]
    BY UpTo DEF totalWeight
  <2>2. u[i - 1] <= u[i] /\ u[i] <= u[Len(b)]
    BY <1>0, UpToGrows
  <2>3. /\ Turns(b) = u[Len(b)] /\ Start(b, i) = u[i - 1] /\ ShareOf(b, i) = u[i] - u[i - 1]
        /\ u[i - 1] \in Nat /\ u[i] \in Nat /\ u[Len(b)] \in Nat /\ u[Len(b)] > 0
    <3>1. positive(b[i].weight) \in Nat
      BY PositiveWeight
    <3>. QED  BY <1>0, <1>1, <2>1, <3>1 DEF Turns, Start, ShareOf
  <2>4. \A count \in Nat : chosen(b, count) = i <=> count % totalWeight(b) \in u[i - 1] .. u[i] - 1
    BY <1>1, AtOffset DEF chosen
  <2>. HIDE DEF u
  <2>5. Start(b, i) + ShareOf(b, i) = u[i]
    BY <2>3
  <2>. QED  BY <2>1, <2>2, <2>3, <2>4, <2>5
<1>2. CASE ~(weighted /\ totalWeight(b) > 0)
  <2>1. Turns(b) = Len(b) /\ Start(b, i) = i - 1 /\ ShareOf(b, i) = 1
    BY <1>2 DEF Turns, Start, ShareOf
  <2>2. \A count \in Nat : chosen(b, count) = (count % Len(b)) + 1 /\ count % Len(b) \in 0 .. Len(b) - 1
    BY <1>0, <1>2, Remainder DEF chosen
  <2>3. Len(b) \in Nat \ {0} /\ i - 1 \in 0 .. Len(b) /\ i \in i - 1 .. Len(b)
    BY <1>0
  <2>4. \A count \in Nat : chosen(b, count) = i <=> count % Len(b) \in i - 1 .. i - 1 + 1 - 1
    <3>. TAKE count \in Nat
    <3>1. PICK r \in 0 .. Len(b) - 1 : r = count % Len(b)
      BY <2>2
    <3>2. chosen(b, count) = r + 1
      BY <2>2, <3>1
    <3>3. r + 1 = i <=> r \in i - 1 .. i - 1 + 1 - 1
      BY <1>0
    <3>. QED  BY <3>1, <3>2, <3>3
  <2>5. i - 1 + 1 = i
    OBVIOUS
  <2>. QED  BY <2>1, <2>3, <2>4, <2>5
<1>. QED  BY <1>1, <1>2

(* The healthy backends of a pool are a slice of backends. *)
LEMMA HealthySlice ==
    ASSUME NEW b \in Seq(Server), NEW states
    PROVE  GetHealthyBackends(b, states) \in Seq(Server)
<1>. DEFINE n == Len(b)
            keep == [p \in (1 .. n) \X Seq(Server) |->
                        IF serves(b[p[1]], states) THEN Append(p[2], b[p[1]]) ELSE p[2]]
            Body(f, i) == IF i = 0 THEN <<>>
                          ELSE IF serves(b[i], states) THEN Append(f[i - 1], b[i])
                          ELSE f[i - 1]
            IsLoop(f) == f = [i \in 0 .. n |-> Body(f, i)]
<1>1. n \in Nat /\ <<>> \in Seq(Server)
  OBVIOUS
<1>2. keep \in Steps(n, Seq(Server))
  <2>1. \A i \in 1 .. n, s \in Seq(Server) : Append(s, b[i]) \in Seq(Server)
    OBVIOUS
  <2>. QED  BY <2>1 DEF Steps
<1>3. \A i \in 1 .. n, s \in Seq(Server) :
          keep[<<i, s>>] = IF serves(b[i], states) THEN Append(s, b[i]) ELSE s
  OBVIOUS
<1>. HIDE DEF keep
<1>4. PICK g : Runs(g, n, Seq(Server), <<>>, keep)
  BY <1>1, <1>2, Loop
<1>5. /\ g \in [0 .. n -> Seq(Server)] /\ g[0] = <<>>
      /\ \A i \in 1 .. n : g[i] = keep[<<i, g[i - 1]>>]
  BY <1>4 DEF Runs
<1>6. \A i \in 1 .. n : g[i] = IF serves(b[i], states) THEN Append(g[i - 1], b[i]) ELSE g[i - 1]
  <2>. TAKE i \in 1 .. n
  <2>1. i - 1 \in 0 .. n
    BY <1>1
  <2>2. g[i - 1] \in Seq(Server)
    BY <1>5, <2>1
  <2>. QED  BY <1>3, <1>5, <2>2
<1>7. IsLoop(g)
  <2>1. ASSUME NEW i \in 0 .. n PROVE g[i] = Body(g, i)
    <3>1. CASE i = 0
      BY <3>1, <1>5
    <3>2. CASE i \in 1 .. n
      BY <3>2, <1>6
    <3>. QED  BY <1>1, <3>1, <3>2
  <2>. HIDE DEF Body
  <2>. QED  BY <1>5, <2>1
<1>. DEFINE h == CHOOSE f : IsLoop(f)
<1>8. IsLoop(h)
  BY <1>7
<1>9. GetHealthyBackends(b, states) = h[n]
  BY DEF GetHealthyBackends
<1>. HIDE DEF h
<1>10. /\ h[0] = <<>>
       /\ \A i \in 1 .. n : h[i] = IF serves(b[i], states) THEN Append(h[i - 1], b[i]) ELSE h[i - 1]
  <2>1. ASSUME NEW i \in 0 .. n PROVE h[i] = Body(h, i)
    <3>. HIDE DEF Body
    <3>. QED  BY <1>8
  <2>2. h[0] = Body(h, 0) /\ \A i \in 1 .. n : h[i] = Body(h, i) /\ i # 0
    BY <1>1, <2>1
  <2>. QED  BY <2>2
<1>. DEFINE S == {m \in Nat : m <= n => h[m] \in Seq(Server)}
<1>11. 0 \in S
  BY <1>1, <1>10
<1>12. ASSUME NEW m \in Nat, m \in S PROVE m + 1 \in S
  <2>. SUFFICES ASSUME m + 1 <= n PROVE h[m + 1] \in Seq(Server)
    OBVIOUS
  <2>1. m + 1 \in 1 .. n /\ h[m] \in Seq(Server) /\ (m + 1) - 1 = m
    BY <1>1, <1>12
  <2>2. h[m + 1] = IF serves(b[m + 1], states) THEN Append(h[m], b[m + 1]) ELSE h[m]
    BY <1>10, <2>1
  <2>3. Append(h[m], b[m + 1]) \in Seq(Server)
    BY <2>1
  <2>. QED  BY <2>1, <2>2, <2>3
<1>. HIDE DEF S
<1>13. n \in S
  BY <1>1, <1>11, <1>12, Induction
<1>. QED  BY <1>9, <1>13 DEF S

(* The calls remembered are the last ones, each with its count: the counter *)
(* was incremented by one for every one of them, and did not wrap around.   *)
SelTypeOK ==
    /\ pool \in Seq(Server) /\ slice \in Seq(Server)
    /\ counter \in 0 .. 2^CounterBits - 1
    /\ picks \in Seq(Nat)
    /\ Len(picks) <= counter + 1
    /\ slice = <<>> => picks = <<>>
Counted == \A k \in 1 .. Len(picks) : picks[k] = chosen(slice, counter - Len(picks) + k)
SelInv == SelTypeOK /\ Counted

(* What is chosen is an index of the slice. *)
LEMMA ChosenIndex ==
    ASSUME NEW b \in Seq(Server), b # <<>>, NEW count \in Nat
    PROVE  chosen(b, count) \in Nat
<1>1. CASE weighted /\ totalWeight(b) > 0
  <2>1. atOffset(b, count) \in 1 .. Len(b) /\ chosen(b, count) = atOffset(b, count)
    BY <1>1, AtOffset DEF chosen
  <2>. QED  BY <2>1
<1>2. CASE ~(weighted /\ totalWeight(b) > 0)
  <2>1. Len(b) \in Nat \ {0}
    OBVIOUS
  <2>. QED  BY <1>2, <2>1, Remainder DEF chosen
<1>. QED  BY <1>1, <1>2

(* The counter goes up by one, or it wraps around to zero. *)
LEMMA Increment ==
    ASSUME NEW c \in 0 .. 2^CounterBits - 1
    PROVE  (c + 1) % 2^CounterBits \in {0, c + 1} /\ (c + 1) % 2^CounterBits \in 0 .. 2^CounterBits - 1
<1>. DEFINE M == 2^CounterBits
<1>1. M \in Nat \ {0}
  BY SelectorAssumption
<1>. HIDE DEF M
<1>. SUFFICES (c + 1) % M \in {0, c + 1} /\ (c + 1) % M \in 0 .. M - 1
  BY DEF M
<1>2. c \in Nat /\ c < M /\ c + 1 \in Nat
  BY <1>1 DEF M
<1>3. CASE c + 1 < M
  <2>1. c + 1 \in 0 .. M - 1 /\ c + 1 = M * 0 + (c + 1)
    BY <1>1, <1>2, <1>3
  <2>2. (c + 1) % M = c + 1
    BY <1>1, <1>2, <2>1, OnlyRemainder
  <2>. QED  BY <2>1, <2>2
<1>4. CASE c + 1 = M
  <2>1. 0 \in 0 .. M - 1 /\ c + 1 = M * 1 + 0
    BY <1>1, <1>4
  <2>2. (c + 1) % M = 0
    BY <1>1, <1>2, <2>1, OnlyRemainder
  <2>. QED  BY <2>1, <2>2
<1>. QED  BY <1>1, <1>2, <1>3, <1>4

(* A call appends its choice to those it can be counted with. *)
LEMMA SelectCounted ==
    ASSUME SelInv, NEW states, Select(states)
    PROVE  SelInv'
<1>. DEFINE b == GetHealthyBackends(pool, states)
            pick == chosen(b, counter')
            same == b = slice /\ counter' # 0
            kept == IF Len(picks) < 2 * Turns(b) THEN picks ELSE Tail(picks)
<1>1. /\ b # <<>> /\ counter' = (counter + 1) % 2^CounterBits /\ slice' = b
      /\ picks' = IF same THEN Append(kept, pick) ELSE <<pick>>
      /\ weighted' = weighted /\ pool' = pool
  BY DEF Select
<1>2. b \in Seq(Server)
  BY HealthySlice DEF SelInv, SelTypeOK
<1>3. counter' \in {0, counter + 1} /\ counter' \in 0 .. 2^CounterBits - 1
  BY <1>1, Increment DEF SelInv, SelTypeOK
<1>4. counter \in Nat /\ counter' \in Nat
  BY <1>3, SelectorAssumption DEF SelInv, SelTypeOK
<1>5. pick \in Nat
  BY <1>1, <1>2, <1>4, ChosenIndex
<1>. HIDE DEF b, pick
<1>t. Turns(b) \in Nat \ {0}
  <2>1. 1 \in 1 .. Len(b)
    BY <1>1, <1>2
  <2>. QED  BY <1>1, <1>2, <2>1, Chosen
<1>6. SelTypeOK'
  <2>1. kept \in Seq(Nat) /\ Len(kept) <= Len(picks)
    <3>1. picks \in Seq(Nat) /\ Turns(b) \in Nat \ {0}
      BY <1>t DEF SelInv, SelTypeOK
    <3>2. ~(Len(picks) < 2 * Turns(b)) => picks # <<>>
      BY <3>1
    <3>. QED  BY <3>1, <3>2
  <2>. HIDE DEF kept
  <2>2. picks' \in Seq(Nat) /\ Len(picks') <= counter' + 1
    BY <1>1, <1>3, <1>4, <1>5, <2>1 DEF SelInv, SelTypeOK
  <2>. QED  BY <1>1, <1>2, <1>3, <2>2 DEF SelInv, SelTypeOK
<1>7. SUFFICES ASSUME NEW k \in 1 .. Len(picks')
               PROVE  picks'[k] = chosen(b, counter' - Len(picks') + k)
  <2>1. \A k \in 1 .. Len(picks') : picks'[k] = chosen(b, counter' - Len(picks') + k)
    BY <1>7
  <2>2. Counted'
    BY <1>1, <2>1 DEF Counted, chosen
  <2>. QED  BY <1>6, <2>2 DEF SelInv
<1>8. CASE ~same
  <2>1. picks' = <<pick>> /\ Len(picks') = 1 /\ k = 1
    BY <1>1, <1>7, <1>8
  <2>. QED  BY <1>4, <2>1 DEF pick
<1>9. CASE same
  <2>1. counter' = counter + 1 /\ b = slice
    BY <1>3, <1>9
  <2>2. picks \in Seq(Nat) /\ \A i \in 1 .. Len(picks) : picks[i] = chosen(b, counter - Len(picks) + i)
    BY <2>1 DEF SelInv, SelTypeOK, Counted
  <2>3. CASE Len(picks) < 2 * Turns(b)
    <3>1. picks' = Append(picks, pick)
      BY <1>1, <1>9, <2>3
    <3>2. CASE k = Len(picks) + 1
      BY <1>4, <2>2, <3>1, <3>2 DEF pick
    <3>3. CASE k \in 1 .. Len(picks)
      <4>1. picks'[k] = picks[k] /\ Len(picks') = Len(picks) + 1
        BY <2>2, <3>1, <3>3
      <4>2. counter' - Len(picks') + k = counter - Len(picks) + k
        BY <1>4, <2>1, <2>2, <4>1
      <4>. QED  BY <2>2, <3>3, <4>1, <4>2
    <3>. QED  BY <1>7, <2>2, <3>1, <3>2, <3>3
  <2>4. CASE ~(Len(picks) < 2 * Turns(b))
    <3>1. picks' = Append(Tail(picks), pick)
      BY <1>1, <1>9, <2>4
    <3>2. picks # <<>>
      BY <2>2, <2>4, <1>t
    <3>3. /\ Len(Tail(picks)) = Len(picks) - 1 /\ Tail(picks) \in Seq(Nat)
          /\ \A i \in 1 .. Len(picks) - 1 : Tail(picks)[i] = picks[i + 1]
      BY <2>2, <3>2
    <3>4. Len(picks') = Len(picks) /\ Len(picks) \in Nat
      BY <2>2, <3>1, <3>3
    <3>5. CASE k = Len(picks)
      <4>1. picks'[k] = pick /\ counter' - Len(picks') + k = counter'
        BY <1>4, <3>1, <3>3, <3>4, <3>5
      <4>. QED  BY <4>1 DEF pick
    <3>6. CASE k \in 1 .. Len(picks) - 1
      <4>1. picks'[k] = picks[k + 1] /\ k + 1 \in 1 .. Len(picks)
        BY <3>1, <3>3, <3>4, <3>6
      <4>2. counter' - Len(picks') + k = counter - Len(picks) + (k + 1)
        BY <1>4, <2>1, <3>4
      <4>. QED  BY <2>2, <4>1, <4>2
    <3>. QED  BY <1>7, <3>4, <3>5, <3>6
  <2>. QED  BY <2>3, <2>4
<1>. QED  BY <1>8, <1>9

(* A turn of calls in the history holds every backend as often as its share. *)
LEMMA SharesCounted == SelInv => FairShare
<1>. SUFFICES ASSUME SelInv,
                     NEW from \in 1 .. Len(picks) - Turns(slice) + 1, NEW i \in 1 .. Len(slice)
              PROVE  Cardinality({k \in from .. from + Turns(slice) - 1 : picks[k] = i}) = ShareOf(slice, i)
  BY DEF FairShare
<1>. DEFINE T == Turns(slice)
            lo == Start(slice, i)
            hi == Start(slice, i) + ShareOf(slice, i)
            base == counter - Len(picks)
<1>1. /\ slice \in Seq(Server) /\ slice # <<>> /\ picks \in Seq(Nat) /\ counter \in Nat
      /\ Len(picks) <= counter + 1 /\ Len(picks) \in Nat
  BY SelectorAssumption DEF SelInv, SelTypeOK
<1>2. /\ T \in Nat \ {0} /\ lo \in 0 .. T /\ hi \in lo .. T
      /\ \A count \in Nat : chosen(slice, count) = i <=> count % T \in lo .. hi - 1
  BY <1>1, Chosen
<1>3. hi - lo = ShareOf(slice, i)
  <2>1. ShareOf(slice, i) \in Int
    BY <1>1, PositiveWeight DEF ShareOf
  <2>. QED  BY <1>2, <2>1
<1>. HIDE DEF T, lo, hi
<1>4. from \in 1 .. Len(picks) - T + 1 /\ base \in Int /\ base + from \in Nat
  BY <1>1, <1>2 DEF T
<1>5. ASSUME NEW k \in from .. from + T - 1
      PROVE  picks[k] = i <=> (base + k) % T \in lo .. hi - 1
  <2>1. k \in 1 .. Len(picks) /\ base + k \in Nat
    BY <1>1, <1>2, <1>4
  <2>2. picks[k] = chosen(slice, base + k)
    BY <2>1 DEF SelInv, Counted
  <2>. QED  BY <1>2, <2>1, <2>2
<1>6. Cardinality(Hits(from, T, base, lo, hi)) = hi - lo
  <2>1. PICK a \in Nat : base + from = a
    BY <1>4
  <2>2. base \in Int /\ from \in Int
    BY <1>4
  <2>. HIDE DEF base
  <2>. QED  BY <1>2, <2>1, <2>2, OneTurn
<1>7. {k \in from .. from + T - 1 : picks[k] = i} = Hits(from, T, base, lo, hi)
  BY <1>5 DEF Hits
<1>. QED  BY <1>3, <1>6, <1>7 DEF T

(* FairShare, as the runs check it, for pools of any size and any weights: *)
(* among the calls of one turn with the same healthy backends each of them *)
(* is chosen exactly as often as its weight says, once without weights.    *)
THEOREM SharesFair == SelSpec => []FairShare
<1>1. SelInit => SelInv
  <2>. SUFFICES ASSUME SelInit PROVE SelInv
    OBVIOUS
  <2>1. counter \in 0 .. 2^CounterBits - 1 /\ picks = <<>> /\ slice = <<>> /\ pool \in Seq(Server)
    BY SelectorAssumption DEF SelInit
  <2>. QED  BY <2>1 DEF SelInv, SelTypeOK, Counted
<1>2. SelInv /\ UNCHANGED selVars => SelInv'
  BY DEF selVars, SelInv, SelTypeOK, Counted, chosen
<1>3. SelInv /\ [SelNext]_selVars => SelInv'
  BY <1>2, SelectCounted DEF SelNext
<1>. QED  BY <1>1, <1>3, SharesCounted, PTL DEF SelSpec
=============================================================================

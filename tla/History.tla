------------------------------ MODULE History ------------------------------
(***************************************************************************)
(* The probe history (internal/health/aggregator.go) and the table it is   *)
(* flushed to (internal/store/health_history.go).                          *)
(*                                                                         *)
(* Recorders are the goroutines that call RecordProbe (the result          *)
(* processor of the scheduler) and RecordSelection (the reconciler).  They *)
(* and flush read the clock BEFORE they take the mutex, so the bucket they *)
(* work with may no longer be the current one when they use it.            *)
(*                                                                         *)
(* Time is counted in buckets of five minutes; the ticker may fire at any  *)
(* moment.  A key of the map buckets that is absent stands for a bucket    *)
(* with no probe: getOrCreateBucket never leaves an empty one behind.      *)
(***************************************************************************)
EXTENDS Integers

CONSTANTS
    Watched,        \* ids of backends
    Recorders,      \* goroutines that record
    LastBucket,     \* bound: the clock stops in this bucket
    MaxRecords,     \* bound: calls of RecordProbe and RecordSelection
    MaxWriteErrors  \* bound: writes of a bucket that fail

ASSUME HistoryAssumption ==
    /\ LastBucket \in Nat
    /\ MaxRecords \in Nat
    /\ MaxWriteErrors \in Nat

VARIABLES
    now,            \* bucketFloor(time.Now())
    rpc,            \* where each recorder is
    rkey,           \* the key it computed
    buckets,        \* Aggregator.buckets
    fpc,            \* where the flush loop is
    fbucket,        \* flush: currentBucket
    toFlush,        \* flush: the drained buckets not written yet
    lastFlush,      \* flush: called for ctx.Done(), with context.Background()
    aggDone,        \* the context of Start is done
    table,          \* rows of health_history
    records,        \* calls of RecordProbe and RecordSelection so far
    writeErrors,    \* writes that failed so far
    seen,           \* history: what was recorded, by key
    lost,           \* history: what failed writes held
    expired         \* history: what DeleteOldHealthHistory removed

histVars == <<now, rpc, rkey, buckets, fpc, fbucket, toFlush, lastFlush, aggDone, table, records,
              writeErrors, seen, lost, expired>>

Buckets == 0 .. LastBucket
Keys == Watched \X Buckets
Data == [ok : Nat, bad : Nat, selected : BOOLEAN]
NoKey == <<>>
NoData == [ok |-> 0, bad |-> 0, selected |-> FALSE]
NoKeys == [k \in Keys |-> NoData]

(* Counts are added, and a backend was selected if it was once. *)
Merged(d, e) ==
    [ok |-> d.ok + e.ok, bad |-> d.bad + e.bad, selected |-> d.selected \/ e.selected]

(* What one call adds to a bucket. *)
Probe(healthy) == [ok |-> IF healthy THEN 1 ELSE 0, bad |-> IF healthy THEN 0 ELSE 1,
                   selected |-> FALSE]
Selection == [ok |-> 0, bad |-> 0, selected |-> TRUE]

(* The type of the aggregator's state. *)
HistTypeOK ==
    /\ now \in Buckets
    /\ rpc \in [Recorders -> {"idle", "probe", "select"}]
    /\ rkey \in [Recorders -> Keys \cup {NoKey}]
    /\ \A p \in Recorders : rpc[p] # "idle" => rkey[p] \in Keys
    /\ buckets \in [Keys -> Data]
    /\ fpc \in {"off", "wait", "read", "drain", "write", "gone"}
    /\ fbucket \in Buckets
    /\ toFlush \in [Keys -> Data]
    /\ lastFlush \in BOOLEAN
    /\ aggDone \in BOOLEAN
    /\ table \in [Keys -> Data]
    /\ records \in 0 .. MaxRecords
    /\ writeErrors \in 0 .. MaxWriteErrors
    /\ seen \in [Keys -> Data]
    /\ lost \in [Keys -> Data]
    /\ expired \in [Keys -> Data]

(* NewAggregator, with an empty table. *)
HistInit ==
    /\ now = 0
    /\ rpc = [p \in Recorders |-> "idle"]
    /\ rkey = [p \in Recorders |-> NoKey]
    /\ buckets = NoKeys
    /\ fpc = "off"
    /\ fbucket = 0
    /\ toFlush = NoKeys
    /\ lastFlush = FALSE
    /\ aggDone = FALSE
    /\ table = NoKeys
    /\ records = 0
    /\ writeErrors = 0
    /\ seen = NoKeys
    /\ lost = NoKeys
    /\ expired = NoKeys

-----------------------------------------------------------------------------
(* The clock enters the next bucket. *)
Tick ==
    /\ now < LastBucket
    /\ now' = now + 1
    /\ UNCHANGED <<rpc, rkey, buckets, fpc, fbucket, toFlush, lastFlush, aggDone, table, records,
                   writeErrors, seen, lost, expired>>

(* Mutant: the time is rounded up to a bucket. *)
ComputeKeyRounded(p) ==
    /\ rpc[p] = "idle"
    /\ records < MaxRecords
    /\ \E b \in Watched, what \in {"probe", "select"} :
          /\ rpc' = [rpc EXCEPT ![p] = what]
          /\ rkey' = [rkey EXCEPT ![p] = <<b, now + 1>>]
    /\ records' = records + 1
    /\ UNCHANGED <<now, buckets, fpc, fbucket, toFlush, lastFlush, aggDone, table, writeErrors, seen,
                   lost, expired>>

(* RecordProbe or RecordSelection: the key, before the lock. *)
ComputeKey(p) ==
    /\ rpc[p] = "idle"
    /\ records < MaxRecords
    /\ \E b \in Watched, what \in {"probe", "select"} :
          /\ rpc' = [rpc EXCEPT ![p] = what]
          /\ rkey' = [rkey EXCEPT ![p] = <<b, now>>]
    /\ records' = records + 1
    /\ UNCHANGED <<now, buckets, fpc, fbucket, toFlush, lastFlush, aggDone, table, writeErrors, seen,
                   lost, expired>>

(* ... and the entry of the map, under the lock. *)
Record(p) ==
    /\ rpc[p] # "idle"
    /\ \E d \in IF rpc[p] = "probe" THEN {Probe(TRUE), Probe(FALSE)} ELSE {Selection} :
          /\ buckets' = [buckets EXCEPT ![rkey[p]] = Merged(@, d)]
          /\ seen' = [seen EXCEPT ![rkey[p]] = Merged(@, d)]
    /\ rpc' = [rpc EXCEPT ![p] = "idle"]
    /\ rkey' = [rkey EXCEPT ![p] = NoKey]
    /\ UNCHANGED <<now, fpc, fbucket, toFlush, lastFlush, aggDone, table, records, writeErrors, lost,
                   expired>>

-----------------------------------------------------------------------------
(* Start launches the loop. *)
StartLoop ==
    /\ fpc = "off"
    /\ fpc' = "wait"
    /\ UNCHANGED <<now, rpc, rkey, buckets, fbucket, toFlush, lastFlush, aggDone, table, records,
                   writeErrors, seen, lost, expired>>

(* The context of Start is cancelled. *)
CancelAggregator ==
    /\ ~aggDone
    /\ aggDone' = TRUE
    /\ UNCHANGED <<now, rpc, rkey, buckets, fpc, fbucket, toFlush, lastFlush, table, records,
                   writeErrors, seen, lost, expired>>

(* run: the ticker fires. *)
TickerFires ==
    /\ fpc = "wait"
    /\ fpc' = "read"
    /\ lastFlush' = FALSE
    /\ UNCHANGED <<now, rpc, rkey, buckets, fbucket, toFlush, aggDone, table, records,
                   writeErrors, seen, lost, expired>>

(* ... or the context is done; a select with both ready takes either. *)
ContextDone ==
    /\ fpc = "wait"
    /\ aggDone
    /\ fpc' = "read"
    /\ lastFlush' = TRUE
    /\ UNCHANGED <<now, rpc, rkey, buckets, fbucket, toFlush, aggDone, table, records,
                   writeErrors, seen, lost, expired>>

(* flush: currentBucket, before the lock. *)
ReadClock ==
    /\ fpc = "read"
    /\ fbucket' = now
    /\ fpc' = "drain"
    /\ UNCHANGED <<now, rpc, rkey, buckets, toFlush, lastFlush, aggDone, table, records, writeErrors,
                   seen, lost, expired>>

(* Mutant: buckets later than the one flush took for current stay in        *)
(* memory, and so do the entries that came late for an earlier one.         *)
DrainPrevious ==
    /\ fpc = "drain"
    /\ toFlush' = [k \in Keys |-> IF k[2] = fbucket - 1 THEN buckets[k] ELSE NoData]
    /\ buckets' = [k \in Keys |-> IF k[2] = fbucket - 1 THEN NoData ELSE buckets[k]]
    /\ fpc' = "write"
    /\ UNCHANGED <<now, rpc, rkey, fbucket, lastFlush, aggDone, table, records, writeErrors, seen, lost,
                   expired>>

(* ... all buckets but that one leave the map, under the lock. *)
Drain ==
    /\ fpc = "drain"
    /\ toFlush' = [k \in Keys |-> IF k[2] # fbucket THEN buckets[k] ELSE NoData]
    /\ buckets' = [k \in Keys |-> IF k[2] # fbucket THEN NoData ELSE buckets[k]]
    /\ fpc' = "write"
    /\ UNCHANGED <<now, rpc, rkey, fbucket, lastFlush, aggDone, table, records, writeErrors, seen, lost,
                   expired>>

(* The context a flush writes with: a flush of the ticker uses Start's. *)
flushContextDone == aggDone /\ ~lastFlush

(* Mutant: ON CONFLICT replaces the counts of the row. *)
conflictReplaces(row, d) == [d EXCEPT !.selected = row.selected \/ d.selected]

(* ON CONFLICT ... DO UPDATE: counts are added, selected is the maximum. *)
onConflict(row, d) == Merged(row, d)

(* ... and are written one by one, in any order. *)
UpsertHealthHistoryBucket(k) ==
    /\ fpc = "write"
    /\ toFlush[k] # NoData
    /\ ~flushContextDone
    /\ table' = [table EXCEPT ![k] = onConflict(@, toFlush[k])]
    /\ toFlush' = [toFlush EXCEPT ![k] = NoData]
    /\ UNCHANGED <<now, rpc, rkey, buckets, fpc, fbucket, lastFlush, aggDone, records,
                   writeErrors, seen, lost, expired>>

(* A write fails, always when its context is done; the error is logged and  *)
(* the flush goes on.                                                       *)
UpsertFails(k) ==
    /\ fpc = "write"
    /\ toFlush[k] # NoData
    /\ IF flushContextDone THEN UNCHANGED writeErrors
       ELSE writeErrors < MaxWriteErrors /\ writeErrors' = writeErrors + 1
    /\ lost' = [lost EXCEPT ![k] = Merged(@, toFlush[k])]
    /\ toFlush' = [toFlush EXCEPT ![k] = NoData]
    /\ UNCHANGED <<now, rpc, rkey, buckets, fpc, fbucket, lastFlush, aggDone, table, records,
                   seen, expired>>

(* The flush is over: the loop waits again, or returns if it was the last.  *)
Flushed ==
    /\ fpc = "write"
    /\ toFlush = NoKeys
    /\ fpc' = IF lastFlush THEN "gone" ELSE "wait"
    /\ UNCHANGED <<now, rpc, rkey, buckets, fbucket, toFlush, lastFlush, aggDone, table,
                   records, writeErrors, seen, lost, expired>>

(* DeleteOldHealthHistory: rows before the cutoff go. *)
DeleteOldHealthHistory(cutoff) ==
    /\ \E k \in Keys : k[2] < cutoff /\ table[k] # NoData
    /\ table' = [k \in Keys |-> IF k[2] < cutoff THEN NoData ELSE table[k]]
    /\ expired' = [k \in Keys |-> IF k[2] < cutoff THEN Merged(expired[k], table[k])
                                                   ELSE expired[k]]
    /\ UNCHANGED <<now, rpc, rkey, buckets, fpc, fbucket, toFlush, lastFlush, aggDone, records,
                   writeErrors, seen, lost>>

FlushStep ==
    \/ TickerFires \/ ContextDone \/ ReadClock \/ Drain \/ Flushed
    \/ \E k \in Keys : UpsertHealthHistoryBucket(k) \/ UpsertFails(k)

HistNext ==
    \/ Tick
    \/ \E p \in Recorders : ComputeKey(p) \/ Record(p)
    \/ StartLoop
    \/ CancelAggregator
    \/ FlushStep
    \/ \E cutoff \in 1 .. now : DeleteOldHealthHistory(cutoff)

HistSpec == HistInit /\ [][HistNext]_histVars

(* The loop goes on (the ticker keeps firing), a call that computed its key *)
(* gets the lock; nobody has to record, and the clock may stand still.      *)
HistFairness ==
    /\ WF_histVars(FlushStep)
    /\ \A p \in Recorders : WF_histVars(Record(p))

-----------------------------------------------------------------------------
(***************************************************************************)
(* Conservation.  What was recorded for a backend and a bucket is in       *)
(* memory, drained by a flush, in the table, was held by a failed write or *)
(* removed as old: the counts add up, whatever the order in which the      *)
(* clock moves, recorders add and a flush drains and writes.  A probe that *)
(* comes late for a bucket already flushed, or a bucket drained before it  *)
(* is complete, is added to the row that is there (aggregator.go, flush;   *)
(* health_history.go, ON CONFLICT).                                        *)
(***************************************************************************)
Conservation ==
    \A k \in Keys :
        seen[k] = Merged(Merged(Merged(buckets[k], toFlush[k]), Merged(table[k], lost[k])),
                         expired[k])

(***************************************************************************)
(* FlushedInTime.  While the loop runs no completed bucket stays in memory *)
(* for ever, also one that a slow recorder brings back after its flush     *)
(* (aggregator.go: "flushing completed buckets to the database every 5     *)
(* minutes").                                                              *)
(***************************************************************************)
FlushedInTime ==
    \A k \in Keys : (fpc # "off" /\ k[2] < now /\ buckets[k] # NoData)
                        ~> (buckets[k] = NoData \/ fpc = "gone")
=============================================================================

-------------------------- MODULE SchedulerProofs --------------------------
(***************************************************************************)
(* Theorems about Scheduler, with any number of configs, backends, workers *)
(* and starts: its type invariant together with the engine's, that no      *)
(* health state outlives its backend, that nothing is left running when    *)
(* Stop has returned, and that the engine under it is still an engine.     *)
(***************************************************************************)
EXTENDS Scheduler, EngineProofs

(* One of the two counters of the state being written is zero. *)
OneCounter(st) == 0 \in {st.succ, st.fail}

(* The parts of the type invariant, by who changes them. *)
TablesOK ==
    /\ created \subseteq Backends
    /\ live \subseteq created
    /\ enabled \subseteq live
    /\ configOf \in [Backends -> Configs]
    /\ up \subseteq Backends
    /\ DOMAIN checks \subseteq Configs
    /\ \A c \in DOMAIN checks : checks[c] \in ThresholdPair

HealthOK ==
    /\ DOMAIN health \subseteq Backends
    /\ \A b \in DOMAIN health : health[b] \in State /\ OneCounter(health[b])

LifeOK ==
    /\ sRunning \in BOOLEAN /\ sClosed \in BOOLEAN
    /\ panicked \in BOOLEAN /\ ctxDone \in BOOLEAN
    /\ sStarts \in 0 .. MaxSchedStarts
    /\ stop \in {"idle", "waiting", "returned"}
    /\ faults \in 0 .. MaxFaults

LoopOK ==
    /\ lpc \in {"none", "list", "check", "read", "submit", "submitting", "select", "gone"}
    /\ lconfigs \subseteq Configs
    /\ lbatch \subseteq Backends

ProcOK ==
    /\ ppc \in {"none", "select", "state", "backend", "thresholds", "write", "gone"}
    /\ pres \in Result \cup {NoResult}
    /\ pstate \in State
    /\ OneCounter(pstate)
    /\ pconfig \in Configs
    /\ pthresholds \in ThresholdPair

SchedInv == TypeInv /\ TablesOK /\ HealthOK /\ LifeOK /\ LoopOK /\ ProcOK

(* Together they are the type invariant of the module. *)
LEMMA SchedInvType == SchedInv => SchedTypeOK
<1>1. LifeOK => {sRunning, sClosed, panicked, ctxDone} \subseteq BOOLEAN
  BY Zenon DEF LifeOK
<1>2. QED
  BY <1>1 DEF SchedInv, SchedTypeOK, TablesOK, HealthOK, LifeOK, LoopOK, ProcOK, OneCounter

(* A failing access counts as a fault, within its bound. *)
LEMMA QueryType == ASSUME LifeOK, QueryOK \/ QueryFails PROVE faults' \in 0 .. MaxFaults
BY SchedulerAssumption DEF LifeOK, QueryOK, QueryFails, SchedulerAssumption

(* The initial values of the processor have their types. *)
LEMMA ProcInitType ==
    /\ NewState \in State /\ OneCounter(NewState)
    /\ AnyConfig \in Configs
    /\ DefaultThresholds \in ThresholdPair
<1>1. AnyConfig \in Configs
  BY SchedulerAssumption DEF AnyConfig, SchedulerAssumption
<1>2. NewState \in State /\ OneCounter(NewState)
  BY SchedulerAssumption
     DEF NewState, State, HealthStatuses, OneCounter, SchedulerAssumption
<1>3. QED
  BY <1>1, <1>2 DEF DefaultThresholds, ThresholdPair

(* A new scheduler over an empty database satisfies the invariant. *)
LEMMA SchedInvInit == Init => SchedInv
<1> SUFFICES ASSUME Init PROVE SchedInv
  OBVIOUS
<1>1. TypeInv
  BY TypeInvInit DEF Init
<1>2. TablesOK
  BY ProcInitType DEF Init, TablesOK
<1>3. HealthOK
  BY DEF Init, HealthOK
<1>4. LifeOK /\ LoopOK
  <2>1. /\ sRunning \in BOOLEAN /\ sClosed \in BOOLEAN
        /\ panicked \in BOOLEAN /\ ctxDone \in BOOLEAN
    BY Zenon DEF Init
  <2>2. QED
    BY <2>1, SchedulerAssumption DEF Init, LifeOK, LoopOK, SchedulerAssumption
<1>5. ProcOK
  BY ProcInitType DEF Init, ProcOK
<1>6. QED
  BY <1>1, <1>2, <1>3, <1>4, <1>5 DEF SchedInv

-----------------------------------------------------------------------------
(* Start and Stop of the scheduler, and the end of its context. *)
LEMMA LifeStepsType ==
    ASSUME SchedInv,
           SchedStart \/ StartResultProcessor \/ SchedStop \/ SchedWait \/ CancelContext
    PROVE  SchedInv'
<1> USE SchedulerAssumption DEF SchedulerAssumption, SchedInv
<1>1. UNCHANGED engineVars /\ UNCHANGED tables
  BY DEF SchedStart, StartResultProcessor, SchedStop, SchedWait, CancelContext
<1>2. TypeInv'
  BY <1>1, TypeInvMove
<1>3. TablesOK' /\ HealthOK'
  BY <1>1 DEF tables, TablesOK, HealthOK
<1>4. LifeOK'
  <2>1. panicked' \in BOOLEAN
    <3>1. waitOver \in BOOLEAN
      BY Zenon DEF waitOver
    <3>2. CASE SchedStart
      BY <3>1, <3>2 DEF SchedStart
    <3>3. CASE StartResultProcessor \/ SchedStop \/ SchedWait \/ CancelContext
      BY <3>3, Zenon DEF LifeOK, StartResultProcessor, SchedStop, SchedWait, CancelContext
    <3>4. QED
      BY <3>2, <3>3
  <2>2. /\ sRunning' \in BOOLEAN /\ sClosed' \in BOOLEAN /\ ctxDone' \in BOOLEAN
        /\ sStarts' \in 0 .. MaxSchedStarts /\ faults' \in 0 .. MaxFaults
    <3>1. CASE SchedStart
      BY <3>1 DEF LifeOK, SchedStart
    <3>2. CASE StartResultProcessor \/ SchedStop \/ SchedWait \/ CancelContext
      BY <3>2 DEF LifeOK, StartResultProcessor, SchedStop, SchedWait, CancelContext
    <3>3. QED
      BY <3>1, <3>2
  <2>3. stop' \in {"idle", "waiting", "returned"}
    BY DEF LifeOK, SchedStart, StartResultProcessor, SchedStop, SchedWait, CancelContext
  <2>4. QED
    BY <2>1, <2>2, <2>3 DEF LifeOK
<1>5. LoopOK' /\ ProcOK'
  BY DEF LoopOK, ProcOK, SchedStart, StartResultProcessor, SchedStop, SchedWait, CancelContext
<1>6. QED
  BY <1>2, <1>3, <1>4, <1>5

(* The loop lists and submits backends of the tables. *)
LEMMA LoopStepsType ==
    ASSUME SchedInv, LoopStep
    PROVE  SchedInv'
<1> USE DEF SchedInv
<1>1. loopUnchanged
  BY DEF LoopStep, ListConfigs, ReadCheck, ReadBatch, SubmitOne, SubmitReturned, LoopTick, LoopStop
<1>2. TablesOK' /\ HealthOK' /\ ProcOK'
  BY <1>1 DEF loopUnchanged, tables, TablesOK, HealthOK, ProcOK
<1>3. faults' \in 0 .. MaxFaults
  <2>1. CASE ListConfigs \/ ReadCheck \/ ReadBatch
    BY <2>1, QueryType DEF ListConfigs, ReadCheck, ReadBatch
  <2>2. CASE SubmitOne \/ SubmitReturned \/ LoopTick \/ LoopStop
    BY <2>2 DEF SubmitOne, SubmitReturned, LoopTick, LoopStop, LifeOK
  <2>3. QED
    BY <2>1, <2>2 DEF LoopStep
<1>4. LifeOK'
  BY <1>1, <1>3 DEF loopUnchanged, LifeOK
<1>5. LoopOK'
  <2> USE DEF LoopOK, LoopTo, NextBatch
  <2>1. CASE ListConfigs
    BY <2>1 DEF ListConfigs
  <2>2. CASE ReadCheck
    BY <2>2 DEF ReadCheck
  <2>3. CASE ReadBatch
    BY <2>3 DEF ReadBatch, TablesOK
  <2>4. CASE SubmitOne \/ SubmitReturned \/ LoopTick \/ LoopStop
    BY <2>4 DEF SubmitOne, SubmitReturned, LoopTick, LoopStop
  <2>5. QED
    BY <2>1, <2>2, <2>3, <2>4 DEF LoopStep
<1>6. [EngineMove]_engineVars
  <2>1. CASE SubmitOne
    BY <2>1, SchedulerAssumption
       DEF SubmitOne, LoopOK, Backends, EngineMove, SchedulerAssumption
  <2>2. CASE ~SubmitOne
    BY <2>2 DEF LoopStep, ListConfigs, ReadCheck, ReadBatch, SubmitReturned, LoopTick, LoopStop
  <2>3. QED
    BY <2>1, <2>2
<1>7. QED
  BY <1>2, <1>4, <1>5, <1>6, TypeInvMove

-----------------------------------------------------------------------------
(* Counting keeps the counters in their range and leaves one of them zero. *)
LEMMA countResultType ==
    ASSUME NEW st \in State, NEW out
    PROVE  countResult(st, out) \in State /\ OneCounter(countResult(st, out))
<1>1. \A n \in 0 .. MaxCount : inc(n) \in 0 .. MaxCount
  BY SchedulerAssumption DEF inc, SchedulerAssumption
<1>2. 0 \in 0 .. MaxCount
  BY SchedulerAssumption DEF SchedulerAssumption
<1>3. QED
  BY <1>1, <1>2 DEF countResult, State, OneCounter

(* The processor reads rows and writes a state with one counter at zero. *)
LEMMA ProcStepsType ==
    ASSUME SchedInv, ProcStep
    PROVE  SchedInv'
<1> USE DEF SchedInv
<1>1. procUnchanged
  BY DEF ProcStep, ProcReceive, ProcStop, ReadState, ReadBackend, ReadThresholds, WriteState
<1>2. LoopOK'
  BY <1>1 DEF procUnchanged, LoopOK
<1>3. faults' \in 0 .. MaxFaults
  <2>1. CASE ProcReceive \/ ProcStop
    BY <2>1 DEF ProcReceive, ProcStop, LifeOK
  <2>2. CASE ReadState \/ ReadBackend \/ ReadThresholds \/ WriteState
    BY <2>2, QueryType DEF ReadState, ReadBackend, ReadThresholds, WriteState
  <2>3. QED
    BY <2>1, <2>2 DEF ProcStep
<1>4. LifeOK'
  BY <1>1, <1>3 DEF procUnchanged, LifeOK
<1>5. CASE ProcReceive
  <2>1. Head(resultChan) \in Result
    <3>1. resultChan \in Seq(Result) /\ resultChan # <<>>
      BY <1>5 DEF ProcReceive, Receive, TypeInv, EngineTypeOK
    <3>2. QED
      BY <3>1, HeadTailProperties
  <2>2. ProcOK'
    BY <1>5, <2>1 DEF ProcReceive, ProcOK
  <2>3. TypeInv'
    BY <1>5, TypeInvMove DEF ProcReceive, EngineMove
  <2>4. TablesOK' /\ HealthOK'
    BY <1>5 DEF ProcReceive, tables, TablesOK, HealthOK
  <2>5. QED
    BY <1>2, <1>4, <2>2, <2>3, <2>4
<1>6. CASE ProcStop \/ ReadState \/ ReadBackend \/ ReadThresholds
  <2>1. UNCHANGED engineVars /\ UNCHANGED tables
    BY <1>6 DEF ProcStop, ReadState, ReadBackend, ReadThresholds
  <2>2. TypeInv' /\ TablesOK' /\ HealthOK'
    BY <2>1, TypeInvMove DEF tables, TablesOK, HealthOK
  <2>3. CASE ProcStop
    BY <1>2, <1>4, <2>2, <2>3 DEF ProcStop, ProcOK
  <2>4. CASE ReadState
    <3>1. GetHealthState(pres.req) \in State
      BY ProcInitType DEF GetHealthState, HealthOK
    <3>2. pstate' \in State /\ OneCounter(pstate')
      BY <2>4, <3>1, ProcInitType, countResultType DEF ReadState
    <3>3. QED
      BY <1>2, <1>4, <2>2, <2>4, <3>2 DEF ReadState, ProcOK
  <2>5. CASE ReadBackend
    <3>1. pconfig' \in Configs
      BY <2>5 DEF ReadBackend, TablesOK, ProcOK
    <3>2. QED
      BY <1>2, <1>4, <2>2, <2>5, <3>1 DEF ReadBackend, ProcOK
  <2>6. CASE ReadThresholds
    <3>1. pthresholds' \in ThresholdPair
      BY <2>6, ProcInitType DEF ReadThresholds, thresholdsOf, TablesOK
    <3>2. QED
      BY <1>2, <1>4, <2>2, <2>6, <3>1 DEF ReadThresholds, ProcOK
  <2>7. QED
    BY <1>6, <2>3, <2>4, <2>5, <2>6
<1>7. CASE WriteState
  <2> DEFINE row == [pstate EXCEPT !.status = determineHealthStatus(pstate, pthresholds)]
  <2>1. TypeInv'
    BY <1>7, TypeInvMove DEF WriteState
  <2>2. TablesOK'
    BY <1>7 DEF WriteState, TablesOK
  <2>3. ProcOK'
    BY <1>7, ProcInitType DEF WriteState, ProcOK
  <2>4. row \in State /\ OneCounter(row)
    <3>1. determineHealthStatus(pstate, pthresholds) \in HealthStatuses
      <4>1. /\ pstate.succ \in Nat /\ pstate.fail \in Nat
            /\ pthresholds.healthy \in Nat /\ pthresholds.unhealthy \in Nat
        <5>1. pstate.succ \in Nat /\ pstate.fail \in Nat
          BY DEF ProcOK, State
        <5>2. Thresholds \cup {2} \subseteq Nat
          BY SchedulerAssumption DEF SchedulerAssumption
        <5>3. pthresholds.healthy \in Thresholds \cup {2} /\ pthresholds.unhealthy \in Thresholds \cup {2}
          BY DEF ProcOK, ThresholdPair
        <5>4. QED
          BY <5>1, <5>2, <5>3
      <4>2. QED
        BY <4>1 DEF determineHealthStatus, HealthStatuses
    <3>2. QED
      BY <3>1 DEF ProcOK, State, OneCounter
  <2>5. \/ UNCHANGED health
        \/ /\ pres.req \in live
           /\ health' = [x \in DOMAIN health \cup {pres.req} |->
                            IF x = pres.req THEN row ELSE health[x]]
    BY <1>7 DEF WriteState, backendExists
  <2>6. HealthOK'
    BY <2>4, <2>5 DEF HealthOK, TablesOK
  <2>7. QED
    BY <1>2, <1>4, <2>1, <2>2, <2>3, <2>6
<1>8. QED
  BY <1>5, <1>6, <1>7 DEF ProcStep

-----------------------------------------------------------------------------
(* Restricting a table keeps the rows that stay. *)
LEMMA RestrictTable ==
    ASSUME NEW f, NEW S \in SUBSET DOMAIN f
    PROVE  DOMAIN Restrict(f, S) = S /\ \A x \in S : Restrict(f, S)[x] = f[x]
BY DEF Restrict

(* The handlers and the reachability of backends. *)
LEMMA EnvironmentType ==
    ASSUME SchedInv, Environment
    PROVE  SchedInv'
<1> USE DEF SchedInv, Backends
<1>1. UNCHANGED engineVars /\ UNCHANGED schedVars
  BY DEF Environment
<1>2. TypeInv' /\ LifeOK' /\ LoopOK' /\ ProcOK'
  BY <1>1, TypeInvMove DEF schedVars, LifeOK, LoopOK, ProcOK
<1>3. ASSUME NEW b \in Backends, AddBackend(b) \/ UpdateBackend(b) \/ Reachability(b)
      PROVE  TablesOK' /\ HealthOK'
  BY <1>3 DEF AddBackend, UpdateBackend, Reachability, TablesOK, HealthOK
<1>4. ASSUME NEW b \in Backends, DeleteBackend(b)
      PROVE  TablesOK' /\ HealthOK'
  <2>1. TablesOK'
    BY <1>4, ProcInitType DEF DeleteBackend, TablesOK
  <2>2. HealthOK'
    BY <1>4, RestrictTable DEF DeleteBackend, HealthOK
  <2>3. QED
    BY <2>1, <2>2
<1>5. ASSUME NEW c \in Configs, ConfigureHealthCheck(c) \/ DeleteHealthCheck(c)
      PROVE  TablesOK' /\ HealthOK'
  <2>1. HealthOK'
    BY <1>5 DEF ConfigureHealthCheck, DeleteHealthCheck, HealthOK
  <2>2. CASE ConfigureHealthCheck(c)
    <3>1. PICK h \in Thresholds, u \in Thresholds :
             PutHealthCheck(c, [healthy |-> h, unhealthy |-> u])
      BY <2>2 DEF ConfigureHealthCheck
    <3>2. [healthy |-> h, unhealthy |-> u] \in ThresholdPair
      BY DEF ThresholdPair
    <3>3. QED
      BY <2>1, <2>2, <3>1, <3>2 DEF ConfigureHealthCheck, PutHealthCheck, TablesOK
  <2>3. CASE DeleteHealthCheck(c)
    BY <2>1, <2>3, RestrictTable DEF DeleteHealthCheck, TablesOK
  <2>4. QED
    BY <1>5, <2>2, <2>3
<1>6. TablesOK' /\ HealthOK'
  BY <1>3, <1>4, <1>5, SchedulerAssumption DEF Environment, SchedulerAssumption
<1>7. QED
  BY <1>2, <1>6

(* Every step of the scheduler, the engine and the world keeps the types. *)
LEMMA SchedInvNext == SchedInv /\ [Next]_vars => SchedInv'
<1> SUFFICES ASSUME SchedInv, [Next]_vars
             PROVE  SchedInv'
  OBVIOUS
<1>1. CASE (EngineRuns \/ EngineLife) /\ UNCHANGED <<tables, schedVars>>
  <2>1. [EngineMove]_engineVars
    BY <1>1, SchedulerAssumption
       DEF EngineRuns, EngineLife, EngineMove, WorkerRuns, WorkerStep, CheckTarget,
           SchedulerAssumption
  <2>2. QED
    BY <1>1, <2>1, TypeInvMove
       DEF SchedInv, tables, schedVars, TablesOK, HealthOK, LifeOK, LoopOK, ProcOK
<1>2. CASE UNCHANGED vars
  BY <1>2, TypeInvMove
     DEF vars, SchedInv, tables, schedVars, TablesOK, HealthOK, LifeOK, LoopOK, ProcOK
<1>3. QED
  BY <1>1, <1>2, LifeStepsType, LoopStepsType, ProcStepsType, EnvironmentType DEF Next

(* Every stored state and every local of loop and processor keeps its type, *)
(* and one of the two counters of a stored state is zero.                   *)
THEOREM SchedTypeCorrect == Spec => []SchedTypeOK
<1>1. Spec => []SchedInv
  BY SchedInvInit, SchedInvNext, PTL DEF Spec
<1>2. QED
  BY <1>1, SchedInvType, PTL

-----------------------------------------------------------------------------
(* Only WriteState adds a health state, for a backend that exists at that   *)
(* moment, and only DeleteBackend removes a backend.                        *)
LEMMA NoOrphanNext ==
    ASSUME NoOrphanState, [Next]_vars
    PROVE  NoOrphanState'
<1> USE DEF NoOrphanState
<1>1. CASE ProcStep
  <2>1. UNCHANGED live
    BY <1>1 DEF ProcStep, ProcReceive, ProcStop, ReadState, ReadBackend, ReadThresholds,
                WriteState, tables
  <2>2. CASE WriteState
    BY <2>1, <2>2 DEF WriteState, backendExists
  <2>3. CASE ~WriteState
    BY <1>1, <2>3 DEF ProcStep, ProcReceive, ProcStop, ReadState, ReadBackend, ReadThresholds,
                      tables
  <2>4. QED
    BY <2>2, <2>3
<1>2. ASSUME NEW b \in Backends, DeleteBackend(b)
      PROVE  NoOrphanState'
  BY <1>2, RestrictTable DEF DeleteBackend
<1>3. CASE Environment
  BY <1>2, <1>3 DEF Environment, AddBackend, UpdateBackend, ConfigureHealthCheck,
                    DeleteHealthCheck, Reachability
<1>4. CASE LoopStep
  BY <1>4 DEF LoopStep, ListConfigs, ReadCheck, ReadBatch, SubmitOne, SubmitReturned,
              LoopTick, LoopStop, loopUnchanged, tables
<1>5. CASE SchedStart \/ StartResultProcessor \/ SchedStop \/ SchedWait \/ CancelContext
  BY <1>5 DEF SchedStart, StartResultProcessor, SchedStop, SchedWait, CancelContext, tables
<1>6. CASE UNCHANGED tables
  BY <1>6 DEF tables
<1>7. QED
  BY <1>1, <1>3, <1>4, <1>5, <1>6 DEF Next, vars

(* No result that is on its way, however late, brings back the health state *)
(* of a deleted backend.                                                    *)
THEOREM NoHealthStateWithoutBackend == Spec => []NoOrphanState
<1>1. Init => NoOrphanState
  BY DEF Init, NoOrphanState
<1>2. QED
  BY <1>1, NoOrphanNext, PTL DEF Spec

-----------------------------------------------------------------------------
(***************************************************************************)
(* StoppedSchedulerIsQuiet is not inductive: SchedStop of a scheduler that *)
(* is not running returns at once, and StartResultProcessor starts the     *)
(* processor.  A scheduler that was started and does not run was stopped,  *)
(* so its channel is closed, and its Stop is still waiting or has          *)
(* returned.                                                               *)
(***************************************************************************)
QuietInv ==
    /\ StoppedSchedulerIsQuiet
    /\ sRunning => sStarts > 0
    /\ sStarts > 0 /\ ~sRunning => stop # "idle"
    /\ stop = "waiting" => sClosed
    /\ stop = "returned" /\ sStarts > 0 => sClosed

(* The loop and the processor do nothing when they have returned. *)
LEMMA QuietInvNext ==
    ASSUME SchedInv, QuietInv, [Next]_vars
    PROVE  QuietInv'
<1> USE DEF QuietInv, StoppedSchedulerIsQuiet
<1>0. sStarts \in Nat /\ MaxSchedStarts \in Nat
  BY SchedulerAssumption DEF SchedInv, LifeOK, SchedulerAssumption
<1>1. CASE SchedStart
  BY <1>0, <1>1 DEF SchedStart
<1>2. CASE SchedStop
  BY <1>0, <1>2 DEF SchedStop
<1>3. CASE SchedWait
  BY <1>0, <1>3 DEF SchedWait
<1>4. CASE StartResultProcessor
  BY <1>4 DEF StartResultProcessor
<1>5. CASE LoopStep
  <2>1. lpc \notin {"none", "gone"}
    BY <1>5 DEF LoopStep, ListConfigs, ReadCheck, ReadBatch, SubmitOne, SubmitReturned,
                LoopTick, LoopStop
  <2>2. loopUnchanged
    BY <1>5 DEF LoopStep, ListConfigs, ReadCheck, ReadBatch, SubmitOne, SubmitReturned,
                LoopTick, LoopStop
  <2>3. QED
    BY <2>1, <2>2 DEF loopUnchanged
<1>6. CASE ProcStep
  <2>1. ppc \notin {"none", "gone"}
    BY <1>6 DEF ProcStep, ProcReceive, ProcStop, ReadState, ReadBackend, ReadThresholds,
                WriteState
  <2>2. procUnchanged
    BY <1>6 DEF ProcStep, ProcReceive, ProcStop, ReadState, ReadBackend, ReadThresholds,
                WriteState
  <2>3. QED
    BY <2>1, <2>2 DEF procUnchanged
<1>7. CASE CancelContext \/ UNCHANGED schedVars
  BY <1>7 DEF CancelContext, schedVars
<1>8. QED
  BY <1>1, <1>2, <1>3, <1>4, <1>5, <1>6, <1>7 DEF Next, Environment, vars

(* When Scheduler.Stop has returned and it was not started again, neither   *)
(* the loop nor the processor is left.                                      *)
THEOREM StopLeavesNothingRunning == Spec => []StoppedSchedulerIsQuiet
<1>1. Init => SchedInv /\ QuietInv
  <2>1. Init => QuietInv
    BY DEF Init, QuietInv, StoppedSchedulerIsQuiet
  <2>2. QED
    BY <2>1, SchedInvInit
<1>2. SchedInv /\ QuietInv /\ [Next]_vars => (SchedInv /\ QuietInv)'
  BY SchedInvNext, QuietInvNext
<1>3. SchedInv /\ QuietInv => StoppedSchedulerIsQuiet
  BY DEF QuietInv
<1>4. QED
  BY <1>1, <1>2, <1>3, PTL DEF Spec

-----------------------------------------------------------------------------
(* Of the engine's variables, every step of the scheduler, of its processor *)
(* and of the environment changes only what one call of the engine's API,   *)
(* or one step of its goroutines, changes.                                  *)
LEMMA NextMovesEngine == SchedInv /\ [Next]_vars => [EngineMove]_engineVars
<1> SUFFICES ASSUME SchedInv, [Next]_vars
             PROVE  [EngineMove]_engineVars
  OBVIOUS
<1>1. CASE SubmitOne
  BY <1>1, SchedulerAssumption
     DEF SchedInv, LoopOK, SubmitOne, Backends, EngineMove, SchedulerAssumption
<1>2. CASE ProcReceive
  BY <1>2 DEF ProcReceive, EngineMove
<1>3. CASE EngineRuns \/ EngineLife
  BY <1>3, SchedulerAssumption
     DEF EngineRuns, EngineLife, EngineMove, WorkerRuns, WorkerStep, CheckTarget,
         SchedulerAssumption
<1>4. CASE LoopStep /\ ~SubmitOne
  BY <1>4 DEF LoopStep, ListConfigs, ReadCheck, ReadBatch, SubmitReturned, LoopTick, LoopStop
<1>5. CASE ProcStep /\ ~ProcReceive
  BY <1>5 DEF ProcStep, ProcStop, ReadState, ReadBackend, ReadThresholds, WriteState
<1>6. CASE SchedStart \/ StartResultProcessor \/ SchedStop \/ SchedWait \/ CancelContext
  BY <1>6 DEF SchedStart, StartResultProcessor, SchedStop, SchedWait, CancelContext
<1>7. CASE Environment \/ UNCHANGED vars
  BY <1>7 DEF Environment, vars
<1>8. QED
  BY <1>1, <1>2, <1>3, <1>4, <1>5, <1>6, <1>7 DEF Next

(* The engine under the scheduler behaves as an engine does whose clients   *)
(* may submit a backend again and again: what is proved of such an engine   *)
(* holds in the composition.                                                *)
THEOREM SchedulerDrivesEngine == Spec => EngineInit /\ [][EngineMove]_engineVars
<1>1. Init => EngineInit /\ SchedInv
  BY SchedInvInit DEF Init
<1>2. SchedInv /\ [Next]_vars => SchedInv' /\ [EngineMove]_engineVars
  BY SchedInvNext, NextMovesEngine
<1>3. QED
  BY <1>1, <1>2, PTL DEF Spec

(* ... as that its Stop waits for the checks that the scheduler submitted,  *)
(* with backends deleted, disabled and resubmitted, the scheduler stopped   *)
(* before or after it, and the result channel full of what nobody receives. *)
THEOREM EngineStopWaitsForScheduledChecks == OneStopper => (Spec => []StopWaits)
<1> SUFFICES ASSUME OneStopper PROVE Spec => []StopWaits
  OBVIOUS
<1>1. EngineInit => TypeInv /\ StopInv
  BY TypeInvInit, StopInvInit
<1>2. TypeInv /\ StopInv /\ [EngineMove]_engineVars => TypeInv' /\ StopInv'
  BY TypeInvMove, StopInvMove
<1>3. TypeInv /\ StopInv => StopWaits
  BY DEF StopInv
<1>4. QED
  BY <1>1, <1>2, <1>3, SchedulerDrivesEngine, PTL
=============================================================================

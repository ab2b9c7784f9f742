-------------------------- MODULE LifecycleProofs --------------------------
(***************************************************************************)
(* Theorems about the loops that are started and stopped: the reconciler's *)
(* (ReconcilerLife), for any number of lives, and the check scheduler's    *)
(* (CheckScheduler), for any number of engines and targets and any         *)
(* capacity.                                                               *)
(***************************************************************************)
EXTENDS ReconcilerLife, CheckScheduler, SequenceTheorems, FiniteSetTheorems, TLAPS

LifeType ==
    /\ lives \in 0 .. MaxLives
    /\ start \subseteq 1 .. lives
    /\ loop \in [Lives -> Loops]
    /\ waits \in [Lives -> 0 .. lives]

(***************************************************************************)
(* RunningHasLoop is not inductive: it does not say on which channel the   *)
(* loop of the current life waits.  A loop in its select waits on a        *)
(* channel that was made for its own life or a later one; so the loop of   *)
(* the current life waits on the current channel, which is open as long as *)
(* the reconciler runs.                                                    *)
(***************************************************************************)
LifeInv ==
    /\ LifeType
    /\ RunningHasLoop
    /\ recRunning => lives \in Lives /\ lives \notin closed
    /\ closed \subseteq 1 .. lives
    /\ \A n \in Lives : loop[n] # "none" => n <= lives
    /\ \A n \in Lives : loop[n] = "select" => waits[n] >= n

(* A new reconciler does not run. *)
LEMMA LifeInvInit == LifeInit => LifeInv
BY LifeAssumption
   DEF LifeInit, LifeInv, LifeType, RunningHasLoop, LifeAssumption, Lives, Loops

(* No step leaves the running reconciler without a loop. *)
LEMMA LifeInvNext == LifeInv /\ [LifeNext]_lifeVars => LifeInv'
<1> SUFFICES ASSUME LifeInv, [LifeNext]_lifeVars
             PROVE  LifeInv'
  OBVIOUS
<1> USE LifeAssumption
    DEF LifeInv, LifeType, RunningHasLoop, LifeAssumption, Lives, Loops, Looping
<1>1. CASE StartReconciler
  BY <1>1 DEF StartReconciler
<1>2. CASE StopReconciler
  BY <1>2 DEF StopReconciler
<1>3. CASE CancelStart
  BY <1>3 DEF CancelStart
<1>4. ASSUME NEW n \in Lives, LaunchLoop(n)
      PROVE  LifeInv'
  BY <1>4 DEF LaunchLoop
<1>5. ASSUME NEW n \in Lives, EnterSelect(n)
      PROVE  LifeInv'
  BY <1>5 DEF EnterSelect
<1>6. ASSUME NEW n \in Lives, LeaveLoop(n)
      PROVE  LifeInv'
  BY <1>6 DEF LeaveLoop
<1>7. ASSUME NEW n \in Lives, BeginPass(n)
      PROVE  LifeInv'
  BY <1>7 DEF BeginPass
<1>8. ASSUME NEW n \in Lives, EndPass(n)
      PROVE  LifeInv'
  BY <1>8 DEF EndPass
<1>9. CASE UNCHANGED lifeVars
  BY <1>9 DEF lifeVars
<1>10. QED
  BY <1>1, <1>2, <1>3, <1>4, <1>5, <1>6, <1>7, <1>8, <1>9 DEF LifeNext, LoopStep

(* A reconciler that runs, with a context that is not done, has a loop of   *)
(* its current life or is about to launch it, however Stop and Start follow *)
(* each other and wherever the loops of earlier lives are.                  *)
THEOREM RunningReconcilerHasLoop == LifeSpec => []RunningHasLoop
<1>1. LifeInv => RunningHasLoop
  BY DEF LifeInv
<1>2. QED
  BY <1>1, LifeInvInit, LifeInvNext, PTL DEF LifeSpec

-----------------------------------------------------------------------------
(***************************************************************************)
(* QuietAfterStop needs what Stop has done so far: the engines that it has *)
(* passed are off and idle; an engine that is off accepts no request, also *)
(* from a Run that begins only now; and Start has to wait for the mutex    *)
(* while Stop goes from one engine to the next.                            *)
(***************************************************************************)
CSType ==
    /\ IsFiniteSet(registered) /\ registered \subseteq Targets
    /\ batch \in Seq(Targets)
    /\ turn \in Nat
    /\ on \in [EngineIds -> BOOLEAN]
    /\ off \in [EngineIds -> BOOLEAN]
    /\ busy \in [EngineIds -> Targets \cup {NoTarget}]
    /\ stopPC \in {"idle", "wait", "engines", "returned", "restarted"}
    /\ stopAt \in 0 .. EngineCount

StoppedEngines ==
    /\ stopPC \in {"idle", "wait"} => stopAt = 0
    /\ stopPC = "returned" => stopAt = EngineCount
    /\ stopPC # "restarted" => \A e \in EngineIds : e < stopAt => busy[e] = NoTarget /\ ~on[e]

CSInv == CSType /\ StoppedEngines

(* A new scheduler has stopped nothing. *)
LEMMA CSInvInit == CSInit => CSInv
<1> SUFFICES ASSUME CSInit PROVE CSInv
  OBVIOUS
<1>1. IsFiniteSet(registered)
  BY FS_EmptySet DEF CSInit
<1>2. on \in [EngineIds -> BOOLEAN] /\ off \in [EngineIds -> BOOLEAN]
  BY Zenon DEF CSInit
<1>3. QED
  BY <1>1, <1>2, CheckSchedulerAssumption
     DEF CSInit, CSInv, CSType, StoppedEngines, EngineIds, CheckSchedulerAssumption

(* The engine whose turn it is. *)
LEMMA targetType == turn \in Nat => target \in EngineIds
BY CheckSchedulerAssumption DEF target, EngineIds, CheckSchedulerAssumption

(* A batch is a sequence of targets. *)
LEMMA BatchType ==
    ASSUME CSType, NEW s \in [1 .. Cardinality(registered) -> registered]
    PROVE  s \in Seq(Targets)
<1>1. Cardinality(registered) \in Nat
  BY FS_CardinalityType DEF CSType
<1>2. QED
  BY <1>1 DEF CSType

(* Every step keeps the engines that Stop has passed off and idle. *)
LEMMA CSInvNext == CSInv /\ [CSNext]_csVars => CSInv'
<1> SUFFICES ASSUME CSInv, [CSNext]_csVars
             PROVE  CSInv'
  OBVIOUS
<1> USE CheckSchedulerAssumption DEF CheckSchedulerAssumption, CSInv, EngineIds
<1>1. CASE StartEngines
  <2>1. on' \in [EngineIds -> BOOLEAN]
    BY <1>1, Zenon DEF StartEngines
  <2>2. QED
    BY <1>1, <2>1 DEF StartEngines, locked, CSType, StoppedEngines, runState
<1>2. ASSUME NEW b \in Targets, Register(b) \/ Unregister(b)
      PROVE  CSInv'
  <2>1. IsFiniteSet(registered') /\ registered' \subseteq Targets
    BY <1>2, FS_AddElement, FS_RemoveElement DEF Register, Unregister, CSType
  <2>2. QED
    BY <1>2, <2>1
       DEF Register, Unregister, CSType, StoppedEngines, runState, engineState, stopState
<1>3. CASE RunBegins \/ RunEnds \/ BatchDone
  BY <1>3 DEF RunBegins, RunEnds, BatchDone, CSType, StoppedEngines, engineState, stopState
<1>4. CASE TakeBatch
  <2>1. batch' \in Seq(Targets) /\ turn' \in Nat
    BY <1>4, BatchType DEF TakeBatch
  <2>2. QED
    BY <1>4, <2>1 DEF TakeBatch, CSType, StoppedEngines, engineState, stopState
<1>5. CASE SubmitNext
  <2>1. target \in EngineIds
    BY targetType DEF CSType
  <2>2. /\ Head(batch) \in Targets /\ Tail(batch) \in Seq(Targets)
        /\ turn' \in Nat
    BY <1>5, HeadTailProperties DEF SubmitNext, CSType
  <2>3. \/ UNCHANGED busy
        \/ on[target] /\ busy' = [busy EXCEPT ![target] = Head(batch)]
    BY <1>5, Zenon DEF SubmitNext
  <2>4. busy' \in [EngineIds -> Targets \cup {NoTarget}]
    BY <2>1, <2>2, <2>3 DEF CSType
  <2>5. stopPC # "restarted" => \A e \in EngineIds : e < stopAt => busy'[e] = NoTarget /\ ~on[e]
    BY <2>1, <2>3 DEF CSType, StoppedEngines
  <2>6. QED
    BY <1>5, <2>2, <2>4, <2>5 DEF SubmitNext, CSType, StoppedEngines, stopState
<1>6. ASSUME NEW e \in EngineIds, Deliver(e) \/ GiveUp(e)
      PROVE  CSInv'
  BY <1>6 DEF Deliver, GiveUp, CSType, StoppedEngines, runState, stopState
<1>7. ASSUME NEW e \in EngineIds, Forward(e) \/ Consume(e) \/ ForwarderEnds(e)
      PROVE  CSInv'
  BY <1>7 DEF Forward, Consume, ForwarderEnds, CSType, StoppedEngines, runState, engineState,
              stopState
<1>8. CASE Results \/ StopBegins
  BY <1>8 DEF Results, StopBegins, CSType, StoppedEngines, runState, engineState, stopState
<1>9. CASE StopWaitsForRun \/ StopEnds
  BY <1>9 DEF StopWaitsForRun, StopEnds, CSType, StoppedEngines, runState, engineState
<1>10. CASE CancelEngine
  <2>1. on' \in [EngineIds -> BOOLEAN] /\ off' \in [EngineIds -> BOOLEAN]
    BY <1>10, Zenon DEF CancelEngine, CSType
  <2>2. \A e \in EngineIds : e < stopAt => ~on'[e]
    BY <1>10 DEF CancelEngine, CSType, StoppedEngines
  <2>3. QED
    BY <1>10, <2>1, <2>2 DEF CancelEngine, CSType, StoppedEngines, runState, stopState
<1>11. CASE EngineStopped
  BY <1>11 DEF EngineStopped, CSType, StoppedEngines, runState, engineState
<1>12. CASE UNCHANGED csVars
  BY <1>12 DEF csVars, CSType, StoppedEngines
<1>13. QED
  BY <1>1, <1>2, <1>3, <1>4, <1>5, <1>6, <1>7, <1>8, <1>9, <1>10, <1>11, <1>12
     DEF CSNext, Calls, RunStep, StopStep

(* When CheckScheduler.Stop has returned no engine runs or works, for any   *)
(* number of engines, also if Run is called late or a Start overlapped the  *)
(* Stop, until Start is called again.                                       *)
THEOREM NothingCheckedAfterStop == CSSpec => []QuietAfterStop
<1>1. CSInv => QuietAfterStop
  BY CheckSchedulerAssumption
     DEF CSInv, CSType, StoppedEngines, QuietAfterStop, EngineIds, CheckSchedulerAssumption
<1>2. QED
  BY <1>1, CSInvInit, CSInvNext, PTL DEF CSSpec
=============================================================================

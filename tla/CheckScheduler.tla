--------------------------- MODULE CheckScheduler ---------------------------
(***************************************************************************)
(* The check scheduler (internal/health/engine.go, type CheckScheduler):   *)
(* a loop that hands every registered backend to one of several engines    *)
(* each second, goroutines that merge the results of the engines, and a    *)
(* Stop that ends the loop first and the engines after it.                 *)
(*                                                                         *)
(* An engine (the module Engine) is here what it promises in the module    *)
(* Pool, with a single worker: it takes a request when the worker is free, *)
(* and gives a result up when its channel is full or it shuts down.  The   *)
(* mutex of the scheduler is held by Stop while it stops the engines.      *)
(***************************************************************************)
EXTENDS Integers, Sequences, FiniteSets

CONSTANTS
    EngineCount,    \* numEngines
    ResultCapacity, \* capacity of an engine's result channel
    Targets,        \* ids of backends that may be registered
    NoTarget        \* no backend

ASSUME CheckSchedulerAssumption ==
    EngineCount \in Nat \ {0} /\ ResultCapacity \in Nat \ {0} /\ NoTarget \notin Targets

VARIABLES
    registered,     \* CheckScheduler.requests
    stopClosed,     \* stopChan is closed
    runPC,          \* where Run is
    batch,          \* submitScheduledChecks: the requests that are left
    turn,           \* ... and the number of the next one
    on,             \* for each engine: running
    off,            \* for each engine: its context is done
    busy,           \* for each engine: what its worker checks
    out,            \* for each engine: how many results its channel holds
    fwd,            \* for each engine: its forwarder, "none" before Results is called
    stopPC,         \* where Stop is; "restarted" when Start was called after it
    stopAt          \* Stop: the engine it stops

csVars == <<registered, stopClosed, runPC, batch, turn, on, off, busy, out, fwd, stopPC,
            stopAt>>
engineState == <<on, off, busy, out>>
runState == <<runPC, batch, turn>>
stopState == <<stopClosed, stopPC, stopAt>>

EngineIds == 0 .. EngineCount - 1

(* NewCheckScheduler. *)
CSInit ==
    /\ registered = {}
    /\ stopClosed = FALSE
    /\ runPC = "none" /\ batch = <<>> /\ turn = 0
    /\ on = [e \in EngineIds |-> FALSE]
    /\ off = [e \in EngineIds |-> FALSE]
    /\ busy = [e \in EngineIds |-> NoTarget]
    /\ out = [e \in EngineIds |-> 0]
    /\ fwd = [e \in EngineIds |-> "none"]
    /\ stopPC = "idle" /\ stopAt = 0

(* Mutant: Stop does not hold the mutex while it stops the engines. *)
neverLocked == FALSE

(* The mutex, held by Stop from the end of its wg.Wait to its return. *)
locked == stopPC = "engines"

(* Start, under the mutex: before Stop has it, or after Stop has returned.  *)
(* The engines of a scheduler that was stopped run again, although their    *)
(* contexts are done.                                                       *)
StartEngines ==
    /\ ~locked
    /\ on # [e \in EngineIds |-> TRUE]
    /\ on' = [e \in EngineIds |-> TRUE]
    /\ stopPC' = IF stopPC = "returned" THEN "restarted" ELSE stopPC
    /\ UNCHANGED <<registered, runState, off, busy, out, fwd, stopClosed, stopAt>>

Register(b) ==
    /\ ~locked
    /\ registered' = registered \cup {b}
    /\ UNCHANGED <<runState, engineState, fwd, stopState>>

Unregister(b) ==
    /\ ~locked
    /\ registered' = registered \ {b}
    /\ UNCHANGED <<runState, engineState, fwd, stopState>>

-----------------------------------------------------------------------------
(* Run begins: wg.Add(1). *)
RunBegins ==
    /\ runPC = "none"
    /\ runPC' = "select"
    /\ UNCHANGED <<registered, batch, turn, engineState, fwd, stopState>>

(* case <-s.stopChan *)
RunEnds ==
    /\ runPC = "select"
    /\ stopClosed
    /\ runPC' = "gone"
    /\ UNCHANGED <<registered, batch, turn, engineState, fwd, stopState>>

(* case <-ticker.C: submitScheduledChecks copies the map, in any order. *)
TakeBatch ==
    /\ runPC = "select"
    /\ ~locked
    /\ registered # {}
    /\ \E s \in [1 .. Cardinality(registered) -> registered] :
          /\ {s[i] : i \in DOMAIN s} = registered
          /\ batch' = s
    /\ turn' = 0
    /\ runPC' = "submit"
    /\ UNCHANGED <<registered, engineState, fwd, stopState>>

target == turn % EngineCount

(* Mutant: a request whose engine is busy is put off to the next second. *)
SubmitOrSkip ==
    /\ runPC = "submit"
    /\ batch # <<>>
    /\ busy' = IF on[0] /\ busy[0] = NoTarget THEN [busy EXCEPT ![0] = Head(batch)] ELSE busy
    /\ batch' = Tail(batch)
    /\ turn' = turn + 1
    /\ UNCHANGED <<registered, runPC, on, off, out, fwd, stopState>>

(* Submit of the next request, engines in turn: it waits for the worker, or *)
(* is refused by an engine that does not run or whose context is done (the  *)
(* error is ignored).                                                       *)
SubmitNext ==
    /\ runPC = "submit"
    /\ batch # <<>>
    /\ \/ on[target] /\ busy[target] = NoTarget /\ busy' = [busy EXCEPT ![target] = Head(batch)]
       \/ ~(on[target] /\ ~off[target]) /\ UNCHANGED busy
    /\ batch' = Tail(batch)
    /\ turn' = turn + 1
    /\ UNCHANGED <<registered, runPC, on, off, out, fwd, stopState>>

BatchDone ==
    /\ runPC = "submit"
    /\ batch = <<>>
    /\ runPC' = "select"
    /\ turn' = 0
    /\ UNCHANGED <<registered, batch, engineState, fwd, stopState>>

RunStep == RunEnds \/ TakeBatch \/ SubmitNext \/ BatchDone

-----------------------------------------------------------------------------
(* The worker of an engine is done with its check. *)
Deliver(e) ==
    /\ busy[e] # NoTarget
    /\ out[e] < ResultCapacity
    /\ out' = [out EXCEPT ![e] = @ + 1]
    /\ busy' = [busy EXCEPT ![e] = NoTarget]
    /\ UNCHANGED <<registered, runState, on, off, fwd, stopState>>

(* Mutant: a worker waits until somebody reads its result. *)
GiveUpOnStop(e) ==
    /\ busy[e] # NoTarget
    /\ off[e]
    /\ busy' = [busy EXCEPT ![e] = NoTarget]
    /\ UNCHANGED <<registered, runState, on, off, out, fwd, stopState>>

GiveUp(e) ==
    /\ busy[e] # NoTarget
    /\ off[e] \/ out[e] = ResultCapacity
    /\ busy' = [busy EXCEPT ![e] = NoTarget]
    /\ UNCHANGED <<registered, runState, on, off, out, fwd, stopState>>

(* Results starts a forwarder for each engine. *)
Results ==
    /\ fwd = [e \in EngineIds |-> "none"]
    /\ fwd' = [e \in EngineIds |-> "receive"]
    /\ UNCHANGED <<registered, runState, engineState, stopState>>

(* A forwarder takes a result; no engine ever closes its channel. *)
Forward(e) ==
    /\ fwd[e] = "receive"
    /\ out[e] > 0
    /\ fwd' = [fwd EXCEPT ![e] = "offer"]
    /\ out' = [out EXCEPT ![e] = @ - 1]
    /\ UNCHANGED <<registered, runState, on, off, busy, stopState>>

(* case merged <- result: somebody reads the merged channel. *)
Consume(e) ==
    /\ fwd[e] = "offer"
    /\ fwd' = [fwd EXCEPT ![e] = "receive"]
    /\ UNCHANGED <<registered, runState, engineState, stopState>>

(* case <-s.stopChan: the result is lost. *)
ForwarderEnds(e) ==
    /\ fwd[e] = "offer"
    /\ stopClosed
    /\ fwd' = [fwd EXCEPT ![e] = "gone"]
    /\ UNCHANGED <<registered, runState, engineState, stopState>>

-----------------------------------------------------------------------------
(* Stop: close(s.stopChan), once in the life of the scheduler. *)
StopBegins ==
    /\ stopPC = "idle"
    /\ stopClosed' = TRUE
    /\ stopPC' = "wait"
    /\ UNCHANGED <<registered, runState, engineState, fwd, stopAt>>

(* ... s.wg.Wait(), s.mu.Lock() *)
StopWaitsForRun ==
    /\ stopPC = "wait"
    /\ runPC \notin {"select", "submit"}
    /\ stopPC' = "engines"
    /\ UNCHANGED <<registered, runState, engineState, fwd, stopClosed, stopAt>>

(* ... engine.Stop() of the next engine: cancel, if it runs ... *)
CancelEngine ==
    /\ stopPC = "engines"
    /\ stopAt < EngineCount
    /\ on[stopAt]
    /\ on' = [on EXCEPT ![stopAt] = FALSE]
    /\ off' = [off EXCEPT ![stopAt] = TRUE]
    /\ UNCHANGED <<registered, runState, busy, out, fwd, stopState>>

(* ... and wait for its worker. *)
EngineStopped ==
    /\ stopPC = "engines"
    /\ stopAt < EngineCount
    /\ ~on[stopAt]
    /\ busy[stopAt] = NoTarget
    /\ stopAt' = stopAt + 1
    /\ UNCHANGED <<registered, runState, engineState, fwd, stopClosed, stopPC>>

StopEnds ==
    /\ stopPC = "engines"
    /\ stopAt = EngineCount
    /\ stopPC' = "returned"
    /\ UNCHANGED <<registered, runState, engineState, fwd, stopClosed, stopAt>>

StopStep == StopWaitsForRun \/ CancelEngine \/ EngineStopped \/ StopEnds

(* What is called from outside.  Bound: nothing after the restart of a      *)
(* scheduler that was stopped; its Run would find stopChan closed, and a    *)
(* second Stop would panic when it closes it.                               *)
Calls ==
    /\ stopPC # "restarted"
    /\ \/ StartEngines \/ RunBegins \/ Results \/ StopBegins
       \/ \E b \in Targets : Register(b) \/ Unregister(b)
       \/ \E e \in EngineIds : Consume(e)

CSNext ==
    \/ Calls
    \/ RunStep
    \/ \E e \in EngineIds : Deliver(e) \/ GiveUp(e) \/ Forward(e) \/ ForwarderEnds(e)
    \/ StopStep

CSSpec == CSInit /\ [][CSNext]_csVars

(* Goroutines that can go on do, the ticker fires, a check ends; a select   *)
(* that finds stopChan closed again and again takes that case.  Nobody has  *)
(* to call Results or to read the merged results.                           *)
CSFairness ==
    /\ WF_csVars(RunStep) /\ SF_csVars(RunEnds)
    /\ WF_csVars(StopStep)
    /\ \A e \in EngineIds : WF_csVars(Deliver(e) \/ GiveUp(e))

-----------------------------------------------------------------------------
(***************************************************************************)
(* QuietAfterStop.  When Stop has returned, and Start was not called since, *)
(* no engine runs or works on a check: not for a Run that is called only    *)
(* now, and not because a Start came in while Stop was going on.            *)
(***************************************************************************)
QuietAfterStop ==
    stopPC = "returned" => \A e \in EngineIds : busy[e] = NoTarget /\ ~on[e]

(***************************************************************************)
(* SchedulerStops.  Stop returns, also when the loop is blocked in Submit  *)
(* on a busy engine, the result channels are full and nobody reads the     *)
(* merged results.                                                         *)
(***************************************************************************)
SchedulerStops == stopPC = "wait" ~> stopPC = "returned"

(***************************************************************************)
(* AllChecked.  Once the engines are started and Run was called, every     *)
(* registered backend is given to an engine again and again, whatever the  *)
(* order of the map and whichever engine its turn falls on, unless it is   *)
(* unregistered or the scheduler stopped.                                  *)
(***************************************************************************)
AllChecked ==
    \A b \in Targets :
        (b \in registered /\ on[0] /\ runPC \in {"select", "submit"})
            ~> ((\E e \in EngineIds : busy[e] = b) \/ b \notin registered \/ stopClosed)
=============================================================================

---------------------------- MODULE StateMachine ----------------------------
(***************************************************************************)
(* The health state machine (internal/health/state.go): two counters of    *)
(* consecutive results and a status, all under one mutex.  The history     *)
(* variable results is what the abstract specification speaks about.       *)
(***************************************************************************)
EXTENDS Integers, Sequences

CONSTANTS
    SMThresholds,   \* thresholds a health check may be configured with
    MaxResults      \* bound: results between two resets

ASSUME SMAssumption == SMThresholds \subseteq Int /\ MaxResults \in Nat

VARIABLES
    smConfig,               \* StateMachine.config: the two thresholds
    currentStatus,
    consecutiveSuccesses,
    consecutiveFailures,
    results                 \* history: the results since NewStateMachine or Reset

smVars == <<smConfig, currentStatus, consecutiveSuccesses, consecutiveFailures, results>>

(* NewStateMachine. *)
SMInit ==
    /\ smConfig \in [ThresholdHealthy : SMThresholds, ThresholdUnhealthy : SMThresholds]
    /\ currentStatus = "unknown"
    /\ consecutiveSuccesses = 0
    /\ consecutiveFailures = 0
    /\ results = <<>>

(* "Default to 1". *)
effective(threshold) == IF threshold <= 0 THEN 1 ELSE threshold

(* Mutant: a failure does not end the run of successes. *)
FailureKeepsCount ==
    /\ Len(results) < MaxResults
    /\ consecutiveFailures' = consecutiveFailures + 1
    /\ currentStatus' = IF consecutiveFailures' >= effective(smConfig.ThresholdUnhealthy)
                        THEN "unhealthy" ELSE currentStatus
    /\ results' = Append(results, FALSE)
    /\ UNCHANGED <<smConfig, consecutiveSuccesses>>

(* ProcessResult(true). *)
ProcessSuccess ==
    /\ Len(results) < MaxResults
    /\ consecutiveSuccesses' = consecutiveSuccesses + 1
    /\ consecutiveFailures' = 0
    /\ currentStatus' = IF consecutiveSuccesses' >= effective(smConfig.ThresholdHealthy)
                        THEN "healthy" ELSE currentStatus
    /\ results' = Append(results, TRUE)
    /\ UNCHANGED smConfig

(* ProcessResult(false). *)
ProcessFailure ==
    /\ Len(results) < MaxResults
    /\ consecutiveFailures' = consecutiveFailures + 1
    /\ consecutiveSuccesses' = 0
    /\ currentStatus' = IF consecutiveFailures' >= effective(smConfig.ThresholdUnhealthy)
                        THEN "unhealthy" ELSE currentStatus
    /\ results' = Append(results, FALSE)
    /\ UNCHANGED smConfig

(* Reset. *)
Reset ==
    /\ currentStatus' = "unknown"
    /\ consecutiveSuccesses' = 0
    /\ consecutiveFailures' = 0
    /\ results' = <<>>
    /\ UNCHANGED smConfig

SMNext == ProcessSuccess \/ ProcessFailure \/ Reset

SMSpec == SMInit /\ [][SMNext]_smVars

-----------------------------------------------------------------------------
H == INSTANCE Hysteresis WITH
        need <- [healthy |-> effective(smConfig.ThresholdHealthy),
                 unhealthy |-> effective(smConfig.ThresholdUnhealthy)],
        log <- results,
        status <- currentStatus

(***************************************************************************)
(* ImplementsHysteresis.  The counters and the status of state.go follow   *)
(* the rule its comment states: a status changes only at the end of as     *)
(* many equal results in a row as the threshold says, whatever came before *)
(* and also after a Reset; thresholds that are not positive count as 1.    *)
(***************************************************************************)
ImplementsHysteresis == H!Spec
=============================================================================

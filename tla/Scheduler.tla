------------------------------ MODULE Scheduler ------------------------------
(***************************************************************************)
(* The health check scheduler (internal/health/scheduler.go): a loop that  *)
(* submits a check for every enabled backend of every config that has a    *)
(* health check, the engine that performs them (module Engine, whose       *)
(* requests are backends), and the result processor that counts results    *)
(* and stores the status of a backend in health_states.                    *)
(*                                                                         *)
(* The loop is the engine's only submitter and the processor its only      *)
(* consumer.  A database access is a step of its own: handlers delete      *)
(* backends and change health checks between any two of them.              *)
(***************************************************************************)
EXTENDS Engine, Functions

CONSTANTS
    Configs,        \* ids of configurations
    Thresholds,     \* values of threshold_healthy and threshold_unhealthy, at least 1
    MaxCount,       \* bound: counters stay here once they get here
    MaxFaults,      \* bound: failing database accesses
    MaxSchedStarts, \* bound: calls of Scheduler.Start
    EnvActs,        \* what may happen outside, a subset of AllEnvActs
    Changing        \* bound: backends that go up and down; the others are down

Backends == Requests
Loop == "loop"      \* the goroutine of the loop, as a submitter of the engine

(* Backends are added, deleted, edited (enabled or disabled, moved to       *)
(* another config), health checks are configured, deleted, backends go up   *)
(* and down, the scheduler is stopped, its context is cancelled.            *)
AllEnvActs == {"add", "delete", "edit", "checks", "uncheck", "reach", "stop", "cancel"}

(* What is kept for a backend that has no row, and between two results.     *)
AnyConfig == CHOOSE c \in Configs : TRUE

DefaultThresholds == [healthy |-> 2, unhealthy |-> 2]

ASSUME SchedulerAssumption ==
    /\ Submitters = {Loop}
    /\ Configs # {}
    /\ Thresholds \subseteq Nat \ {0}
    /\ MaxCount \in Nat
    /\ \A h \in Thresholds : h <= MaxCount
    /\ 2 <= MaxCount
    /\ Outcomes \subseteq {"healthy", "unhealthy", "error"}
    /\ MaxFaults \in Nat
    /\ MaxSchedStarts \in Nat
    /\ EnvActs \subseteq AllEnvActs
    /\ Changing \subseteq Backends

VARIABLES
    created,        \* backend ids that were ever given out (uuid.New)
    live,           \* table backends: the rows that exist
    enabled,        \* the enabled ones among them
    configOf,       \* and the config of each
    up,             \* environment: backends that answer a check
    checks,         \* table health_checks: config -> thresholds
    health,         \* table health_states: backend -> status and counters
    sRunning,       \* Scheduler.running
    sClosed,        \* stopCh is closed; it is made once, by NewScheduler
    sStarts,        \* calls of Start that started the loop
    panicked,       \* stopCh was closed a second time, or the WaitGroup reused
    stop,           \* where the caller of Scheduler.Stop is
    lpc,            \* where the loop is
    lconfigs,       \* configs that scheduleChecks has still to visit, the current one included
    lbatch,         \* backends of the current config that it has still to submit
    ppc,            \* where the result processor is
    pres,           \* the result that it handles
    pstate,         \* the state that it read and updates
    pconfig,        \* the config of the backend, as read
    pthresholds,    \* the thresholds that it read
    ctxDone,        \* the context of Start and StartResultProcessor is done
    faults          \* failing database accesses so far

tables == <<created, live, enabled, configOf, up, checks, health>>
schedVars == <<sRunning, sClosed, sStarts, panicked, stop, lpc, lconfigs, lbatch,
               ppc, pres, pstate, pconfig, pthresholds, ctxDone, faults>>
vars == <<engineVars, tables, schedVars>>

HealthStatuses == {"unknown", "healthy", "unhealthy"}
State == [status : HealthStatuses, succ : 0 .. MaxCount, fail : 0 .. MaxCount]
NewState == [status |-> "unknown", succ |-> 0, fail |-> 0]
NoResult == [req |-> NoRequest, out |-> NoOutcome]
ThresholdPair == [healthy : Thresholds \cup {2}, unhealthy : Thresholds \cup {2}]

(* The type of the scheduler's state; the counters of consecutive results   *)
(* exclude each other.                                                      *)
SchedTypeOK ==
    /\ created \subseteq Backends
    /\ live \subseteq created
    /\ enabled \subseteq live
    /\ configOf \in [Backends -> Configs]
    /\ up \subseteq Backends
    /\ DOMAIN checks \subseteq Configs
    /\ \A c \in DOMAIN checks : checks[c] \in ThresholdPair
    /\ DOMAIN health \subseteq Backends
    /\ \A b \in DOMAIN health : health[b] \in State /\ 0 \in {health[b].succ, health[b].fail}
    /\ {sRunning, sClosed, panicked, ctxDone} \subseteq BOOLEAN
    /\ sStarts \in 0 .. MaxSchedStarts
    /\ stop \in {"idle", "waiting", "returned"}
    /\ lpc \in {"none", "list", "check", "read", "submit", "submitting", "select", "gone"}
    /\ lconfigs \subseteq Configs
    /\ lbatch \subseteq Backends
    /\ ppc \in {"none", "select", "state", "backend", "thresholds", "write", "gone"}
    /\ pres \in Result \cup {NoResult}
    /\ pstate \in State
    /\ pconfig \in Configs
    /\ pthresholds \in ThresholdPair
    /\ faults \in 0 .. MaxFaults

Init ==
    /\ EngineInit
    /\ created = {} /\ live = {} /\ enabled = {} /\ up = {}
    /\ configOf = [b \in Backends |-> AnyConfig]
    /\ checks = [c \in {} |-> DefaultThresholds]
    /\ health = [b \in {} |-> NewState]
    /\ sRunning = FALSE /\ sClosed = FALSE /\ sStarts = 0 /\ panicked = FALSE
    /\ stop = "idle"
    /\ lpc = "none" /\ lconfigs = {} /\ lbatch = {}
    /\ ppc = "none" /\ pres = NoResult /\ pstate = NewState
    /\ pconfig = AnyConfig /\ pthresholds = DefaultThresholds
    /\ ctxDone = FALSE
    /\ faults = 0

-----------------------------------------------------------------------------
(* A panic, here or in the engine, ends the process. *)
ended == panicked \/ WaitPanicked

(* Both goroutines are gone and the wg.Wait of Stop has not returned yet:   *)
(* an Add in this moment may panic, as in the engine.                       *)
waitOver == stop = "waiting" /\ {lpc, ppc} \subseteq {"none", "gone"}

(* Scheduler.Start and Scheduler.Stop, under the mutex.                     *)
SchedStart ==
    /\ ~sRunning /\ ~ended
    /\ sStarts < MaxSchedStarts
    /\ sRunning' = TRUE
    /\ sStarts' = sStarts + 1
    /\ lpc \in {"none", "gone"}     \* bound: not while the loop of an earlier Start runs
    /\ lpc' = "list"
    /\ stop' = IF stop = "returned" THEN "idle" ELSE stop
    /\ panicked' \in {FALSE, waitOver}
    /\ UNCHANGED <<engineVars, tables, sClosed, lconfigs, lbatch, ppc, pres,
                   pstate, pconfig, pthresholds, ctxDone, faults>>

(* Its caller is not in the repository; it is taken to start the processor  *)
(* once, before it stops the scheduler.                                     *)
StartResultProcessor ==
    /\ ppc = "none"
    /\ ~sClosed /\ ~ended
    /\ ppc' = "select"
    /\ UNCHANGED <<engineVars, tables, sRunning, sClosed, sStarts, panicked, stop, lpc,
                   lconfigs, lbatch, pres, pstate, pconfig, pthresholds, ctxDone, faults>>

(* close(s.stopCh) panics when an earlier Stop has closed the channel.      *)
SchedStop ==
    /\ "stop" \in EnvActs
    /\ stop = "idle" /\ ~ended
    /\ IF sRunning
       THEN /\ sRunning' = FALSE
            /\ sClosed' = TRUE
            /\ panicked' = sClosed
            /\ stop' = "waiting"
       ELSE stop' = "returned" /\ UNCHANGED <<sRunning, sClosed, panicked>>
    /\ UNCHANGED <<engineVars, tables, sStarts, lpc, lconfigs, lbatch, ppc, pres, pstate,
                   pconfig, pthresholds, ctxDone, faults>>

(* Mutant: the processor is not counted by the WaitGroup. *)
SchedWaitForLoop ==
    /\ stop = "waiting"
    /\ ~ended
    /\ lpc \in {"none", "gone"}
    /\ stop' = "returned"
    /\ UNCHANGED <<engineVars, tables, sRunning, sClosed, sStarts, panicked, lpc, lconfigs,
                   lbatch, ppc, pres, pstate, pconfig, pthresholds, ctxDone, faults>>

(* wg.Wait(): the loop and the processor have returned. *)
SchedWait ==
    /\ stop = "waiting"
    /\ ~ended
    /\ {lpc, ppc} \subseteq {"none", "gone"}
    /\ stop' = "returned"
    /\ UNCHANGED <<engineVars, tables, sRunning, sClosed, sStarts, panicked, lpc, lconfigs,
                   lbatch, ppc, pres, pstate, pconfig, pthresholds, ctxDone, faults>>

-----------------------------------------------------------------------------
(* A database access succeeds, or it fails: because its context is done, or *)
(* for another reason.                                                      *)
QueryOK == ~ctxDone /\ UNCHANGED faults

QueryFails ==
    \/ ctxDone /\ UNCHANGED faults
    \/ ~ctxDone /\ faults < MaxFaults /\ faults' = faults + 1

(* run and scheduleChecks. *)
LoopTo(l, cs, bs) == lpc' = l /\ lconfigs' = cs /\ lbatch' = bs

loopUnchanged == UNCHANGED <<tables, sRunning, sClosed, sStarts, panicked, stop, ppc, pres,
                             pstate, pconfig, pthresholds, ctxDone>>

(* The next config, or the end of scheduleChecks. *)
NextBatch(cs) == LoopTo(IF cs = {} THEN "select" ELSE "check", cs, {})

ListConfigs ==
    /\ lpc = "list"
    /\ \/ QueryOK /\ NextBatch(Configs)
       \/ QueryFails /\ NextBatch({})
    /\ UNCHANGED engineVars /\ loopUnchanged

(* The configs are visited in the order of the list: any, but fixed.        *)
Current(cs) == CHOOSE c \in cs : TRUE

(* GetHealthCheck of the current config: without one it is skipped. *)
ReadCheck ==
    /\ lpc = "check"
    /\ LET c == Current(lconfigs)
       IN  \/ QueryOK /\ c \in DOMAIN checks /\ LoopTo("read", lconfigs, {})
           \/ QueryOK /\ c \notin DOMAIN checks /\ NextBatch(lconfigs \ {c})
           \/ QueryFails /\ NextBatch(lconfigs \ {c})
    /\ UNCHANGED engineVars /\ loopUnchanged

(* ListBackends, and the enabled ones among them. *)
ReadBatch ==
    /\ lpc = "read"
    /\ LET c == Current(lconfigs)
           bs == {b \in enabled : configOf[b] = c}
       IN  \/ QueryOK /\ bs # {} /\ LoopTo("submit", lconfigs \ {c}, bs)
           \/ QueryOK /\ bs = {} /\ NextBatch(lconfigs \ {c})
           \/ QueryFails /\ NextBatch(lconfigs \ {c})
    /\ UNCHANGED engineVars /\ loopUnchanged

(* engine.Submit of one backend: it blocks until a worker takes it or the   *)
(* engine shuts down.  An error is logged.                                  *)
SubmitOne ==
    /\ lpc = "submit"
    /\ \E b \in lbatch :
          /\ Submit(Loop, b)
          /\ LoopTo("submitting", lconfigs, lbatch \ {b})
    /\ UNCHANGED faults /\ loopUnchanged

SubmitReturned ==
    /\ lpc = "submitting"
    /\ spc[Loop] = "idle"
    /\ IF lbatch = {} THEN NextBatch(lconfigs) ELSE LoopTo("submit", lconfigs, lbatch)
    /\ UNCHANGED <<engineVars, faults>> /\ loopUnchanged

(* select of run: the ticker, or a stop.  After a long scheduleChecks the   *)
(* ticker may be ready as well as the stop, and either may win.             *)
mustStop == sClosed \/ ctxDone

LoopTick ==
    /\ lpc = "select"
    /\ LoopTo("list", {}, {})
    /\ UNCHANGED <<engineVars, faults>> /\ loopUnchanged

LoopStop ==
    /\ lpc = "select"
    /\ mustStop
    /\ LoopTo("gone", {}, {})
    /\ UNCHANGED <<engineVars, faults>> /\ loopUnchanged

LoopStep == ListConfigs \/ ReadCheck \/ ReadBatch \/ SubmitOne \/ SubmitReturned
            \/ LoopTick \/ LoopStop

-----------------------------------------------------------------------------
(* processResults and handleResult. *)
procUnchanged == UNCHANGED <<sRunning, sClosed, sStarts, panicked, stop, lpc, lconfigs, lbatch,
                             ctxDone>>

ProcReceive ==
    /\ ppc = "select"
    /\ Receive
    /\ pres' = Head(resultChan)
    /\ ppc' = "state"
    /\ UNCHANGED <<tables, pstate, pconfig, pthresholds, faults>> /\ procUnchanged

ProcStop ==
    /\ ppc = "select"
    /\ mustStop
    /\ ppc' = "gone"
    /\ UNCHANGED <<engineVars, tables, pres, pstate, pconfig, pthresholds, faults>> /\ procUnchanged

inc(n) == IF n < MaxCount THEN n + 1 ELSE n

(* Mutant: the other counter is not reset. *)
countOnly(state, out) ==
    IF out = "healthy" THEN [state EXCEPT !.succ = inc(@)] ELSE [state EXCEPT !.fail = inc(@)]

(* The counters after a result: an error and an unhealthy answer count      *)
(* alike.                                                                   *)
countResult(state, out) ==
    IF out = "healthy" THEN [state EXCEPT !.succ = inc(@), !.fail = 0]
                       ELSE [state EXCEPT !.fail = inc(@), !.succ = 0]

(* The row of a backend; no row is an error. *)
GetHealthState(b) == IF b \in DOMAIN health THEN health[b] ELSE NewState

(* Any error counts as "no existing state". *)
ReadState ==
    /\ ppc = "state"
    /\ \/ /\ QueryOK
          /\ pstate' = countResult(GetHealthState(pres.req), pres.out)
       \/ /\ QueryFails
          /\ pstate' = countResult(NewState, pres.out)
    /\ ppc' = "backend"
    /\ UNCHANGED <<engineVars, tables, pres, pconfig, pthresholds>> /\ procUnchanged

(* GetBackend: its config; the default thresholds if that fails. *)
ReadBackend ==
    /\ ppc = "backend"
    /\ LET b == pres.req
       IN  \/ QueryOK /\ b \in live /\ pconfig' = configOf[b] /\ ppc' = "thresholds"
           \/ QueryOK /\ b \notin live /\ UNCHANGED pconfig /\ ppc' = "write"
           \/ QueryFails /\ UNCHANGED pconfig /\ ppc' = "write"
    /\ UNCHANGED <<engineVars, tables, pres, pstate, pthresholds>> /\ procUnchanged

(* GetHealthCheck: its thresholds; the default ones if there is none. *)
thresholdsOf(c) == IF c \in DOMAIN checks THEN checks[c] ELSE DefaultThresholds

ReadThresholds ==
    /\ ppc = "thresholds"
    /\ \/ QueryOK /\ pthresholds' = thresholdsOf(pconfig)
       \/ QueryFails /\ pthresholds' = DefaultThresholds
    /\ ppc' = "write"
    /\ UNCHANGED <<engineVars, tables, pres, pstate, pconfig>> /\ procUnchanged

(* Mutants: a threshold is off by one. *)
lateUnhealthy(state, th) ==
    CASE state.succ >= th.healthy -> "healthy"
      [] state.succ < th.healthy /\ state.fail > th.unhealthy -> "unhealthy"
      [] OTHER -> "unknown"
lateHealthy(state, th) ==
    CASE state.succ > th.healthy -> "healthy"
      [] state.succ <= th.healthy /\ state.fail >= th.unhealthy -> "unhealthy"
      [] OTHER -> "unknown"

determineHealthStatus(state, th) ==
    CASE state.succ >= th.healthy -> "healthy"
      [] state.succ < th.healthy /\ state.fail >= th.unhealthy -> "unhealthy"
      [] OTHER -> "unknown"

(* Mutant: health_states has no foreign key. *)
anyBackend(b) == TRUE

backendExists(b) == b \in live

(* UpdateHealthState; the foreign key refuses it when the backend is gone.  *)
(* An error is logged.                                                      *)
WriteState ==
    /\ ppc = "write"
    /\ LET b == pres.req
           row == [pstate EXCEPT !.status = determineHealthStatus(pstate, pthresholds)]
       IN  \/ /\ QueryOK
              /\ health' = IF backendExists(b)
                           THEN [x \in DOMAIN health \cup {b} |-> IF x = b THEN row ELSE health[x]]
                           ELSE health
           \/ QueryFails /\ UNCHANGED health
    /\ ppc' = "select"
    /\ pres' = NoResult /\ pstate' = NewState
    /\ pconfig' = AnyConfig /\ pthresholds' = DefaultThresholds
    /\ UNCHANGED <<engineVars, created, live, enabled, configOf, up, checks>> /\ procUnchanged

ProcStep == ProcReceive \/ ProcStop \/ ReadState \/ ReadBackend \/ ReadThresholds \/ WriteState

-----------------------------------------------------------------------------
(* Handlers and the world outside. *)
AddBackend(b) ==
    /\ b \notin created
    /\ created' = created \cup {b}
    /\ live' = live \cup {b}
    /\ enabled' \in {enabled, enabled \cup {b}}
    /\ b \in enabled' \/ "edit" \in EnvActs     \* bound: else it would stay disabled
    /\ \E c \in Configs : configOf' = [configOf EXCEPT ![b] = c]
    /\ UNCHANGED <<up, checks, health>>

(* The health state stays, also when the backend moves to another config. *)
UpdateBackend(b) ==
    /\ b \in live
    /\ enabled' \in {enabled \cup {b}, enabled \ {b}}
    /\ \E c \in Configs : configOf' = [configOf EXCEPT ![b] = c]
    /\ UNCHANGED <<created, live, up, checks, health>>

(* The health state goes with its backend. *)
DeleteBackend(b) ==
    /\ b \in live
    /\ live' = live \ {b}
    /\ enabled' = enabled \ {b}
    /\ configOf' = [configOf EXCEPT ![b] = AnyConfig]
    /\ health' = Restrict(health, DOMAIN health \ {b})
    /\ UNCHANGED <<created, up, checks>>

(* The row of a config is created, or replaced. *)
PutHealthCheck(c, th) ==
    checks' = [d \in DOMAIN checks \cup {c} |-> IF d = c THEN th ELSE checks[d]]

ConfigureHealthCheck(c) ==
    /\ \E h, u \in Thresholds : PutHealthCheck(c, [healthy |-> h, unhealthy |-> u])
    /\ UNCHANGED <<created, live, enabled, configOf, up, health>>

(* The health states stay. *)
DeleteHealthCheck(c) ==
    /\ c \in DOMAIN checks
    /\ checks' = Restrict(checks, DOMAIN checks \ {c})
    /\ UNCHANGED <<created, live, enabled, configOf, up, health>>

Reachability(b) ==
    /\ up' = IF b \in up THEN up \ {b} ELSE up \cup {b}
    /\ UNCHANGED <<created, live, enabled, configOf, checks, health>>

Environment ==
    /\ ~ended
    /\ \/ "add" \in EnvActs /\ \E b \in Backends : AddBackend(b)
       \/ "delete" \in EnvActs /\ \E b \in Backends : DeleteBackend(b)
       \/ "edit" \in EnvActs /\ \E b \in Backends : UpdateBackend(b)
       \/ "checks" \in EnvActs /\ \E c \in Configs : ConfigureHealthCheck(c)
       \/ "uncheck" \in EnvActs /\ \E c \in Configs : DeleteHealthCheck(c)
       \/ "reach" \in EnvActs /\ \E b \in Changing : Reachability(b)
    /\ UNCHANGED <<engineVars, schedVars>>

(* The caller of Start gives up. *)
CancelContext ==
    /\ "cancel" \in EnvActs
    /\ ~ctxDone /\ ~ended
    /\ ctxDone' = TRUE
    /\ UNCHANGED <<engineVars, tables, sRunning, sClosed, sStarts, panicked, stop, lpc, lconfigs,
                   lbatch, ppc, pres, pstate, pconfig, pthresholds, faults>>

(* A check finds its target up or not; a check that the engine's context    *)
(* cancels fails.                                                           *)
CheckTarget(w) ==
    /\ Check(w)
    /\ wreq[w] \notin up => wout'[w] # "healthy"
    /\ wreq[w] \in up /\ ~cancelled => wout'[w] = "healthy"

WorkerRuns(w) == WorkerExit(w) \/ CheckTarget(w) \/ Send(w) \/ Discard(w)

EngineRuns == \/ SubmitStep(Loop)
              \/ \E w \in Workers : WorkerRuns(w)

EngineLife == Start \/ \E t \in Stoppers : Stop(t) \/ Wait(t)

Next ==
    \/ SchedStart \/ StartResultProcessor \/ SchedStop \/ SchedWait
    \/ ~ended /\ LoopStep
    \/ ~ended /\ ProcStep
    \/ ~ended /\ (EngineRuns \/ EngineLife) /\ UNCHANGED <<tables, schedVars>>
    \/ Environment
    \/ CancelContext

Spec == Init /\ [][Next]_vars

(* The goroutines run, a check ends by its deadline and the ticker fires.   *)
(* A select chooses at random among the cases that are ready, so a stop is  *)
(* not passed over for ever.                                                *)
Fairness ==
    /\ SF_vars(~ended /\ LoopStop)
    /\ SF_vars(~ended /\ ProcStop)
    /\ WF_vars(~ended /\ LoopStep)
    /\ WF_vars(~ended /\ ProcStep)
    /\ WF_vars(SchedWait)
    /\ WF_vars(~ended /\ SubmitStep(Loop) /\ UNCHANGED <<tables, schedVars>>)
    /\ \A w \in Workers :
          WF_vars(~ended /\ WorkerRuns(w) /\ UNCHANGED <<tables, schedVars>>)

LiveSpec == Spec /\ Fairness

-----------------------------------------------------------------------------
(***************************************************************************)
(* NoOrphanState.  A result that is still on its way when its backend is   *)
(* deleted does not bring back a health state (handleResult between its    *)
(* reads and its write; the foreign key of health_states).                 *)
(***************************************************************************)
NoOrphanState == DOMAIN health \subseteq live

(***************************************************************************)
(* StoppedSchedulerIsQuiet.  When Scheduler.Stop has returned and it was   *)
(* not started again, neither loop nor processor is left to submit a check *)
(* or to write a health state.                                             *)
(***************************************************************************)
StoppedSchedulerIsQuiet ==
    stop = "returned" /\ sStarts > 0 => {lpc, ppc} \subseteq {"none", "gone"}

(***************************************************************************)
(* SchedulerStopReturns.  Scheduler.Stop returns although the loop does    *)
(* not watch stopCh while it submits a batch and nobody reads results any  *)
(* more: the workers give up results that they cannot deliver.  (The Stop  *)
(* of a scheduler that was started again panics: it closes stopCh twice.)  *)
(***************************************************************************)
SchedulerStopReturns == stop = "waiting" ~> (stop # "waiting" \/ ended)

(***************************************************************************)
(* DetectsRecovery, DetectsFailure.  While scheduler, processor and engine *)
(* run, a backend that is enabled, has a health check and is up (down)     *)
(* from some time on is stored as healthy (unhealthy) from some time on.   *)
(* The results of all backends compete for the result channel, and a       *)
(* worker gives up one that finds it full (engine.go: "discard result to   *)
(* avoid blocking"), always that of the same backend perhaps.  So this is  *)
(* said of a backend whose results are not discarded each and every time.  *)
(***************************************************************************)
Monitored(b) ==
    /\ b \in enabled
    /\ configOf[b] \in DOMAIN checks
    /\ sRunning /\ ~sClosed /\ ~ctxDone /\ ppc # "none"
    /\ running /\ ~cancelled

Stored(b, s) == b \in DOMAIN health /\ health[b].status = s

Given(b) == \E w \in Workers : wreq[w] = b /\ Send(w)
GivenUp(b) == \E w \in Workers : wreq[w] = b /\ Discard(w)

GetsThrough(b) == []<><<GivenUp(b)>>_vars => []<><<Given(b)>>_vars

DetectsRecovery ==
    \A b \in Backends :
        <>[](Monitored(b) /\ b \in up) /\ GetsThrough(b) => <>[]Stored(b, "healthy")

DetectsFailure ==
    \A b \in Backends :
        <>[](Monitored(b) /\ b \notin up) /\ GetsThrough(b) => <>[]Stored(b, "unhealthy")

(***************************************************************************)
(* HealthyUntilThreshold.  state.go: "Healthy + threshold_unhealthy        *)
(* consecutive failures -> Unhealthy", a "hysteresis pattern" that         *)
(* "prevents flapping"; README: threshold_unhealthy is the number of       *)
(* consecutive failures to mark a backend unhealthy.  A stored status of   *)
(* healthy is not given up before that number of failures.                 *)
(***************************************************************************)
HealthyUntilThreshold ==
    [][\A b \in DOMAIN health \cap DOMAIN health' :
         health[b].status = "healthy" /\ health'[b].status # "healthy" =>
             health'[b].fail >= pthresholds.unhealthy]_vars
=============================================================================

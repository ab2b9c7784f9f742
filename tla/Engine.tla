------------------------------- MODULE Engine -------------------------------
(***************************************************************************)
(* The health check engine (internal/health/engine.go, type Engine): a     *)
(* pool of workers that take requests from an unbuffered channel, perform  *)
(* the check and put the result in a bounded channel, giving it up when    *)
(* the channel stays full or the engine shuts down.                        *)
(*                                                                         *)
(* Goroutines of three kinds call it: Submitters (Submit), Stoppers (Stop) *)
(* and one consumer that reads Results().  Start is called at most         *)
(* MaxStarts times; every call creates a worker per id, so a worker is a   *)
(* pair of the number of the Start and an id.                              *)
(*                                                                         *)
(* A Go select takes any case that is ready, and one that is ready at once *)
(* before it waits.                                                        *)
(***************************************************************************)
EXTENDS Integers, Sequences, FiniteSets

CONSTANTS
    WorkerIds,      \* one per worker: workerCount of them
    Capacity,       \* capacity of resultChan
    Submitters,     \* goroutines that call Submit
    Stoppers,       \* goroutines that call Stop
    Requests,       \* check requests
    NoRequest,      \* not a request
    Outcomes,       \* what a check may return
    MaxStarts,      \* bound: calls of Start that start workers
    Recording       \* whether the fates of requests are recorded, for the properties

Workers == (1 .. MaxStarts) \X WorkerIds

ASSUME EngineAssumption ==
    /\ Capacity \in Nat \ {0}
    /\ MaxStarts \in Nat
    /\ NoRequest \notin Requests
    /\ Recording \in BOOLEAN

VARIABLES
    running,        \* Engine.running
    cancelled,      \* the context of the engine is done; it is created once, by NewEngine
    starts,         \* calls of Start that started workers
    wpc,            \* where each worker is
    wreq,           \* the request that each worker is busy with
    wout,           \* the outcome of its check
    resultChan,     \* the buffer of the result channel
    spc,            \* where each submitter is
    sreq,           \* the request it submits
    tpc,            \* where each stopper is
    accepted,       \* history: requests that Submit handed to a worker
    consumed,       \* history: requests whose result was read
    dropped         \* history: requests whose result was discarded

engineVars == <<running, cancelled, starts, wpc, wreq, wout, resultChan, spc, sreq,
                tpc, accepted, consumed, dropped>>

Result == [req : Requests, out : Outcomes]
NoOutcome == "none"

(* "none": not created yet; "gone": returned, wg.Done() called. *)
WorkerPCs == {"none", "select", "checking", "sending", "gone"}
Alive(w) == wpc[w] \in {"select", "checking", "sending"}
Busy(w) == wpc[w] \in {"checking", "sending"}

(* The type of the engine's state; the result channel keeps to its capacity. *)
EngineTypeOK ==
    /\ running \in BOOLEAN
    /\ cancelled \in BOOLEAN
    /\ starts \in 0 .. MaxStarts
    /\ wpc \in [Workers -> WorkerPCs]
    /\ wreq \in [Workers -> Requests \cup {NoRequest}]
    /\ wout \in [Workers -> Outcomes \cup {NoOutcome}]
    /\ resultChan \in Seq(Result)
    /\ Len(resultChan) <= Capacity
    /\ spc \in [Submitters -> {"idle", "submit", "select"}]
    /\ sreq \in [Submitters -> Requests \cup {NoRequest}]
    /\ tpc \in [Stoppers -> {"idle", "waiting", "returned", "panicked"}]
    /\ accepted \subseteq Requests
    /\ consumed \subseteq Requests
    /\ dropped \subseteq Requests

(* NewEngine. *)
EngineInit ==
    /\ running = FALSE
    /\ cancelled = FALSE
    /\ starts = 0
    /\ wpc = [w \in Workers |-> "none"]
    /\ wreq = [w \in Workers |-> NoRequest]
    /\ wout = [w \in Workers |-> NoOutcome]
    /\ resultChan = <<>>
    /\ spc = [s \in Submitters |-> "idle"]
    /\ sreq = [s \in Submitters |-> NoRequest]
    /\ tpc = [t \in Stoppers |-> "idle"]
    /\ accepted = {}
    /\ consumed = {}
    /\ dropped = {}

(* A set of the history with the request r, if there is to be one.          *)
Noted(history, r) == IF Recording THEN history \cup {r} ELSE history

-----------------------------------------------------------------------------
(* The last worker is gone and the wg.Wait of a Stop has not returned yet:  *)
(* an Add in this moment reuses the WaitGroup, and one of the two may panic *)
(* ("WaitGroup is reused before previous Wait has returned").               *)
AboutToReturn == {t \in Stoppers : tpc[t] = "waiting" /\ \A w \in Workers : ~Alive(w)}

(* Such a panic ends the process. *)
WaitPanicked == \E t \in Stoppers : tpc[t] = "panicked"

(* Start, under the mutex.  A running engine is left alone.  (tpc: a Stop   *)
(* that returned before concerns an earlier life of the engine.)            *)
Start ==
    /\ ~running
    /\ starts < MaxStarts
    /\ running' = TRUE
    /\ starts' = starts + 1
    /\ wpc' = [w \in Workers |-> IF w[1] = starts + 1 THEN "select" ELSE wpc[w]]
    /\ \E panics \in SUBSET AboutToReturn :
          tpc' = [t \in Stoppers |-> CASE t \in panics -> "panicked"
                                       [] tpc[t] = "returned" -> "idle"
                                       [] OTHER -> tpc[t]]
    /\ UNCHANGED <<cancelled, wreq, wout, resultChan, spc, sreq, accepted, consumed, dropped>>

(* Stop, first part, under the mutex: nothing to do if the engine is not    *)
(* running, else the context is cancelled.                                  *)
Stop(t) ==
    /\ tpc[t] = "idle"
    /\ IF running
       THEN running' = FALSE /\ cancelled' = TRUE /\ tpc' = [tpc EXCEPT ![t] = "waiting"]
       ELSE tpc' = [tpc EXCEPT ![t] = "returned"] /\ UNCHANGED <<running, cancelled>>
    /\ UNCHANGED <<starts, wpc, wreq, wout, resultChan, spc, sreq, accepted, consumed, dropped>>

(* Mutant: Stop does not wait. *)
WaitNot(t) ==
    /\ tpc[t] = "waiting"
    /\ tpc' = [tpc EXCEPT ![t] = "returned"]
    /\ UNCHANGED <<running, cancelled, starts, wpc, wreq, wout, resultChan, spc, sreq,
                   accepted, consumed, dropped>>

(* Stop, second part: wg.Wait(). *)
Wait(t) ==
    /\ tpc[t] = "waiting"
    /\ \A w \in Workers : ~Alive(w)
    /\ tpc' = [tpc EXCEPT ![t] = "returned"]
    /\ UNCHANGED <<running, cancelled, starts, wpc, wreq, wout, resultChan, spc, sreq,
                   accepted, consumed, dropped>>

-----------------------------------------------------------------------------
(* Submit is called with the request r. *)
Submit(s, r) ==
    /\ spc[s] = "idle"
    /\ spc' = [spc EXCEPT ![s] = "submit"]
    /\ sreq' = [sreq EXCEPT ![s] = r]
    /\ UNCHANGED <<running, cancelled, starts, wpc, wreq, wout, resultChan, tpc,
                   accepted, consumed, dropped>>

SubmitDone(s) ==
    /\ spc' = [spc EXCEPT ![s] = "idle"]
    /\ sreq' = [sreq EXCEPT ![s] = NoRequest]

(* It reads running under the read lock: "engine is not running". *)
SubmitCheck(s) ==
    /\ spc[s] = "submit"
    /\ IF running THEN spc' = [spc EXCEPT ![s] = "select"] /\ UNCHANGED sreq
                  ELSE SubmitDone(s)
    /\ UNCHANGED <<running, cancelled, starts, wpc, wreq, wout, resultChan, tpc,
                   accepted, consumed, dropped>>

(* Mutant: a submitter does not watch the context. *)
SubmitCancelledNever(s) ==
    /\ spc[s] = "none"
    /\ UNCHANGED engineVars

(* ... select: "engine is shutting down". *)
SubmitCancelled(s) ==
    /\ spc[s] = "select"
    /\ cancelled
    /\ SubmitDone(s)
    /\ UNCHANGED <<running, cancelled, starts, wpc, wreq, wout, resultChan, tpc,
                   accepted, consumed, dropped>>

(* ... or the unbuffered send: it meets a worker that receives. *)
Handover(s, w) ==
    /\ spc[s] = "select"
    /\ wpc[w] = "select"
    /\ SubmitDone(s)
    /\ wpc' = [wpc EXCEPT ![w] = "checking"]
    /\ wreq' = [wreq EXCEPT ![w] = sreq[s]]
    /\ accepted' = Noted(accepted, sreq[s])
    /\ UNCHANGED <<running, cancelled, starts, wout, resultChan, tpc, consumed, dropped>>

-----------------------------------------------------------------------------
(* Mutant: a worker does not watch the context. *)
WorkerExitNever(w) ==
    /\ wpc[w] = "none"
    /\ cancelled
    /\ UNCHANGED engineVars

(* A worker returns when it finds the context done. *)
WorkerExit(w) ==
    /\ wpc[w] = "select"
    /\ cancelled
    /\ wpc' = [wpc EXCEPT ![w] = "gone"]
    /\ UNCHANGED <<running, cancelled, starts, wreq, wout, resultChan, spc, sreq, tpc,
                   accepted, consumed, dropped>>

(* executeCheck: the check returns; its context has a deadline and is done  *)
(* when the engine's is.                                                    *)
Check(w) ==
    /\ wpc[w] = "checking"
    /\ \E o \in Outcomes : wout' = [wout EXCEPT ![w] = o]
    /\ wpc' = [wpc EXCEPT ![w] = "sending"]
    /\ UNCHANGED <<running, cancelled, starts, wreq, resultChan, spc, sreq, tpc,
                   accepted, consumed, dropped>>

CheckDone(w) ==
    /\ wpc' = [wpc EXCEPT ![w] = "select"]
    /\ wreq' = [wreq EXCEPT ![w] = NoRequest]
    /\ wout' = [wout EXCEPT ![w] = NoOutcome]

(* Mutant: the capacity is off by one. *)
roomForOneMore == Len(resultChan) <= Capacity

hasRoom == Len(resultChan) < Capacity

(* Mutant: a result that was delivered is delivered again. *)
SendAgain(w) ==
    /\ wpc[w] = "sending"
    /\ hasRoom
    /\ resultChan' = Append(resultChan, [req |-> wreq[w], out |-> wout[w]])
    /\ UNCHANGED <<running, cancelled, starts, wpc, wreq, wout, spc, sreq, tpc, accepted,
                   consumed, dropped>>

Send(w) ==
    /\ wpc[w] = "sending"
    /\ hasRoom
    /\ resultChan' = Append(resultChan, [req |-> wreq[w], out |-> wout[w]])
    /\ CheckDone(w)
    /\ UNCHANGED <<running, cancelled, starts, spc, sreq, tpc, accepted, consumed, dropped>>

(* Mutant: a worker waits for room as long as the engine runs. *)
DiscardOnCancel(w) ==
    /\ wpc[w] = "sending"
    /\ cancelled
    /\ dropped' = Noted(dropped, wreq[w])
    /\ CheckDone(w)
    /\ UNCHANGED <<running, cancelled, starts, resultChan, spc, sreq, tpc, accepted, consumed>>

(* Mutant: any worker gives up after the timeout, even with room left. *)
DiscardEarly(w) ==
    /\ wpc[w] = "sending"
    /\ dropped' = Noted(dropped, wreq[w])
    /\ CheckDone(w)
    /\ UNCHANGED <<running, cancelled, starts, resultChan, spc, sreq, tpc, accepted, consumed>>

(* "Engine is shutting down, discard result", or 100 ms have passed and     *)
(* "Result channel full, discard result to avoid blocking".                 *)
Discard(w) ==
    /\ wpc[w] = "sending"
    /\ cancelled \/ ~hasRoom
    /\ dropped' = Noted(dropped, wreq[w])
    /\ CheckDone(w)
    /\ UNCHANGED <<running, cancelled, starts, resultChan, spc, sreq, tpc, accepted, consumed>>

(* The consumer reads a result. *)
Receive ==
    /\ resultChan # <<>>
    /\ resultChan' = Tail(resultChan)
    /\ consumed' = Noted(consumed, Head(resultChan).req)
    /\ UNCHANGED <<running, cancelled, starts, wpc, wreq, wout, spc, sreq, tpc,
                   accepted, dropped>>

WorkerStep(w) == WorkerExit(w) \/ Check(w) \/ Send(w) \/ Discard(w)

SubmitStep(s) == SubmitCheck(s) \/ SubmitCancelled(s) \/ (\E w \in Workers : Handover(s, w))

-----------------------------------------------------------------------------
(* The engine on its own: every request is submitted once, so that its      *)
(* result can be told from the others.                                      *)
Fresh(r) ==
    /\ r \notin accepted
    /\ \A s \in Submitters : sreq[s] # r

EngineNext ==
    /\ ~WaitPanicked
    /\ \/ Start
       \/ \E t \in Stoppers : Stop(t) \/ Wait(t)
       \/ \E s \in Submitters : (\E r \in Requests : Fresh(r) /\ Submit(s, r)) \/ SubmitStep(s)
       \/ \E w \in Workers : WorkerStep(w)
       \/ Receive

EngineSpec == EngineInit /\ [][EngineNext]_engineVars

(* Goroutines that can go on do, and a check ends by its deadline.  Nobody  *)
(* has to call Start, Submit or Stop, nor to read results.                  *)
EngineFairness ==
    /\ \A t \in Stoppers : WF_engineVars(~WaitPanicked /\ Wait(t))
    /\ \A s \in Submitters : WF_engineVars(~WaitPanicked /\ SubmitStep(s))
    /\ \A w \in Workers : WF_engineVars(~WaitPanicked /\ WorkerStep(w))

EngineLiveSpec == EngineSpec /\ EngineFairness

-----------------------------------------------------------------------------
(***************************************************************************)
(* StopWaits.  Stop "waits for all ongoing checks to complete before       *)
(* returning" (engine.go): when a Stop has returned and the engine was not *)
(* started again, no worker is left.                                       *)
(***************************************************************************)
StopWaits == (\E t \in Stoppers : tpc[t] = "returned") => \A w \in Workers : ~Alive(w)

Queued == {resultChan[i].req : i \in 1 .. Len(resultChan)}
Held == {wreq[w] : w \in {v \in Workers : Busy(v)}}

(***************************************************************************)
(* OneFate.  A request that Submit accepted is in exactly one place: with  *)
(* one worker, in the result channel once, read, or discarded.  No result  *)
(* is duplicated and none disappears otherwise, also across a Stop and     *)
(* another Start.                                                          *)
(***************************************************************************)
OneFate ==
    /\ accepted = Held \cup Queued \cup consumed \cup dropped
    /\ Held \cap (Queued \cup consumed \cup dropped) = {}
    /\ Queued \cap (consumed \cup dropped) = {}
    /\ consumed \cap dropped = {}
    /\ \A v, w \in Workers : Busy(v) /\ Busy(w) /\ wreq[v] = wreq[w] => v = w
    /\ \A i, j \in 1 .. Len(resultChan) : resultChan[i].req = resultChan[j].req => i = j

(***************************************************************************)
(* DropsNeedBacklog.  While the engine is not shut down a result is only   *)
(* discarded when more requests than the result channel holds were         *)
(* accepted: a burst that fits loses nothing.                              *)
(***************************************************************************)
DropsNeedBacklog == dropped # {} => cancelled \/ Cardinality(accepted) > Capacity

(***************************************************************************)
(* StopReturns.  A Stop returns, whatever the workers are busy with, also  *)
(* when the result channel is full and nobody reads it, and when Start is  *)
(* called meanwhile, unless that is between the end of the last worker and *)
(* the return of wg.Wait and the process panics.                           *)
(***************************************************************************)
StopReturns ==
    \A t \in Stoppers : tpc[t] = "waiting" ~> (tpc[t] \in {"returned", "idle"} \/ WaitPanicked)

(***************************************************************************)
(* SubmitReturns.  A Submit that found the engine running comes back: a    *)
(* worker takes the request or the engine shuts down (or the process       *)
(* panics, as above), also when nobody reads the results.                  *)
(***************************************************************************)
SubmitReturns == \A s \in Submitters : spc[s] = "select" ~> (spc[s] = "idle" \/ WaitPanicked)

-----------------------------------------------------------------------------
P == INSTANCE Pool WITH
        Jobs <- Requests,
        Room <- Capacity,
        work <- Held,
        ready <- [i \in 1 .. Len(resultChan) |-> resultChan[i].req],
        read <- consumed,
        missed <- dropped,
        shut <- cancelled

(***************************************************************************)
(* ImplementsPool.  The engine, with its workers, its select statements    *)
(* and its lives, is the pool of the module Pool: a result is read in the  *)
(* order in which it entered the channel, at most once, and a request is   *)
(* given up only at a full channel or after a Stop, which no later Start   *)
(* takes back (engine.go: the context is made once, by NewEngine).         *)
(***************************************************************************)
ImplementsPool == P!Spec
=============================================================================

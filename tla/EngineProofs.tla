---------------------------- MODULE EngineProofs ----------------------------
(***************************************************************************)
(* Theorems about Engine, for any number of workers, submitters, stoppers, *)
(* requests and starts and any capacity: its type invariant, OneFate and   *)
(* DropsNeedBacklog; StopWaits when no two Stops overlap; and that it      *)
(* implements Pool.  What speaks of the fates of requests holds of an      *)
(* engine whose history is recorded (Recording).                           *)
(***************************************************************************)
EXTENDS Engine, SequenceTheorems, FiniteSetTheorems, TLAPS

(* What a worker or a submitter holds, and who has not been created yet. *)
Locals ==
    /\ \A w \in Workers : Busy(w) => wreq[w] \in Requests
    /\ \A w \in Workers : wpc[w] = "sending" => wout[w] \in Outcomes
    /\ \A s \in Submitters : spc[s] # "idle" => sreq[s] \in Requests
    /\ \A w \in Workers : w[1] > starts => wpc[w] = "none"

TypeInv == EngineTypeOK /\ Locals

(* A new engine satisfies the invariant. *)
LEMMA TypeInvInit == EngineInit => TypeInv
<1> SUFFICES ASSUME EngineInit PROVE TypeInv
  OBVIOUS
<1>1. resultChan \in Seq(Result) /\ Len(resultChan) <= Capacity
  BY EngineAssumption DEF EngineInit, EngineAssumption
<1>2. EngineTypeOK
  <2>1. running \in BOOLEAN /\ cancelled \in BOOLEAN
    BY DEF EngineInit
  <2>2. starts \in 0 .. MaxStarts
    BY EngineAssumption DEF EngineInit, EngineAssumption
  <2>3. /\ wpc \in [Workers -> WorkerPCs]
        /\ wreq \in [Workers -> Requests \cup {NoRequest}]
        /\ wout \in [Workers -> Outcomes \cup {NoOutcome}]
    BY DEF EngineInit, WorkerPCs
  <2>4. /\ spc \in [Submitters -> {"idle", "submit", "select"}]
        /\ sreq \in [Submitters -> Requests \cup {NoRequest}]
        /\ tpc \in [Stoppers -> {"idle", "waiting", "returned", "panicked"}]
    BY DEF EngineInit
  <2>5. QED
    BY <1>1, <2>1, <2>2, <2>3, <2>4 DEF EngineInit, EngineTypeOK
<1>3. Locals
  BY DEF EngineInit, Locals, Busy
<1>4. QED
  BY <1>2, <1>3 DEF TypeInv

(* A step of the engine, whatever is submitted: also a request that was     *)
(* submitted before, as the scheduler does.                                 *)
EngineMove ==
    \/ Start
    \/ \E t \in Stoppers : Stop(t) \/ Wait(t)
    \/ \E s \in Submitters : (\E r \in Requests : Submit(s, r)) \/ SubmitStep(s)
    \/ \E w \in Workers : WorkerStep(w)
    \/ Receive

(* Every step keeps the type, and what the goroutines hold. *)
LEMMA TypeInvMove == TypeInv /\ [EngineMove]_engineVars => TypeInv'
<1> SUFFICES ASSUME TypeInv, [EngineMove]_engineVars
             PROVE  TypeInv'
  OBVIOUS
<1> USE EngineAssumption DEF EngineAssumption, TypeInv, EngineTypeOK, Locals, Busy, WorkerPCs
<1>1. CASE Start
  <2>1. tpc' \in [Stoppers -> {"idle", "waiting", "returned", "panicked"}]
    BY <1>1 DEF Start
  <2>2. QED
    BY <1>1, <2>1 DEF Start, Workers
<1>2. ASSUME NEW t \in Stoppers, Stop(t) \/ Wait(t)
      PROVE  TypeInv'
  BY <1>2 DEF Stop, Wait
<1>3. ASSUME NEW s \in Submitters, NEW r \in Requests, Submit(s, r)
      PROVE  TypeInv'
  BY <1>3 DEF Submit
<1>4. ASSUME NEW s \in Submitters, SubmitCheck(s) \/ SubmitCancelled(s)
      PROVE  TypeInv'
  BY <1>4 DEF SubmitCheck, SubmitCancelled, SubmitDone
<1>5. ASSUME NEW s \in Submitters, NEW w \in Workers, Handover(s, w)
      PROVE  TypeInv'
  BY <1>5 DEF Handover, SubmitDone, Noted
<1>6. ASSUME NEW w \in Workers, WorkerExit(w) \/ Check(w) \/ Discard(w)
      PROVE  TypeInv'
  BY <1>6 DEF WorkerExit, Check, Discard, CheckDone, Noted
<1>7. ASSUME NEW w \in Workers, Send(w)
      PROVE  TypeInv'
  BY <1>7 DEF Send, CheckDone, hasRoom, Result
<1>8. CASE Receive
  <2>1. resultChan \in Seq(Result) /\ resultChan # <<>>
    BY <1>8 DEF Receive
  <2>2. /\ Tail(resultChan) \in Seq(Result)
        /\ Len(Tail(resultChan)) = Len(resultChan) - 1
        /\ Head(resultChan) \in Result
    BY <2>1, HeadTailProperties
  <2>3. Head(resultChan).req \in Requests /\ Len(Tail(resultChan)) <= Capacity
    BY <2>1, <2>2, EmptySeq DEF Result
  <2>4. QED
    BY <1>8, <2>2, <2>3 DEF Receive, Noted
<1>9. CASE UNCHANGED engineVars
  BY <1>9 DEF engineVars
<1>10. QED
  BY <1>1, <1>2, <1>3, <1>4, <1>5, <1>6, <1>7, <1>8, <1>9
     DEF EngineMove, SubmitStep, WorkerStep

(* ... in particular the steps of the engine on its own. *)
LEMMA TypeInvNext == TypeInv /\ [EngineNext]_engineVars => TypeInv'
BY TypeInvMove DEF EngineNext, EngineMove

(* EngineTypeOK always holds; the result channel never exceeds Capacity.    *)
THEOREM EngineTypeCorrect == EngineSpec => []EngineTypeOK
<1>1. EngineSpec => []TypeInv
  BY TypeInvInit, TypeInvNext, PTL DEF EngineSpec
<1>2. TypeInv => EngineTypeOK
  BY DEF TypeInv
<1>3. QED
  BY <1>1, <1>2, PTL

-----------------------------------------------------------------------------
(***************************************************************************)
(* StopWaits is not inductive: it says nothing of an engine that is being  *)
(* stopped.  Its workers are still alive, but then some Stop has not       *)
(* returned yet; a second Stop would find ~running and return at once,     *)
(* which is why the theorem needs that there is only one.                  *)
(***************************************************************************)
OneStopper == \A t, u \in Stoppers : t = u

StopInv ==
    /\ StopWaits
    /\ ~running => (\A w \in Workers : ~Alive(w)) \/ (\E t \in Stoppers : tpc[t] = "waiting")

(* A new engine satisfies the invariant. *)
LEMMA StopInvInit == EngineInit => StopInv
BY DEF EngineInit, StopInv, StopWaits, Alive

(* Every step keeps it: only Wait lets a Stop return, and only Start        *)
(* creates workers.                                                         *)
LEMMA StopInvMove ==
    ASSUME OneStopper, TypeInv, StopInv, [EngineMove]_engineVars
    PROVE  StopInv'
<1> USE DEF StopInv, StopWaits, Alive
<1>0. wpc \in [Workers -> WorkerPCs] /\ tpc \in [Stoppers -> {"idle", "waiting", "returned", "panicked"}]
  BY DEF TypeInv, EngineTypeOK
<1>1. CASE Start
  BY <1>0, <1>1 DEF Start
<1>2. ASSUME NEW t \in Stoppers, Stop(t)
      PROVE  StopInv'
  BY <1>0, <1>2 DEF Stop, OneStopper
<1>3. ASSUME NEW t \in Stoppers, Wait(t)
      PROVE  StopInv'
  BY <1>0, <1>3 DEF Wait
<1>4. ASSUME NEW s \in Submitters,
             (\E r \in Requests : Submit(s, r)) \/ SubmitCheck(s) \/ SubmitCancelled(s)
      PROVE  StopInv'
  BY <1>4 DEF Submit, SubmitCheck, SubmitCancelled
<1>5. ASSUME NEW s \in Submitters, NEW w \in Workers, Handover(s, w)
      PROVE  StopInv'
  BY <1>0, <1>5 DEF Handover
<1>6. ASSUME NEW w \in Workers, WorkerStep(w)
      PROVE  StopInv'
  BY <1>0, <1>6 DEF WorkerStep, WorkerExit, Check, Send, Discard, CheckDone
<1>7. CASE Receive \/ UNCHANGED engineVars
  BY <1>7 DEF Receive, engineVars
<1>8. QED
  BY <1>1, <1>2, <1>3, <1>4, <1>5, <1>6, <1>7 DEF EngineMove, SubmitStep

(* A Stop that returned has waited for every worker, unless two Stops       *)
(* overlap: the second finds running FALSE and returns at once.             *)
THEOREM StopWaitsForWorkers == OneStopper => (EngineSpec => []StopWaits)
<1> SUFFICES ASSUME OneStopper PROVE EngineSpec => []StopWaits
  OBVIOUS
<1>1. EngineInit => TypeInv /\ StopInv
  BY TypeInvInit, StopInvInit
<1>2. TypeInv /\ StopInv /\ [EngineNext]_engineVars => (TypeInv /\ StopInv)'
  BY TypeInvMove, StopInvMove DEF EngineNext, EngineMove
<1>3. TypeInv /\ StopInv => StopWaits
  BY DEF StopInv
<1>4. QED
  BY <1>1, <1>2, <1>3, PTL DEF EngineSpec

-----------------------------------------------------------------------------
(***************************************************************************)
(* OneFate rests on what a submitter does before it hands its request      *)
(* over: the request is in nobody else's hands and was not accepted yet.   *)
(***************************************************************************)
Pending ==
    /\ \A s \in Submitters : sreq[s] \notin accepted
    /\ \A s, u \in Submitters : sreq[s] = sreq[u] /\ sreq[s] # NoRequest => s = u

FateInv == OneFate /\ Pending

(* What the buffer holds after a send and after a receive. *)
LEMMA QueuedAppend ==
    ASSUME NEW q \in Seq(Result), NEW e \in Result
    PROVE  {Append(q, e)[i].req : i \in 1 .. Len(Append(q, e))}
             = {q[i].req : i \in 1 .. Len(q)} \cup {e.req}
<1>1. /\ Len(q) \in Nat
      /\ Len(Append(q, e)) = Len(q) + 1
      /\ \A i \in 1 .. Len(q) : Append(q, e)[i] = q[i]
      /\ Append(q, e)[Len(q) + 1] = e
  BY DEF Result
<1>2. 1 .. Len(Append(q, e)) = (1 .. Len(q)) \cup {Len(q) + 1}
  BY <1>1
<1>3. QED
  BY <1>1, <1>2

(* ... and after a receive, when no request is queued twice. *)
LEMMA QueuedTail ==
    ASSUME NEW q \in Seq(Result), q # <<>>
    PROVE  {q[i].req : i \in 1 .. Len(q)}
             = {Tail(q)[i].req : i \in 1 .. Len(Tail(q))} \cup {Head(q).req}
<1>1. /\ Len(q) \in Nat \ {0}
      /\ Len(Tail(q)) = Len(q) - 1
      /\ \A i \in 1 .. Len(Tail(q)) : Tail(q)[i] = q[i + 1]
      /\ Head(q) = q[1]
  BY HeadTailProperties, EmptySeq
<1>2. \A i \in 1 .. Len(q) : i = 1 \/ (i - 1 \in 1 .. Len(Tail(q)) /\ q[i] = Tail(q)[i - 1])
  BY <1>1
<1>3. \A i \in 1 .. Len(Tail(q)) : i + 1 \in 1 .. Len(q) /\ Tail(q)[i] = q[i + 1]
  BY <1>1
<1>4. 1 \in 1 .. Len(q)
  BY <1>1
<1> DEFINE old == {q[i].req : i \in 1 .. Len(q)}
           new == {Tail(q)[i].req : i \in 1 .. Len(Tail(q))}
<1>5. ASSUME NEW x \in old PROVE x \in new \cup {Head(q).req}
  <2>1. PICK i \in 1 .. Len(q) : x = q[i].req
    OBVIOUS
  <2>2. CASE i = 1
    BY <1>1, <2>1, <2>2
  <2>3. CASE i - 1 \in 1 .. Len(Tail(q)) /\ q[i] = Tail(q)[i - 1]
    BY <2>1, <2>3
  <2>4. QED
    BY <1>2, <2>2, <2>3
<1>6. new \subseteq old
  BY <1>3
<1>7. Head(q).req \in old
  BY <1>1, <1>4
<1>8. QED
  BY <1>5, <1>6, <1>7

(* A new engine has accepted nothing. *)
LEMMA FateInvInit == EngineInit => FateInv
<1> SUFFICES ASSUME EngineInit PROVE FateInv
  OBVIOUS
<1>1. Held = {} /\ Queued = {}
  BY DEF EngineInit, Held, Queued, Busy
<1>2. QED
  BY <1>1 DEF EngineInit, FateInv, OneFate, Pending, Busy

(* Steps that leave requests where they are. *)
LEMMA FateUnmoved ==
    ASSUME FateInv, Held' = Held, \A w \in Workers : Busy(w)' => Busy(w),
           UNCHANGED <<wreq, resultChan, accepted, consumed, dropped>>,
           Pending'
    PROVE  FateInv'
<1>1. Queued' = Queued
  BY DEF Queued
<1>2. QED
  BY <1>1 DEF FateInv, OneFate

(* The workers that Start creates are not busy, and the others go on. *)
LEMMA StartKeepsBusy ==
    ASSUME TypeInv, Start
    PROVE  \A w \in Workers : Busy(w)' <=> Busy(w)
<1>1. /\ wpc \in [Workers -> WorkerPCs]
      /\ starts \in Nat
      /\ \A w \in Workers : w[1] > starts => wpc[w] = "none"
  BY EngineAssumption DEF TypeInv, EngineTypeOK, Locals, EngineAssumption
<1>2. wpc' = [w \in Workers |-> IF w[1] = starts + 1 THEN "select" ELSE wpc[w]]
  BY DEF Start
<1>3. \A w \in Workers : wpc'[w] = IF w[1] = starts + 1 THEN "select" ELSE wpc[w]
  BY <1>1, <1>2
<1>4. \A w \in Workers : w[1] = starts + 1 => wpc[w] = "none"
  BY <1>1
<1>5. QED
  BY <1>3, <1>4 DEF Busy

(* Every step moves a request to at most one other place. *)
LEMMA FateInvNext ==
    ASSUME Recording, TypeInv, FateInv, [EngineNext]_engineVars
    PROVE  FateInv'
<1> USE EngineAssumption DEF EngineAssumption, Noted
<1>0. /\ wpc \in [Workers -> WorkerPCs]
      /\ wreq \in [Workers -> Requests \cup {NoRequest}]
      /\ sreq \in [Submitters -> Requests \cup {NoRequest}]
      /\ spc \in [Submitters -> {"idle", "submit", "select"}]
      /\ accepted \subseteq Requests
      /\ resultChan \in Seq(Result)
      /\ NoRequest \notin Requests
  BY DEF TypeInv, EngineTypeOK
<1>1. CASE Start
  <2>1. \A w \in Workers : Busy(w)' <=> Busy(w)
    BY <1>1, StartKeepsBusy
  <2>2. Held' = Held
    BY <1>1, <2>1 DEF Start, Held
  <2>3. QED
    BY <1>1, <2>1, <2>2, FateUnmoved DEF Start, FateInv, Pending
<1>2. CASE (\E t \in Stoppers : Stop(t) \/ Wait(t)) \/ UNCHANGED engineVars
  BY <1>2, FateUnmoved DEF Stop, Wait, engineVars, Held, Busy, FateInv, Pending
<1>3. ASSUME NEW s \in Submitters, NEW r \in Requests, Fresh(r), Submit(s, r)
      PROVE  FateInv'
  <2>1. Pending'
    BY <1>0, <1>3 DEF Submit, Fresh, FateInv, Pending
  <2>2. QED
    BY <1>3, <2>1, FateUnmoved DEF Submit, Held, Busy
<1>4. ASSUME NEW s \in Submitters, SubmitCheck(s) \/ SubmitCancelled(s)
      PROVE  FateInv'
  <2>1. Pending'
    BY <1>0, <1>4 DEF SubmitCheck, SubmitCancelled, SubmitDone, FateInv, Pending
  <2>2. QED
    BY <1>4, <2>1, FateUnmoved DEF SubmitCheck, SubmitCancelled, Held, Busy
<1>5. ASSUME NEW s \in Submitters, NEW w \in Workers, Handover(s, w)
      PROVE  FateInv'
  <2>1. sreq[s] \in Requests /\ sreq[s] \notin accepted /\ ~Busy(w)
    BY <1>5 DEF Handover, TypeInv, Locals, FateInv, Pending, Busy
  <2>2. \A v \in Workers : /\ Busy(v)' <=> Busy(v) \/ v = w
                           /\ wreq'[v] = IF v = w THEN sreq[s] ELSE wreq[v]
    BY <1>0, <1>5 DEF Handover, Busy
  <2>3. Held' = Held \cup {sreq[s]}
    BY <2>1, <2>2 DEF Held
  <2>4. Queued' = Queued
    BY <1>5 DEF Handover, Queued
  <2>5. Pending'
    BY <1>0, <1>5, <2>1 DEF Handover, SubmitDone, FateInv, Pending
  <2>6. \A v, x \in Workers : Busy(v)' /\ Busy(x)' /\ wreq'[v] = wreq'[x] => v = x
    BY <2>1, <2>2 DEF FateInv, OneFate, Held
  <2>7. QED
    BY <1>5, <2>1, <2>3, <2>4, <2>5, <2>6 DEF Handover, FateInv, OneFate
<1>6. ASSUME NEW w \in Workers, WorkerExit(w) \/ Check(w)
      PROVE  FateInv'
  <2>1. \A v \in Workers : Busy(v)' <=> Busy(v)
    BY <1>0, <1>6 DEF WorkerExit, Check, Busy
  <2>2. Held' = Held
    BY <1>6, <2>1 DEF WorkerExit, Check, Held
  <2>3. QED
    BY <1>6, <2>1, <2>2, FateUnmoved DEF WorkerExit, Check, FateInv, Pending
<1>7. ASSUME NEW w \in Workers, Send(w) \/ Discard(w)
      PROVE  FateInv'
  <2>1. Busy(w) /\ wreq[w] \in Requests /\ wreq[w] \in Held
    BY <1>7 DEF Send, Discard, Busy, TypeInv, Locals, Held
  <2>2. \A v \in Workers : /\ Busy(v)' <=> Busy(v) /\ v # w
                           /\ v # w => wreq'[v] = wreq[v]
    BY <1>0, <1>7 DEF Send, Discard, CheckDone, Busy
  <2>3. Held' = Held \ {wreq[w]}
    BY <2>1, <2>2 DEF Held, FateInv, OneFate
  <2>4. Pending'
    BY <1>7 DEF Send, Discard, FateInv, Pending
  <2>5. \A v, x \in Workers : Busy(v)' /\ Busy(x)' /\ wreq'[v] = wreq'[x] => v = x
    BY <2>2 DEF FateInv, OneFate
  <2>6. CASE Discard(w)
    <3>1. Queued' = Queued
      BY <2>6 DEF Discard, Queued
    <3>2. QED
      BY <2>1, <2>3, <2>4, <2>5, <2>6, <3>1 DEF Discard, FateInv, OneFate
  <2>7. CASE Send(w)
    <3> DEFINE e == [req |-> wreq[w], out |-> wout[w]]
    <3>1. e \in Result
      BY <2>1, <2>7 DEF Send, TypeInv, Locals, Result
    <3>2. resultChan' = Append(resultChan, e)
      BY <2>7 DEF Send
    <3>3. Queued' = Queued \cup {wreq[w]}
      BY <1>0, <3>1, <3>2, QueuedAppend DEF Queued
    <3>4. /\ Len(resultChan) \in Nat
          /\ Len(resultChan') = Len(resultChan) + 1
          /\ \A i \in 1 .. Len(resultChan) : resultChan'[i] = resultChan[i]
          /\ resultChan'[Len(resultChan) + 1].req = wreq[w]
      BY <1>0, <3>1, <3>2
    <3>5. \A i \in 1 .. Len(resultChan) : resultChan[i].req # wreq[w]
      BY <2>1 DEF FateInv, OneFate, Queued
    <3>6. \A i, j \in 1 .. Len(resultChan') :
             resultChan'[i].req = resultChan'[j].req => i = j
      BY <3>4, <3>5 DEF FateInv, OneFate
    <3>7. QED
      BY <2>1, <2>3, <2>4, <2>5, <2>7, <3>3, <3>6 DEF Send, FateInv, OneFate
  <2>8. QED
    BY <1>7, <2>6, <2>7
<1>8. CASE Receive
  <2>1. Held' = Held /\ Pending' /\ \A w \in Workers : Busy(w)' <=> Busy(w)
    BY <1>8 DEF Receive, Held, Busy, FateInv, Pending
  <2>2. resultChan # <<>> /\ resultChan' = Tail(resultChan)
    BY <1>8 DEF Receive
  <2>3. Queued = Queued' \cup {Head(resultChan).req}
    BY <1>0, <2>2, QueuedTail DEF Queued
  <2>4. /\ Len(resultChan) \in Nat \ {0}
        /\ Len(resultChan') = Len(resultChan) - 1
        /\ \A i \in 1 .. Len(resultChan') : resultChan'[i] = resultChan[i + 1]
        /\ Head(resultChan) = resultChan[1]
    BY <1>0, <2>2, HeadTailProperties, EmptySeq
  <2>5. \A i, j \in 1 .. Len(resultChan') :
           resultChan'[i].req = resultChan'[j].req => i = j
    BY <2>4 DEF FateInv, OneFate
  <2>6. Head(resultChan).req \notin Queued'
    BY <2>4 DEF FateInv, OneFate, Queued
  <2>7. QED
    BY <1>8, <2>1, <2>3, <2>5, <2>6 DEF Receive, FateInv, OneFate
<1>9. QED
  BY <1>1, <1>2, <1>3, <1>4, <1>5, <1>6, <1>7, <1>8
     DEF EngineNext, SubmitStep, WorkerStep

(* Every accepted request has exactly one fate: no result is duplicated or  *)
(* lost, whatever Submit, Stop and Start race with.                         *)
THEOREM EveryRequestHasOneFate == Recording => (EngineSpec => []OneFate)
<1> SUFFICES ASSUME Recording PROVE EngineSpec => []OneFate
  OBVIOUS
<1>1. EngineInit => TypeInv /\ FateInv
  BY TypeInvInit, FateInvInit
<1>2. TypeInv /\ FateInv /\ [EngineNext]_engineVars => (TypeInv /\ FateInv)'
  BY TypeInvNext, FateInvNext
<1>3. TypeInv /\ FateInv => OneFate
  BY DEF FateInv
<1>4. QED
  BY <1>1, <1>2, <1>3, PTL DEF EngineSpec

-----------------------------------------------------------------------------
(***************************************************************************)
(* DropsNeedBacklog.  A worker that finds the channel full holds a request *)
(* besides the Capacity different ones in the channel, and all of them     *)
(* were accepted.                                                          *)
(***************************************************************************)
DropInv == DropsNeedBacklog /\ IsFiniteSet(accepted)

(* A worker that meets a full channel holds a request that is not queued,   *)
(* so more than Capacity were accepted.                                     *)
LEMMA FullChannelMeansBacklog ==
    ASSUME TypeInv, FateInv, IsFiniteSet(accepted),
           NEW w \in Workers, Busy(w), ~hasRoom
    PROVE  Cardinality(accepted) > Capacity
<1> DEFINE f == [i \in 1 .. Capacity + 1 |->
                    IF i = Capacity + 1 THEN wreq[w] ELSE resultChan[i].req]
<1>1. Capacity \in Nat \ {0} /\ resultChan \in Seq(Result) /\ Len(resultChan) = Capacity
  BY EngineAssumption DEF EngineAssumption, TypeInv, EngineTypeOK, hasRoom
<1>2. wreq[w] \in Held /\ \A i \in 1 .. Capacity : resultChan[i].req \in Queued
  BY <1>1 DEF Held, Queued
<1>3. f \in [1 .. Capacity + 1 -> accepted]
  BY <1>1, <1>2 DEF FateInv, OneFate
<1>4. \A i, j \in 1 .. Capacity + 1 : f[i] = f[j] => i = j
  <2>1. \A i \in 1 .. Capacity : resultChan[i].req # wreq[w]
    BY <1>2 DEF FateInv, OneFate
  <2>2. \A i, j \in 1 .. Capacity : resultChan[i].req = resultChan[j].req => i = j
    BY <1>1 DEF FateInv, OneFate
  <2>3. QED
    BY <1>1, <2>1, <2>2
<1>5. IsFiniteSet(1 .. Capacity + 1) /\ Cardinality(1 .. Capacity + 1) = Capacity + 1
  BY <1>1, FS_Interval
<1>6. Cardinality(accepted) \in Nat
  BY FS_CardinalityType
<1> HIDE DEF f
<1>7. ASSUME Cardinality(accepted) < Capacity + 1 PROVE FALSE
  <2> DEFINE S == 1 .. Capacity + 1
  <2>1. IsFiniteSet(S) /\ Cardinality(accepted) < Cardinality(S) /\ f \in [S -> accepted]
    BY <1>3, <1>5, <1>7
  <2> HIDE DEF S
  <2>2. \E x, y \in S : x # y /\ f[x] = f[y]
    BY <2>1, FS_PigeonHole
  <2>3. QED
    BY <1>4, <2>2 DEF S
<1>8. QED
  BY <1>1, <1>6, <1>7

(* Discard is the only step that drops, and accepted requests are never     *)
(* forgotten.                                                               *)
LEMMA DropInvNext ==
    ASSUME Recording, TypeInv, FateInv, DropInv, [EngineNext]_engineVars
    PROVE  DropInv'
<1>0. Cardinality(accepted) \in Nat /\ Capacity \in Nat
  BY FS_CardinalityType, EngineAssumption DEF DropInv, EngineAssumption
<1>1. ASSUME NEW s \in Submitters, NEW w \in Workers, Handover(s, w)
      PROVE  DropInv'
  <2>1. /\ IsFiniteSet(accepted')
        /\ Cardinality(accepted') \in {Cardinality(accepted), Cardinality(accepted) + 1}
    BY <1>1, FS_AddElement DEF Handover, Noted, DropInv
  <2>2. QED
    BY <1>0, <1>1, <2>1 DEF Handover, DropInv, DropsNeedBacklog
<1>2. ASSUME NEW w \in Workers, Discard(w)
      PROVE  DropInv'
  <2>1. UNCHANGED <<accepted, cancelled>> /\ Busy(w) /\ (cancelled \/ ~hasRoom)
    BY <1>2 DEF Discard, Busy
  <2>2. cancelled \/ Cardinality(accepted) > Capacity
    BY <2>1, FullChannelMeansBacklog DEF DropInv
  <2>3. QED
    BY <2>1, <2>2 DEF DropInv, DropsNeedBacklog
<1>3. ASSUME UNCHANGED <<accepted, dropped>>, cancelled => cancelled'
      PROVE  DropInv'
  BY <1>3 DEF DropInv, DropsNeedBacklog
<1>4. CASE Start \/ Receive \/ UNCHANGED engineVars \/ \E t \in Stoppers : Stop(t) \/ Wait(t)
  BY <1>3, <1>4 DEF Start, Receive, engineVars, Stop, Wait
<1>5. ASSUME NEW s \in Submitters,
             (\E r \in Requests : Submit(s, r)) \/ SubmitCheck(s) \/ SubmitCancelled(s)
      PROVE  DropInv'
  BY <1>3, <1>5 DEF Submit, SubmitCheck, SubmitCancelled
<1>6. ASSUME NEW w \in Workers, WorkerExit(w) \/ Check(w) \/ Send(w)
      PROVE  DropInv'
  BY <1>3, <1>6 DEF WorkerExit, Check, Send
<1>7. QED
  BY <1>1, <1>2, <1>4, <1>5, <1>6 DEF EngineNext, SubmitStep, WorkerStep

(* While the engine is not shut down, it drops a result only when more than *)
(* Capacity requests were accepted.                                         *)
THEOREM NoDropWithoutBacklog == Recording => (EngineSpec => []DropsNeedBacklog)
<1> SUFFICES ASSUME Recording PROVE EngineSpec => []DropsNeedBacklog
  OBVIOUS
<1>1. EngineInit => TypeInv /\ FateInv /\ DropInv
  BY TypeInvInit, FateInvInit, FS_EmptySet DEF EngineInit, DropInv, DropsNeedBacklog
<1>2. TypeInv /\ FateInv /\ DropInv /\ [EngineNext]_engineVars
        => (TypeInv /\ FateInv /\ DropInv)'
  BY TypeInvNext, FateInvNext, DropInvNext
<1>3. TypeInv /\ FateInv /\ DropInv => DropsNeedBacklog
  BY DEF DropInv
<1>4. QED
  BY <1>1, <1>2, <1>3, PTL DEF EngineSpec

-----------------------------------------------------------------------------
(***************************************************************************)
(* ImplementsPool.  The pool's work is what workers hold, its ready the    *)
(* requests of the buffered results.  Every step of the engine is a step   *)
(* of the pool or leaves its variables alone; FateInv gives that a request *)
(* handed over is new to the pool and that a worker that finishes takes    *)
(* its own request away and no other's.                                    *)
(***************************************************************************)
(* The requests of the buffer, as a sequence: as long as the buffer, with   *)
(* the same head, growing and shrinking with it.                            *)
LEMMA ReadySeq ==
    ASSUME NEW q \in Seq(Result)
    PROVE  LET reqs(s) == [i \in 1 .. Len(s) |-> s[i].req]
           IN  /\ reqs(q) \in Seq(Requests) /\ Len(reqs(q)) = Len(q)
               /\ \A e \in Result : reqs(Append(q, e)) = Append(reqs(q), e.req)
               /\ q # <<>> => /\ reqs(q) # <<>>
                             /\ reqs(Tail(q)) = Tail(reqs(q))
                             /\ Head(reqs(q)) = Head(q).req
<1> DEFINE reqs(s) == [i \in 1 .. Len(s) |-> s[i].req]
<1>0. Len(q) \in Nat /\ \A i \in 1 .. Len(q) : q[i] \in Result
  OBVIOUS
<1>1. Len(q) \in Nat /\ \A i \in 1 .. Len(q) : q[i].req \in Requests
  BY <1>0 DEF Result
<1>2. reqs(q) \in Seq(Requests) /\ Len(reqs(q)) = Len(q)
  BY <1>1
<1>4. ASSUME NEW e \in Result
      PROVE  reqs(Append(q, e)) = Append(reqs(q), e.req)
  <2>1. e.req \in Requests
    BY DEF Result
  <2>2. /\ Len(Append(q, e)) = Len(q) + 1
        /\ \A i \in 1 .. Len(q) + 1 :
              Append(q, e)[i] = IF i = Len(q) + 1 THEN e ELSE q[i]
    BY <1>1
  <2>3. Append(reqs(q), e.req) =
          [i \in 1 .. Len(q) + 1 |-> IF i = Len(q) + 1 THEN e.req ELSE reqs(q)[i]]
    BY <1>2, <2>1
  <2>4. QED
    BY <1>1, <2>2, <2>3
<1>5. ASSUME q # <<>>
      PROVE  /\ reqs(q) # <<>>
             /\ reqs(Tail(q)) = Tail(reqs(q))
             /\ Head(reqs(q)) = Head(q).req
  <2>1. Len(q) > 0 /\ reqs(q) # <<>>
    BY <1>1, <1>2, <1>5, EmptySeq
  <2>2. /\ Head(q) = q[1]
        /\ Len(Tail(q)) = Len(q) - 1
        /\ \A i \in 1 .. Len(q) - 1 : Tail(q)[i] = q[i + 1]
    BY <1>1, <1>5, HeadTailProperties
  <2>3. /\ Head(reqs(q)) = reqs(q)[1]
        /\ Tail(reqs(q)) \in Seq(Requests)
        /\ Len(Tail(reqs(q))) = Len(q) - 1
        /\ \A i \in 1 .. Len(q) - 1 : Tail(reqs(q))[i] = reqs(q)[i + 1]
    BY <1>2, <2>1, HeadTailProperties
  <2>4. \A i \in 1 .. Len(q) - 1 : i + 1 \in 1 .. Len(q)
    BY <1>1
  <2>5. /\ reqs(Tail(q)) \in Seq(Requests)
        /\ Len(reqs(Tail(q))) = Len(q) - 1
        /\ \A i \in 1 .. Len(q) - 1 : reqs(Tail(q))[i] = q[i + 1].req
    BY <1>1, <2>1, <2>2, <2>4
  <2>6. \A i \in 1 .. Len(q) - 1 : reqs(Tail(q))[i] = Tail(reqs(q))[i]
    BY <2>3, <2>4, <2>5
  <2> HIDE DEF reqs
  <2>7. reqs(Tail(q)) = Tail(reqs(q))
    BY <2>3, <2>5, <2>6, SeqEqual
  <2>8. Head(reqs(q)) = Head(q).req
    BY <1>1, <2>1, <2>2, <2>3 DEF reqs
  <2>9. QED
    BY <2>1, <2>7, <2>8
<1>6. QED
  BY <1>2, <1>4, <1>5

(* A step of the engine is a step of the pool, or none. *)
LEMMA EngineStepIsPoolStep ==
    ASSUME Recording, TypeInv, FateInv, [EngineNext]_engineVars
    PROVE  [P!Next]_P!vars
<1> USE EngineAssumption DEF EngineAssumption, Noted
<1>0. /\ wpc \in [Workers -> WorkerPCs]
      /\ wreq \in [Workers -> Requests \cup {NoRequest}]
      /\ resultChan \in Seq(Result)
      /\ Len(resultChan) <= Capacity
      /\ NoRequest \notin Requests
  BY DEF TypeInv, EngineTypeOK
<1> DEFINE ready == [i \in 1 .. Len(resultChan) |-> resultChan[i].req]
<1>a. Len(ready) = Len(resultChan) /\ {ready[i] : i \in 1 .. Len(ready)} = Queued
  BY <1>0, ReadySeq DEF Queued
<1>1. ASSUME Held' = Held, UNCHANGED <<resultChan, consumed, dropped, cancelled>>
      PROVE  UNCHANGED P!vars
  BY <1>1 DEF P!vars
<1>2. CASE Start
  <2>1. \A w \in Workers : Busy(w)' <=> Busy(w)
    BY <1>2, StartKeepsBusy
  <2>2. Held' = Held
    BY <1>2, <2>1 DEF Start, Held
  <2>3. QED
    BY <1>1, <1>2, <2>2 DEF Start
<1>3. ASSUME NEW t \in Stoppers, Stop(t)
      PROVE  [P!Next]_P!vars
  <2>1. Held' = Held /\ UNCHANGED <<resultChan, consumed, dropped>>
    BY <1>3 DEF Stop, Held, Busy
  <2>2. cancelled' = cancelled \/ cancelled' = TRUE
    BY <1>3 DEF Stop
  <2>3. CASE cancelled' = TRUE
    BY <2>1, <2>3 DEF P!Next, P!Shut
  <2>4. QED
    BY <1>1, <2>1, <2>2, <2>3
<1>4. CASE (\E t \in Stoppers : Wait(t)) \/ UNCHANGED engineVars
  BY <1>1, <1>4 DEF Wait, engineVars, Held, Busy
<1>5. ASSUME NEW s \in Submitters,
             (\E r \in Requests : Submit(s, r)) \/ SubmitCheck(s) \/ SubmitCancelled(s)
      PROVE  [P!Next]_P!vars
  BY <1>1, <1>5 DEF Submit, SubmitCheck, SubmitCancelled, Held, Busy
<1>6. ASSUME NEW s \in Submitters, NEW w \in Workers, Handover(s, w)
      PROVE  [P!Next]_P!vars
  <2>1. sreq[s] \in Requests /\ sreq[s] \notin accepted /\ ~Busy(w)
    BY <1>6 DEF Handover, TypeInv, Locals, FateInv, Pending, Busy
  <2>2. \A v \in Workers : /\ Busy(v)' <=> Busy(v) \/ v = w
                           /\ wreq'[v] = IF v = w THEN sreq[s] ELSE wreq[v]
    BY <1>0, <1>6 DEF Handover, Busy
  <2>3. Held' = Held \cup {sreq[s]}
    BY <2>1, <2>2 DEF Held
  <2>4. sreq[s] \notin Held \cup Queued \cup consumed \cup dropped
    BY <2>1 DEF FateInv, OneFate
  <2>5. UNCHANGED <<resultChan, consumed, dropped, cancelled>>
    BY <1>6 DEF Handover
  <2>6. P!Accept(sreq[s])
    BY <1>a, <2>3, <2>4, <2>5 DEF P!Accept, P!Waiting
  <2>7. QED
    BY <2>1, <2>6 DEF P!Next
<1>7. ASSUME NEW w \in Workers, WorkerExit(w) \/ Check(w)
      PROVE  [P!Next]_P!vars
  <2>1. \A v \in Workers : Busy(v)' <=> Busy(v)
    BY <1>0, <1>7 DEF WorkerExit, Check, Busy
  <2>2. Held' = Held
    BY <1>7, <2>1 DEF WorkerExit, Check, Held
  <2>3. QED
    BY <1>1, <1>7, <2>2 DEF WorkerExit, Check
<1>8. ASSUME NEW w \in Workers, Send(w) \/ Discard(w)
      PROVE  [P!Next]_P!vars
  <2>1. Busy(w) /\ wreq[w] \in Requests /\ wreq[w] \in Held
    BY <1>8 DEF Send, Discard, Busy, TypeInv, Locals, Held
  <2>2. \A v \in Workers : /\ Busy(v)' <=> Busy(v) /\ v # w
                           /\ v # w => wreq'[v] = wreq[v]
    BY <1>0, <1>8 DEF Send, Discard, CheckDone, Busy
  <2>3. Held' = Held \ {wreq[w]}
    BY <2>1, <2>2 DEF Held, FateInv, OneFate
  <2>4. CASE Discard(w)
    <3>1. cancelled \/ Len(ready) = Capacity
      BY <1>0, <1>a, <2>4 DEF Discard, hasRoom
    <3>2. P!Miss(wreq[w])
      BY <2>1, <2>3, <2>4, <3>1 DEF P!Miss, Discard
    <3>3. QED
      BY <2>1, <3>2 DEF P!Next
  <2>5. CASE Send(w)
    <3> DEFINE e == [req |-> wreq[w], out |-> wout[w]]
    <3>1. e \in Result /\ e.req = wreq[w]
      BY <2>1, <2>5 DEF Send, TypeInv, Locals, Result
    <3>2. resultChan' = Append(resultChan, e) /\ UNCHANGED <<consumed, dropped, cancelled>>
      BY <2>5 DEF Send
    <3>3. ready' = Append(ready, wreq[w])
      BY <1>0, <3>1, <3>2, ReadySeq
    <3>4. Len(ready) < Capacity
      BY <1>a, <2>5 DEF Send, hasRoom
    <3>5. PICK r \in Requests : r = wreq[w]
      BY <2>1
    <3>6. P!Complete(r)
      BY <2>1, <2>3, <3>2, <3>3, <3>4, <3>5 DEF P!Complete
    <3>7. QED
      BY <3>6 DEF P!Next
  <2>6. QED
    BY <1>8, <2>4, <2>5
<1>9. CASE Receive
  <2>1. Held' = Held /\ UNCHANGED <<dropped, cancelled>>
    BY <1>9 DEF Receive, Held, Busy
  <2>2. /\ resultChan # <<>> /\ resultChan' = Tail(resultChan)
        /\ consumed' = consumed \cup {Head(resultChan).req}
    BY <1>9 DEF Receive
  <2>3. ready # <<>> /\ ready' = Tail(ready) /\ Head(ready) = Head(resultChan).req
    BY <1>0, <2>2, ReadySeq
  <2>4. P!Take
    BY <2>1, <2>2, <2>3 DEF P!Take
  <2>5. QED
    BY <2>4 DEF P!Next
<1>10. QED
  BY <1>2, <1>3, <1>4, <1>5, <1>6, <1>7, <1>8, <1>9 DEF EngineNext, SubmitStep, WorkerStep

(* The engine implements the pool: results are read once and in the order   *)
(* in which they were ready, and are lost only at a full channel or after a *)
(* Stop, with any number of workers, callers and lives.                     *)
THEOREM EngineImplementsPool == Recording => (EngineSpec => ImplementsPool)
<1> SUFFICES ASSUME Recording PROVE EngineSpec => ImplementsPool
  OBVIOUS
<1>1. EngineInit => P!Init
  <2> SUFFICES ASSUME EngineInit PROVE P!Init
    OBVIOUS
  <2>1. Held = {}
    BY DEF EngineInit, Held, Busy
  <2>2. [i \in 1 .. Len(resultChan) |-> resultChan[i].req] = <<>>
    BY DEF EngineInit
  <2>3. QED
    BY <2>1, <2>2 DEF EngineInit, P!Init
<1>2. EngineInit => TypeInv /\ FateInv
  BY TypeInvInit, FateInvInit
<1>3. TypeInv /\ FateInv /\ [EngineNext]_engineVars => (TypeInv /\ FateInv)'
  BY TypeInvNext, FateInvNext
<1>4. TypeInv /\ FateInv /\ [EngineNext]_engineVars => [P!Next]_P!vars
  BY EngineStepIsPoolStep
<1>5. QED
  BY <1>1, <1>2, <1>3, <1>4, PTL DEF EngineSpec, ImplementsPool, P!Spec
=============================================================================

--------------------------- MODULE ReconcilerLife ---------------------------
(***************************************************************************)
(* Start, Stop and the loop of the reconciler (internal/dns/reconciler.go, *)
(* Start, Stop and run).  What a pass does is the module Reconciler; here  *)
(* a pass is only something that takes a while, and does not hold the      *)
(* mutex that Start and Stop take.                                         *)
(*                                                                         *)
(* The n-th call of Start that finds the reconciler stopped makes the n-th *)
(* stop channel and, after a first pass, launches the n-th loop.  A loop   *)
(* evaluates r.stopCh, without the lock, each time it enters its select:   *)
(* it waits on the channel that was the reconciler's at that moment, which *)
(* need not be the one made for it.                                        *)
(***************************************************************************)
EXTENDS Integers

CONSTANT MaxLives   \* bound: calls of Start that are not refused

ASSUME LifeAssumption == MaxLives \in Nat

VARIABLES
    recRunning,     \* Reconciler.running
    lives,          \* calls of Start so far that were not refused; r.stopCh is channel lives
    closed,         \* stop channels that are closed
    start,          \* the calls of Start that make their first pass
    loop,           \* where each loop is
    waits,          \* the channel that each loop waits on
    recDone         \* the context given to Start is done

lifeVars == <<recRunning, lives, closed, start, loop, waits, recDone>>

Lives == 1 .. MaxLives
Loops == {"none", "top", "select", "pass", "gone"}
Looping(n) == loop[n] \in {"top", "select", "pass"}

(* NewReconciler makes channel 0, that nobody closes. *)
LifeInit ==
    /\ recRunning = FALSE
    /\ lives = 0
    /\ closed = {}
    /\ start = {}
    /\ loop = [n \in Lives |-> "none"]
    /\ waits = [n \in Lives |-> 0]
    /\ recDone = FALSE

(* Start, under the lock; a running reconciler refuses it. *)
StartReconciler ==
    /\ ~recRunning
    /\ lives < MaxLives
    /\ recRunning' = TRUE
    /\ lives' = lives + 1
    /\ start' = start \cup {lives + 1}
    /\ UNCHANGED <<closed, loop, waits, recDone>>

(* ... and when its first pass is over, even one that failed: go r.run(ctx). *)
LaunchLoop(n) ==
    /\ n \in start
    /\ start' = start \ {n}
    /\ loop' = [loop EXCEPT ![n] = "top"]
    /\ UNCHANGED <<recRunning, lives, closed, waits, recDone>>

(* Stop; it does not wait for the loop.  One of a reconciler that is        *)
(* stopped changes nothing.                                                 *)
StopReconciler ==
    /\ recRunning
    /\ recRunning' = FALSE
    /\ closed' = closed \cup {lives}
    /\ UNCHANGED <<lives, start, loop, waits, recDone>>

CancelStart ==
    /\ ~recDone
    /\ recDone' = TRUE
    /\ UNCHANGED <<recRunning, lives, closed, start, loop, waits>>

(* Mutant: a loop waits on the channel that the reconciler was made with. *)
EnterSelectOnFirst(n) ==
    /\ loop[n] = "top"
    /\ loop' = [loop EXCEPT ![n] = "select"]
    /\ waits' = [waits EXCEPT ![n] = 0]
    /\ UNCHANGED <<recRunning, lives, closed, start, recDone>>

(* run: select, with the channel that r.stopCh is now. *)
EnterSelect(n) ==
    /\ loop[n] = "top"
    /\ loop' = [loop EXCEPT ![n] = "select"]
    /\ waits' = [waits EXCEPT ![n] = lives]
    /\ UNCHANGED <<recRunning, lives, closed, start, recDone>>

(* Mutant: a loop ends when the reconciler is found stopped or restarted. *)
LeaveOnRestart(n) ==
    /\ loop[n] = "select"
    /\ recDone \/ waits[n] \in closed \/ start # {}
    /\ loop' = [loop EXCEPT ![n] = "gone"]
    /\ UNCHANGED <<recRunning, lives, closed, start, waits, recDone>>

(* case <-ctx.Done() and case <-r.stopCh *)
LeaveLoop(n) ==
    /\ loop[n] = "select"
    /\ recDone \/ waits[n] \in closed
    /\ loop' = [loop EXCEPT ![n] = "gone"]
    /\ UNCHANGED <<recRunning, lives, closed, start, waits, recDone>>

(* case <-ticker.C: a pass begins ... *)
BeginPass(n) ==
    /\ loop[n] = "select"
    /\ loop' = [loop EXCEPT ![n] = "pass"]
    /\ UNCHANGED <<recRunning, lives, closed, start, waits, recDone>>

(* ... and ends, with an error or not. *)
EndPass(n) ==
    /\ loop[n] = "pass"
    /\ loop' = [loop EXCEPT ![n] = "top"]
    /\ UNCHANGED <<recRunning, lives, closed, start, waits, recDone>>

LoopStep(n) == EnterSelect(n) \/ LeaveLoop(n) \/ BeginPass(n) \/ EndPass(n)

LifeNext ==
    \/ StartReconciler
    \/ StopReconciler
    \/ CancelStart
    \/ \E n \in Lives : LaunchLoop(n) \/ LoopStep(n)

LifeSpec == LifeInit /\ [][LifeNext]_lifeVars

(* A pass ends and the ticker fires again and again.  A select with several *)
(* cases ready chooses among them at random, so a loop that can leave each  *)
(* time it comes round does leave: strong fairness.                         *)
LifeFairness ==
    \A n \in Lives :
        /\ WF_lifeVars(LaunchLoop(n))
        /\ WF_lifeVars(LoopStep(n))
        /\ SF_lifeVars(LeaveLoop(n))

-----------------------------------------------------------------------------
(***************************************************************************)
(* RunningHasLoop.  As long as the reconciler runs and its context is not  *)
(* done, a loop serves it or is about to: a Stop followed at once by a     *)
(* Start, with the old loop in the middle of a pass, never leaves the      *)
(* reconciler running without a loop, nor does the old loop take the       *)
(* signal meant for the new one away (reconciler.go, run: r.stopCh is read *)
(* anew at every turn).                                                    *)
(***************************************************************************)
RunningHasLoop == recRunning /\ ~recDone => lives \in start \/ Looping(lives)

(***************************************************************************)
(* StopEndsLoops.  When the reconciler is stopped for good all its loops   *)
(* end, also a loop of an earlier life that waits on a later channel and   *)
(* one whose Start was still in its first pass.                            *)
(***************************************************************************)
StopEndsLoops == <>[]~recRunning => <>[](start = {} /\ \A n \in Lives : ~Looping(n))
=============================================================================

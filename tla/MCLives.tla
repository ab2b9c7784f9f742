------------------------------ MODULE MCLives ------------------------------
(***************************************************************************)
(* The components that are started and stopped: the engine, the check      *)
(* scheduler and the loop of the reconciler.  They share no state; a       *)
(* behaviour is one of a single component, named by part, while the others *)
(* stay as they are.  So the state space is the sum of theirs, and an      *)
(* invariant or a property of a component is checked on all behaviours of  *)
(* its own.                                                                *)
(***************************************************************************)
EXTENDS CheckScheduler, Engine, ReconcilerLife

CONSTANTS w1, w2, s1, s2, t1, r1, r2, r3

VARIABLE part

allVars == <<part, engineVars, csVars, lifeVars>>

Init ==
    /\ part \in {"engine", "checks", "life"}
    /\ EngineInit /\ CSInit /\ LifeInit

Next ==
    /\ UNCHANGED part
    /\ \/ part = "engine" /\ EngineNext /\ UNCHANGED <<csVars, lifeVars>>
       \/ part = "checks" /\ CSNext /\ UNCHANGED <<engineVars, lifeVars>>
       \/ part = "life" /\ LifeNext /\ UNCHANGED <<engineVars, csVars>>

(* The fairness of a component asks nothing of one that does not move: in   *)
(* its initial state none of its fair actions is enabled.                   *)
Spec == Init /\ [][Next]_allVars /\ EngineFairness /\ CSFairness /\ LifeFairness
=============================================================================

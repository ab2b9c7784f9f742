------------------------------- MODULE MCData -------------------------------
(***************************************************************************)
(* The components that keep data for others: roles, edits of the tables,   *)
(* probe history, rate limiter, selectors and health state machine.  As in *)
(* MCLives they share no state, and a behaviour is one of a single         *)
(* component, named by part.                                               *)
(***************************************************************************)
EXTENDS TLC, Access, Edits, History, RateLimiter, Selector, StateMachine

CONSTANTS p1, p2

VARIABLE part

(* No role, the role of administrators, and the default role beside a name  *)
(* that is no role.                                                         *)
RoleSets == {{}, {"admin"}, {"viewer", "other"}}
ThresholdValues == {-1, 1, 2, 3}

(* Two backends, one of which may be disabled. *)
SmallPools ==
    {<<[id |-> 1, weight |-> v, enabled |-> e], [id |-> 2, weight |-> w, enabled |-> TRUE]>> :
         v \in 0 .. 2, w \in 0 .. 2, e \in BOOLEAN}

(* Two configurations; one has a backend and all settings, the other none. *)
OneServed ==
    (ConfigKey("c") :> [value |-> 1]) @@ (ConfigKey("d") :> [value |-> 2])
    @@ (HostKey("b") :> [config_id |-> "c", ip |-> 1])
    @@ (<<"health_checks", "c">> :> [value |-> 1]) @@ (<<"dns_providers", "c">> :> [value |-> 1])
StartDatabases == {OneServed}

allVars == <<part, accVars, editVars, histVars, rateVars, selVars, smVars>>

(* Of a component that does not move any initial state will do. *)
Init ==
    /\ part \in {"access", "edits", "history", "rate", "selector", "states"}
    /\ AccessInit /\ EditInit /\ HistInit /\ RateInit /\ SelInit /\ SMInit
    /\ part # "access" => users = {} /\ configs = {}
    /\ part # "selector" => ~weighted /\ pool = CHOOSE s \in Pools : TRUE
    /\ part # "states" => smConfig = [ThresholdHealthy |-> 1, ThresholdUnhealthy |-> 1]

Next ==
    /\ UNCHANGED part
    /\ \/ part = "access" /\ AccessNext /\ UNCHANGED <<editVars, histVars, rateVars, selVars, smVars>>
       \/ part = "edits" /\ EditNext /\ UNCHANGED <<accVars, histVars, rateVars, selVars, smVars>>
       \/ part = "history" /\ HistNext /\ UNCHANGED <<accVars, editVars, rateVars, selVars, smVars>>
       \/ part = "rate" /\ RateNext /\ UNCHANGED <<accVars, editVars, histVars, selVars, smVars>>
       \/ part = "selector" /\ SelNext /\ UNCHANGED <<accVars, editVars, histVars, rateVars, smVars>>
       \/ part = "states" /\ SMNext /\ UNCHANGED <<accVars, editVars, histVars, rateVars, selVars>>

(* The fairness of a component asks nothing of one that does not move: in   *)
(* its initial state none of its fair actions is enabled.                   *)
Spec == Init /\ [][Next]_allVars /\ HistFairness /\ RateFairness
=============================================================================

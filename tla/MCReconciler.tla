---------------------------- MODULE MCReconciler ----------------------------
(* Instances of Reconciler for TLC: the ids, and the rows that clients send. *)
EXTENDS Reconciler

CONSTANTS c1, c2

Config(method, name, ttl) == [method |-> method, name |-> name, ttl |-> ttl]
Backend(config, ip, weight, enabled) ==
    [config |-> config, ip |-> ip, weight |-> weight, enabled |-> enabled]

(* One config, either method, with different TTLs. *)
BothMethods == {Config("round_robin", "n", 1), Config("weighted", "n", 2)}
Weighted == {Config("weighted", "n", 1)}
RoundRobin == {Config("round_robin", "n", 1)}
TwoNames == {Config("round_robin", n, 1) : n \in {"n", "m"}}

(* Two addresses; the same with a disabled backend; a backend of either    *)
(* config.                                                                  *)
TwoBackends == {Backend(c1, 1, 1, TRUE), Backend(c1, 2, 2, TRUE)}
WithDisabled == {Backend(c1, 1, 1, TRUE), Backend(c1, 2, 0, TRUE), Backend(c1, 2, 0, FALSE)}
OwnZone == {[config |-> c1, provider |-> "z"], [config |-> c1, provider |-> "unusable"]}
OtherZone == {[config |-> c1, provider |-> "y"]}
EitherConfig == {Backend(c, 1, 1, TRUE) : c \in {c1, c2}}
=============================================================================

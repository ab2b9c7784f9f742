---------------------------- MODULE RateLimiter ----------------------------
(***************************************************************************)
(* The rate limiter of the HTTP routes (internal/handlers/routes.go): the  *)
(* times of the requests that were let through, per client address, under  *)
(* one mutex, and a goroutine that forgets the stale ones.                 *)
(*                                                                         *)
(* A slice of times is a set of entries here, its order being of no        *)
(* consequence: an entry holds a time and, to tell apart the requests of   *)
(* one instant, the number of the request among those let through.         *)
(***************************************************************************)
EXTENDS Integers, FiniteSets

CONSTANTS
    Clients,        \* client addresses
    Limit,          \* RateLimiter.limit
    Window,         \* RateLimiter.window, in units of the clock
    LastInstant     \* bound: the clock stops there

ASSUME RateAssumption == Limit \in Nat \ {0} /\ Window \in Nat \ {0} /\ LastInstant \in Nat

VARIABLES
    clock,
    requests,       \* RateLimiter.requests: a map from addresses to entries
    granted,        \* history: the entries of all requests of a client that were let through
    refused         \* history: the client refused in the last step, if one was

rateVars == <<clock, requests, granted, refused>>

Instants == 0 .. LastInstant

timesOf(ip) == IF ip \in DOMAIN requests THEN requests[ip] ELSE {}

(* Mutant: the window includes the instant at which it begins. *)
validOrOld(times) == {r \in times : r.at >= clock - Window}

(* t.After(cutoff). *)
valid(times) == {r \in times : r.at > clock - Window}

RateInit ==
    /\ clock = 0
    /\ requests = <<>>
    /\ granted = [ip \in Clients |-> {}]
    /\ refused = {}

Advance ==
    /\ clock < LastInstant
    /\ clock' = clock + 1
    /\ refused' = {}
    /\ UNCHANGED <<requests, granted>>

(* rl.requests[ip] = times *)
withTimes(ip, times) ==
    [c \in DOMAIN requests \cup {ip} |-> IF c = ip THEN times ELSE requests[c]]

(* Allow. *)
Allow(ip) ==
    LET refuse == Cardinality(valid(timesOf(ip))) >= Limit
        entry == [at |-> clock, no |-> Cardinality(granted[ip]) + 1]
        new == IF refuse THEN {} ELSE {entry}
    IN  /\ requests' = withTimes(ip, valid(timesOf(ip)) \cup new)
        /\ granted' = [granted EXCEPT ![ip] = @ \cup new]
        /\ refused' = IF refuse THEN {ip} ELSE {}
        /\ UNCHANGED clock

(* Mutant: cleanup keeps the entries of clients that went away. *)
cleanupTrims ==
    /\ requests' = [ip \in DOMAIN requests |-> valid(requests[ip])]
    /\ refused' = {}
    /\ UNCHANGED <<clock, granted>>

(* cleanup, each time its ticker fires. *)
cleanup ==
    /\ requests' = [ip \in {c \in DOMAIN requests : valid(requests[c]) # {}} |->
                        valid(requests[ip])]
    /\ refused' = {}
    /\ UNCHANGED <<clock, granted>>

RateNext == Advance \/ (\E ip \in Clients : Allow(ip)) \/ cleanup

RateSpec == RateInit /\ [][RateNext]_rateVars

(* The ticker of cleanup keeps firing. *)
RateFairness == WF_rateVars(cleanup)

-----------------------------------------------------------------------------
(* Requests of a client let through in the window that ends at t. *)
InWindow(ip, t) == Cardinality({g \in granted[ip] : t - Window < g.at /\ g.at <= t})

(***************************************************************************)
(* RateExact.  In no window of the configured length, wherever it begins,  *)
(* are more than Limit requests of a client let through, and a client is   *)
(* refused only when Limit of its requests were let through in the window  *)
(* that ends now: refused requests, other clients and the cleanup, at any  *)
(* moment, neither use up nor give back an allowance.                      *)
(***************************************************************************)
RateExact ==
    /\ \A ip \in Clients, t \in Instants : InWindow(ip, t) <= Limit
    /\ \A ip \in refused : InWindow(ip, clock) = Limit

(***************************************************************************)
(* Forgotten.  The entry of a client whose requests are all old does not   *)
(* stay in the map ("removes stale entries to prevent unbounded memory     *)
(* growth", routes.go): cleanup deletes it unless the client comes back.   *)
(***************************************************************************)
Stale(ip) == ip \in DOMAIN requests /\ valid(requests[ip]) = {}
Forgotten == \A ip \in Clients : Stale(ip) ~> ~Stale(ip)
=============================================================================

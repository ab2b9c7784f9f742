------------------------------ MODULE Selector ------------------------------
(***************************************************************************)
(* The load balancing selectors (internal/lb/selector.go): a counter that  *)
(* every call increments atomically, taken modulo the number of backends   *)
(* or modulo their total weight.  The counter is a uint64: here it has     *)
(* CounterBits bits.                                                       *)
(*                                                                         *)
(* A call is given the backends that GetHealthyBackends leaves, so its     *)
(* slice may differ from that of the call before.                          *)
(***************************************************************************)
EXTENDS Integers, Sequences, FiniteSets

CONSTANTS
    CounterBits,
    ServerIds,      \* the identifiers of backends
    Pools           \* the backends, enabled and disabled, that a config may have

Server == [id : ServerIds, weight : Int, enabled : BOOLEAN]

(* That a power is positive is arithmetic the provers do not know.          *)
ASSUME SelectorAssumption ==
    /\ CounterBits \in Nat /\ 2^CounterBits \in Nat \ {0}
    /\ Pools \subseteq Seq(Server)

VARIABLES
    weighted,       \* a WeightedSelector, not a RoundRobinSelector
    pool,           \* the enabled and disabled backends of a config
    counter,
    slice,          \* history: the backends given to the last call
    picks           \* history: what the last calls with that slice returned, as
                    \* indices of the slice; it starts anew when the counter wraps

selVars == <<weighted, pool, counter, slice, picks>>

(* The health states that are known: a backend may have none. *)
HealthMaps == UNION {[known -> {"healthy", "unhealthy", "unknown"}] : known \in SUBSET ServerIds}

(* "Unknown status - include it as healthy by default" applies to a backend *)
(* that has no state.                                                       *)
serves(b, states) == b.enabled /\ (b.id \in DOMAIN states => states[b.id] = "healthy")
GetHealthyBackends(backends, states) ==
    LET healthy[i \in 0 .. Len(backends)] ==
            IF i = 0 THEN <<>>
            ELSE IF serves(backends[i], states) THEN Append(healthy[i - 1], backends[i])
            ELSE healthy[i - 1]
    IN  healthy[Len(backends)]

positive(w) == IF w > 0 THEN w ELSE 0

(* The loops over the backends add up the weights that are positive: upTo   *)
(* gives the sum after each of them.                                        *)
upTo(backends) ==
    LET current[i \in 0 .. Len(backends)] ==
            IF i = 0 THEN 0 ELSE current[i - 1] + positive(backends[i].weight)
    IN  current
totalWeight(backends) == upTo(backends)[Len(backends)]

(* Calls after which every backend had its turn. *)
Turns(backends) ==
    IF weighted /\ totalWeight(backends) > 0 THEN totalWeight(backends) ELSE Len(backends)

(* Mutant: the offset may equal the end of a backend's range. *)
lateOffset(backends, count) ==
    LET offset == count % totalWeight(backends)
    IN  CHOOSE i \in 1 .. Len(backends) :
            /\ backends[i].weight > 0
            /\ offset <= upTo(backends)[i]
            /\ \A j \in 1 .. i - 1 : offset > upTo(backends)[j] \/ backends[j].weight <= 0

(* "Find the backend at the offset": the first whose range ends after it. *)
atOffset(backends, count) ==
    LET offset == count % totalWeight(backends)
    IN  CHOOSE i \in 1 .. Len(backends) :
            /\ offset < upTo(backends)[i]
            /\ \A j \in 1 .. i - 1 : offset >= upTo(backends)[j]

(* The index that Select returns for a counter value. *)
chosen(backends, count) ==
    IF weighted /\ totalWeight(backends) > 0
    THEN atOffset(backends, count)
    ELSE (count % Len(backends)) + 1

SelInit ==
    /\ weighted \in BOOLEAN
    /\ pool \in Pools
    /\ counter = 0
    /\ slice = <<>>
    /\ picks = <<>>

(* Select is called with the backends that are healthy now; with none it    *)
(* returns nil and leaves the counter alone.                                *)
Select(states) ==
    LET backends == GetHealthyBackends(pool, states)
        pick == chosen(backends, counter')
        same == backends = slice /\ counter' # 0
        kept == IF Len(picks) < 2 * Turns(backends) THEN picks ELSE Tail(picks)
    IN  /\ backends # <<>>
        /\ counter' = (counter + 1) % 2^CounterBits
        /\ slice' = backends
        /\ picks' = IF same THEN Append(kept, pick) ELSE <<pick>>
        /\ UNCHANGED <<weighted, pool>>

SelNext == \E states \in HealthMaps : Select(states)

SelSpec == SelInit /\ [][SelNext]_selVars

-----------------------------------------------------------------------------
(* What a backend is due in that many calls. *)
ShareOf(backends, i) ==
    IF weighted /\ totalWeight(backends) > 0 THEN positive(backends[i].weight) ELSE 1

(***************************************************************************)
(* FairShare.  Among any Turns(slice) calls in a row with the same healthy *)
(* backends, whatever the counter was before, a backend is chosen exactly  *)
(* as often as its weight says (once each without weights), as long as the *)
(* counter does not wrap around in between.                                *)
(***************************************************************************)
FairShare ==
    \A from \in 1 .. Len(picks) - Turns(slice) + 1 :
        \A i \in 1 .. Len(slice) :
            Cardinality({k \in from .. from + Turns(slice) - 1 : picks[k] = i}) = ShareOf(slice, i)
=============================================================================

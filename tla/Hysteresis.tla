----------------------------- MODULE Hysteresis -----------------------------
(***************************************************************************)
(* What the health state machine promises (the comment of ProcessResult in *)
(* internal/health/state.go), said in terms of the results it was given    *)
(* and of nothing else: the status changes to healthy when the last        *)
(* need.healthy results are all successes, to unhealthy when the last      *)
(* need.unhealthy are all failures, and at no other time.                  *)
(***************************************************************************)
EXTENDS Integers, Sequences

VARIABLES
    need,           \* how many equal results in a row change the status
    log,            \* the results since the last reset, TRUE for a success
    status

vars == <<need, log, status>>

EndsWith(s, r, n) == Len(s) >= n /\ \A i \in Len(s) - n + 1 .. Len(s) : s[i] = r

Init ==
    /\ need \in [healthy : Nat \ {0}, unhealthy : Nat \ {0}]
    /\ log = <<>>
    /\ status = "unknown"

Observe(r) ==
    /\ log' = Append(log, r)
    /\ status' = IF r THEN IF EndsWith(log', TRUE, need.healthy) THEN "healthy" ELSE status
                 ELSE IF EndsWith(log', FALSE, need.unhealthy) THEN "unhealthy" ELSE status
    /\ UNCHANGED need

Forget ==
    /\ log' = <<>>
    /\ status' = "unknown"
    /\ UNCHANGED need

Next == Forget \/ \E r \in BOOLEAN : Observe(r)

Spec == Init /\ [][Next]_vars
=============================================================================

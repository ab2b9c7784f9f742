-------------------------------- MODULE Pool --------------------------------
(***************************************************************************)
(* What an engine promises to those who submit requests and read results,  *)
(* without its workers, callers and lives: an accepted request is worked   *)
(* on, its result is handed out in the order in which results were ready,  *)
(* and a result is lost only when Room results wait to be read or the pool *)
(* is closed.                                                              *)
(***************************************************************************)
EXTENDS Integers, Sequences

CONSTANTS
    Jobs,           \* requests
    Room            \* results that may wait

VARIABLES
    work,           \* accepted, no result yet
    ready,          \* results that wait, in the order in which they are read
    read,           \* results that were read
    missed,         \* results that were lost
    shut            \* the pool is closed, for good

vars == <<work, ready, read, missed, shut>>

Waiting == {ready[i] : i \in 1 .. Len(ready)}

Init == work = {} /\ ready = <<>> /\ read = {} /\ missed = {} /\ shut = FALSE

Accept(j) ==
    /\ j \notin work \cup Waiting \cup read \cup missed
    /\ work' = work \cup {j}
    /\ UNCHANGED <<ready, read, missed, shut>>

Complete(j) ==
    /\ j \in work
    /\ Len(ready) < Room
    /\ work' = work \ {j}
    /\ ready' = Append(ready, j)
    /\ UNCHANGED <<read, missed, shut>>

Miss(j) ==
    /\ j \in work
    /\ shut \/ Len(ready) = Room
    /\ work' = work \ {j}
    /\ missed' = missed \cup {j}
    /\ UNCHANGED <<ready, read, shut>>

Take ==
    /\ ready # <<>>
    /\ ready' = Tail(ready)
    /\ read' = read \cup {Head(ready)}
    /\ UNCHANGED <<work, missed, shut>>

Shut ==
    /\ shut' = TRUE
    /\ UNCHANGED <<work, ready, read, missed>>

Next == Take \/ Shut \/ \E j \in Jobs : Accept(j) \/ Complete(j) \/ Miss(j)

Spec == Init /\ [][Next]_vars
=============================================================================

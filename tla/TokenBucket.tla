----------------------------- MODULE TokenBucket ----------------------------
(***************************************************************************)
(* What a rate limiter promises one client: a bucket of Full requests, of  *)
(* which every admitted request takes one and every refill returns one.    *)
(* While the limiter drops its buckets to save memory it may forgive the   *)
(* client what it has spent ("a dropped map only lets a burst through      *)
(* once", infrastructure/limiter/limiter.go), and at no other time.        *)
(***************************************************************************)
EXTENDS Integers

CONSTANT Full

VARIABLES credit, dropping

vars == <<credit, dropping>>

Init == credit = Full /\ dropping = FALSE

Admit ==
    /\ credit > 0
    /\ credit' = credit - 1
    /\ UNCHANGED dropping

Refill ==
    /\ credit < Full
    /\ credit' = credit + 1
    /\ UNCHANGED dropping

Forgive ==
    /\ dropping
    /\ credit' = Full
    /\ UNCHANGED dropping

DropStartsOrEnds ==
    /\ dropping' = ~dropping
    /\ UNCHANGED credit

Next == Admit \/ Refill \/ Forgive \/ DropStartsOrEnds

Spec == Init /\ [][Next]_vars

=============================================================================
